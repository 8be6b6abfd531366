---------------------- MODULE ProtectionLifecycleProofs ----------------------
(***************************************************************************)
(* For any number of commands, edits, faults and crashes, and any contents *)
(* the user may have: the bytes of the user survive in the files that      *)
(* agentkeeper shares with them, neither Git nor the service manager is    *)
(* left pointing at a file that is gone, the user's own core.hooksPath is  *)
(* on record while the managed hooks are in force, and between commands    *)
(* the manifest tells the truth about the machine.                         *)
(***************************************************************************)
EXTENDS ProtectionLifecycle, FiniteSetTheorems, WellFoundedInduction, TLAPS

Shared == ToSet(SharedIds)
Plain == UserContents \cup {Null}
SharedContent == Plain \cup {Merged(c) : c \in Plain}

\* A manifest entry that the planner wrote.
EntryOK(e) ==
  \/ e.ownership = "owned" /\ e.id \notin Shared \cup {"manifest"}
  \/ /\ e.ownership = "shared" /\ e.id \in Shared
     /\ e.original \in Plain /\ e.installed = Merged(e.original)

ManifestOK(m) ==
  Kind(m) = "manifest" =>
    m.entries \in Seq(ToSet(m.entries)) /\ \A e \in ToSet(m.entries) : EntryOK(e)

\* A change that leaves the user's part of a shared file alone.
ChangeOK(c) ==
  /\ c.path \in Shared =>
       /\ c.before \in SharedContent /\ c.after \in SharedContent
       /\ Own(c.before) = Own(c.after)
  /\ c.path = "manifest" => ManifestOK(c.before) /\ ManifestOK(c.after)

PlanOK(q) == q \in Seq(ToSet(q)) /\ \A c \in ToSet(q) : ChangeOK(c)

FilesOK ==
  /\ DOMAIN fs = Paths
  /\ \A p \in Shared : fs[p] \in SharedContent /\ user[p] \in Plain
  /\ DOMAIN user = Shared
  /\ ManifestOK(fs["manifest"])

\* Where the file transaction stands.
CursorOK ==
  /\ cursor \in Nat /\ attempted \in 0..Len(plan)
  /\ pc = "validate" => attempted = 0 /\ cursor >= 1
  /\ pc = "check" => cursor = attempted + 1
  /\ pc = "apply" => cursor \in 1..Len(plan) /\ attempted = cursor
  /\ pc = "rollback" => cursor <= attempted

\* A change in progress was checked against what the user last wrote.
ClaimOK ==
  pc \in {"check", "apply", "rollback"} =>
    \A k \in 1..attempted : plan[k].path \in Shared \ contested =>
        Own(plan[k].before) = user[plan[k].path]

Fields(c) ==
  c = [stage |-> c.stage, op |-> c.op, result |-> c.result, installed |-> c.installed,
       files |-> c.files, external |-> c.external, at |-> c.at, before |-> c.before,
       degraded |-> c.degraded, undo |-> c.undo, harmed |-> c.harmed]

CommandOK == Fields(cmd) /\ PlanOK(cmd.files)

IInv ==
  /\ FilesOK /\ CommandOK /\ PlanOK(plan) /\ CursorOK /\ ClaimOK
  /\ UserBytesSurvive
-----------------------------------------------------------------------------
(* Sequences *)

\* Every nonempty set of numbers has a least one.
LEMMA LeastOfSome ==
  ASSUME NEW T \in SUBSET Nat, T # {}
  PROVE  \E n \in T : \A m \in T : n <= m
<1> DEFINE R == OpToRel(<, Nat)
<1>1. IsWellFoundedOn(R, Nat)
  BY NatLessThanWellFounded
<1>2. PICK n \in T : \A m \in T : <<m, n>> \notin R
  <2> HIDE DEF R
  <2> QED BY <1>1, WFMin
<1>3. \A m \in T : ~(m < n)
  BY <1>2 DEF OpToRel
<1> QED BY <1>3

LEMMA SeqOfItsOwn ==
  ASSUME NEW S, NEW q \in Seq(S)
  PROVE  /\ Len(q) \in Nat /\ DOMAIN q = 1..Len(q)
         /\ \A k \in 1..Len(q) : q[k] \in ToSet(q)
         /\ ToSet(q) \subseteq S
         /\ q \in Seq(ToSet(q))
<1>1. Len(q) \in Nat /\ DOMAIN q = 1..Len(q) /\ \A k \in 1..Len(q) : q[k] \in S
  OBVIOUS
<1>2. \A k \in 1..Len(q) : q[k] \in ToSet(q)
  BY <1>1 DEF ToSet
<1>3. ToSet(q) \subseteq S
  BY <1>1 DEF ToSet
<1>4. q \in Seq(ToSet(q))
  <2> DEFINE T == ToSet(q)
  <2>1. \A k \in 1..Len(q) : q[k] \in T
    BY <1>2
  <2> HIDE DEF T
  <2>2. q \in [1..Len(q) -> T]
    BY <1>1, <2>1
  <2>3. q \in Seq(T)
    BY <1>1, <2>2
  <2> QED
    BY <2>3 DEF T
<1> QED
  BY <1>1, <1>2, <1>3, <1>4

LEMMA ConcatSeq ==
  ASSUME NEW S, NEW T, NEW q \in Seq(S), NEW r \in Seq(T)
  PROVE  q \o r \in Seq(S \cup T)
  OBVIOUS

LEMMA ReverseSeq ==
  ASSUME NEW S, NEW q \in Seq(S)
  PROVE  Reverse(q) \in Seq(S)
<1>1. Len(q) \in Nat /\ \A k \in 1..Len(q) : q[k] \in S
  OBVIOUS
<1>2. \A i \in 1..Len(q) : (Len(q) - i) + 1 \in 1..Len(q)
  BY <1>1
<1>3. Reverse(q) \in [1..Len(q) -> S]
  BY <1>1, <1>2 DEF Reverse
<1> QED
  BY <1>1, <1>3

\* The i-th selected position exists.
LEMMA RankExists ==
  ASSUME NEW n \in Nat, NEW at \in SUBSET (1..n), NEW i \in 1..Cardinality(at)
  PROVE  \E k \in at : Cardinality({j \in at : j <= k}) = i
<1> DEFINE Below(k) == {j \in at : j <= k}
           T == {m \in 1..Cardinality(at) : \A k \in at : Cardinality(Below(k)) # m}
<1>1. IsFiniteSet(at) /\ Cardinality(at) \in Nat /\ at \subseteq Nat
  <2>1. IsFiniteSet(1..n)
    BY FS_Interval
  <2>2. IsFiniteSet(at)
    BY <2>1, FS_Subset
  <2> QED
    BY <2>2, FS_CardinalityType
<1>2. \A k \in at : IsFiniteSet(Below(k)) /\ Cardinality(Below(k)) \in Nat
  BY <1>1, FS_Subset, FS_CardinalityType
<1>3. SUFFICES ASSUME T # {} PROVE FALSE
  OBVIOUS
<1>4. T \subseteq Nat
  BY <1>1
<1>5. PICK m \in T : \A t \in T : m <= t
  <2> HIDE DEF T
  <2> QED BY <1>3, <1>4, LeastOfSome
<1>6. m \in 1..Cardinality(at) /\ m \in Nat
  BY <1>1
<1>7. CASE m = 1
  <2>1. at # {}
    BY <1>1, <1>6, FS_EmptySet
  <2>2. PICK k \in at : \A j \in at : k <= j
    BY <1>1, <2>1, LeastOfSome
  <2>3. Below(k) = {k}
    <3>1. \A j \in at : j <= k <=> j = k
      BY <1>1, <2>2
    <3> QED
      BY <3>1
  <2>4. Cardinality(Below(k)) = 1
    BY <2>3, FS_Singleton
  <2> QED
    BY <1>5, <1>7, <2>4
<1>8. CASE m # 1
  <2>1. m - 1 \in 1..Cardinality(at) /\ m - 1 \notin T
    BY <1>1, <1>4, <1>5, <1>6, <1>8
  <2>2. PICK k \in at : Cardinality(Below(k)) = m - 1
    BY <2>1
  <2> DEFINE Over == {j \in at : j > k}
  <2>3. Over # {}
    <3>1. ASSUME Over = {} PROVE Below(k) = at
      <4>1. \A j \in at : ~(j > k)
        BY <3>1
      <4>2. \A j \in at : j <= k
        BY <1>1, <4>1
      <4> QED
        BY <4>2
    <3> QED
      BY <3>1, <2>2, <1>1, <1>6
  <2>4. PICK l \in Over : \A j \in Over : l <= j
    BY <1>1, <2>3, LeastOfSome
  <2>5. Below(l) = Below(k) \cup {l} /\ l \notin Below(k)
    <3>1. l \in at /\ l > k
      BY <2>4
    <3>2. \A j \in at : j <= l <=> (j <= k \/ j = l)
      BY <1>1, <2>4, <3>1
    <3>3. ~(l <= k)
      BY <1>1, <3>1
    <3> QED
      BY <3>1, <3>2, <3>3
  <2>6. Cardinality(Below(l)) = m
    BY <1>2, <1>6, <2>2, <2>5, FS_AddElement
  <2> QED
    BY <1>5, <2>6
<1> QED
  BY <1>7, <1>8

\* Kept selects: whatever is in the result was in q and in S.
LEMMA KeptSeq ==
  ASSUME NEW T, NEW q \in Seq(T), NEW S
  PROVE  Kept(q, S) \in Seq(ToSet(q) \cap S)
<1> DEFINE at == {k \in DOMAIN q : q[k] \in S}
           card == Cardinality(at)
           index(i) == CHOOSE k \in at : Cardinality({j \in at : j <= k}) = i
<1>1. Len(q) \in Nat /\ DOMAIN q = 1..Len(q)
  OBVIOUS
<1>2. at \in SUBSET (1..Len(q))
  BY <1>1
<1>3. card \in Nat
  <2>1. IsFiniteSet(1..Len(q))
    BY <1>1, FS_Interval
  <2>2. IsFiniteSet(at)
    BY <1>2, <2>1, FS_Subset
  <2> QED
    BY <2>2, FS_CardinalityType
<1>4. \A i \in 1..card : index(i) \in at
  <2> HIDE DEF at
  <2> QED BY <1>1, <1>2, RankExists
<1>5. \A i \in 1..card : q[index(i)] \in ToSet(q) \cap S
  <2> HIDE DEF index
  <2> QED BY <1>4 DEF ToSet
<1>6. Kept(q, S) = [i \in 1..card |-> q[index(i)]]
  BY DEF Kept
<1> QED
  <2> HIDE DEF card, index
  <2> QED BY <1>3, <1>5, <1>6


\* What filtering, reversing and joining sequences does to their elements.
LEMMA ConcatSet ==
  ASSUME NEW S, NEW T, NEW q \in Seq(S), NEW r \in Seq(T)
  PROVE  ToSet(q \o r) = ToSet(q) \cup ToSet(r)
<1>1. /\ Len(q) \in Nat /\ DOMAIN q = 1..Len(q) /\ Len(r) \in Nat /\ DOMAIN r = 1..Len(r)
      /\ DOMAIN (q \o r) = 1..(Len(q) + Len(r))
      /\ \A k \in 1..(Len(q) + Len(r)) :
             (q \o r)[k] = IF k <= Len(q) THEN q[k] ELSE r[k - Len(q)]
  OBVIOUS
<1> DEFINE w == q \o r
<1> HIDE DEF w
<1>2. ASSUME NEW x \in ToSet(w) PROVE x \in ToSet(q) \cup ToSet(r)
  <2>1. PICK k \in 1..(Len(q) + Len(r)) : x = w[k]
    BY <1>1 DEF ToSet, w
  <2>2. CASE k <= Len(q)
    BY <1>1, <2>1, <2>2 DEF ToSet, w
  <2>3. CASE ~(k <= Len(q))
    <3>1. k - Len(q) \in 1..Len(r)
      BY <1>1, <2>3
    <3> QED
      BY <1>1, <2>1, <2>3, <3>1 DEF ToSet, w
  <2> QED
    BY <2>2, <2>3
<1>3. ASSUME NEW x \in ToSet(q) PROVE x \in ToSet(w)
  <2>1. PICK k \in 1..Len(q) : x = q[k]
    BY <1>1 DEF ToSet
  <2>2. k \in 1..(Len(q) + Len(r)) /\ w[k] = x
    BY <1>1, <2>1 DEF w
  <2> QED
    BY <1>1, <2>2 DEF ToSet, w
<1>4. ASSUME NEW x \in ToSet(r) PROVE x \in ToSet(w)
  <2>1. PICK k \in 1..Len(r) : x = r[k]
    BY <1>1 DEF ToSet
  <2>2. k + Len(q) \in 1..(Len(q) + Len(r)) /\ w[k + Len(q)] = x
    BY <1>1, <2>1 DEF w
  <2> QED
    BY <1>1, <2>2 DEF ToSet, w
<1> QED
  BY <1>2, <1>3, <1>4 DEF w

LEMMA ReverseSet ==
  ASSUME NEW S, NEW q \in Seq(S)
  PROVE  ToSet(Reverse(q)) = ToSet(q)
<1> DEFINE r == Reverse(q)
<1>1. /\ Len(q) \in Nat /\ DOMAIN q = 1..Len(q) /\ DOMAIN r = 1..Len(q)
      /\ \A k \in 1..Len(q) : r[k] = q[(Len(q) - k) + 1]
  BY DEF Reverse
<1> HIDE DEF r
<1>2. ASSUME NEW x \in ToSet(r) PROVE x \in ToSet(q)
  <2>1. PICK k \in 1..Len(q) : x = r[k]
    BY <1>1 DEF ToSet
  <2>2. (Len(q) - k) + 1 \in 1..Len(q)
    BY <1>1
  <2> QED
    BY <1>1, <2>1, <2>2 DEF ToSet
<1>3. ASSUME NEW x \in ToSet(q) PROVE x \in ToSet(r)
  <2>1. PICK k \in 1..Len(q) : x = q[k]
    BY <1>1 DEF ToSet
  <2>2. (Len(q) - k) + 1 \in 1..Len(q) /\ (Len(q) - ((Len(q) - k) + 1)) + 1 = k
    BY <1>1
  <2>3. r[(Len(q) - k) + 1] = x
    BY <1>1, <2>1, <2>2
  <2> QED
    BY <1>1, <2>2, <2>3 DEF ToSet
<1> QED
  BY <1>2, <1>3 DEF r

LEMMA KeptSet ==
  ASSUME NEW T, NEW q \in Seq(T), NEW S
  PROVE  ToSet(Kept(q, S)) = ToSet(q) \cap S
<1> DEFINE at == {k \in DOMAIN q : q[k] \in S}
           card == Cardinality(at)
           Below(k) == {j \in at : j <= k}
           index(i) == CHOOSE k \in at : Cardinality(Below(k)) = i
           w == Kept(q, S)
<1>1. Len(q) \in Nat /\ DOMAIN q = 1..Len(q) /\ at \in SUBSET Nat
  OBVIOUS
<1>2. IsFiniteSet(at) /\ card \in Nat
  <2>1. IsFiniteSet(1..Len(q)) /\ at \in SUBSET (1..Len(q))
    BY <1>1, FS_Interval
  <2>2. IsFiniteSet(at)
    BY <2>1, FS_Subset
  <2> QED
    BY <2>2, FS_CardinalityType
<1>3. w = [i \in 1..card |-> q[index(i)]]
  BY DEF Kept
<1>4. ASSUME NEW x \in ToSet(w) PROVE x \in ToSet(q) \cap S
  <2>1. w \in Seq(ToSet(q) \cap S)
    BY KeptSeq
  <2> HIDE DEF w
  <2> QED
    BY <2>1, SeqOfItsOwn
<1>5. ASSUME NEW x \in ToSet(q) \cap S PROVE x \in ToSet(w)
  <2>1. PICK k \in at : x = q[k]
    BY DEF ToSet
  <2> HIDE DEF at
  <2>2. \A j \in at : /\ IsFiniteSet(Below(j)) /\ Cardinality(Below(j)) \in Nat
                      /\ Cardinality(Below(j)) <= card
    <3>1. ASSUME NEW j \in at PROVE IsFiniteSet(Below(j)) /\ Cardinality(Below(j)) <= card
      <4>1. Below(j) \in SUBSET at
        OBVIOUS
      <4> HIDE DEF Below
      <4> QED BY <1>2, <4>1, FS_Subset
    <3> QED BY <3>1, FS_CardinalityType
  <2>3. ASSUME NEW j \in at, NEW l \in at, j < l, Cardinality(Below(j)) = Cardinality(Below(l))
        PROVE  FALSE
    <3>1. Below(j) \in SUBSET Below(l)
      <4>1. \A m \in at : m <= j => m <= l
        BY <1>1, <2>3
      <4> QED BY <4>1
    <3>2. l \in Below(l) /\ l \notin Below(j)
      BY <1>1, <2>3
    <3> HIDE DEF Below
    <3>3. Below(l) = Below(j)
      BY <2>2, <2>3, <3>1, FS_Subset
    <3> QED
      BY <3>2, <3>3
  <2> DEFINE i == Cardinality(Below(k))
  <2>4. i \in 1..card
    <3>1. k \in Below(k)
      BY <1>1
    <3>2. Below(k) # {}
      BY <3>1
    <3> HIDE DEF Below
    <3>3. i # 0
      BY <2>2, <3>2, FS_EmptySet
    <3> QED
      BY <1>2, <2>2, <3>3
  <2>5. index(i) = k
    <3>1. index(i) \in at /\ Cardinality(Below(index(i))) = i
      <4>1. \E l \in at : Cardinality(Below(l)) = i
        OBVIOUS
      <4> HIDE DEF Below, i
      <4>2. (CHOOSE l \in at : Cardinality(Below(l)) = i) \in at
        BY <4>1
      <4>3. Cardinality(Below(CHOOSE l \in at : Cardinality(Below(l)) = i)) = i
        BY <4>1, Zenon
      <4> QED BY <4>2, <4>3 DEF index
    <3> HIDE DEF index, i
    <3>2. ~(index(i) < k) /\ ~(k < index(i))
      BY <2>3, <3>1 DEF i
    <3>3. index(i) \in Nat /\ k \in Nat
      BY <1>1, <3>1
    <3> HIDE DEF Below
    <3> QED
      BY <3>2, <3>3
  <2>6. DOMAIN w = 1..card /\ w[i] = q[index(i)]
    BY <1>3, <2>4
  <2> HIDE DEF w, i, index, card
  <2> QED
    BY <2>1, <2>4, <2>5, <2>6 DEF ToSet
<1> QED
  BY <1>4, <1>5

LEMMA MapIsSeq ==
  ASSUME NEW S, NEW q \in Seq(S), NEW f, f = [k \in DOMAIN q |-> f[k]]
  PROVE  f \in Seq(ToSet(f)) /\ DOMAIN f = DOMAIN q
<1> DEFINE T == ToSet(f)
<1>1. Len(q) \in Nat /\ DOMAIN q = 1..Len(q) /\ \A k \in DOMAIN q : f[k] \in T
  BY DEF ToSet
<1> HIDE DEF T
<1>2. f \in [1..Len(q) -> T]
  BY <1>1
<1>3. f \in Seq(T)
  BY <1>1, <1>2
<1> QED
  BY <1>3 DEF T
-----------------------------------------------------------------------------
(* Contents and plans *)

LEMMA SharedPaths ==
  Shared = {"profile", "settings"} /\ SharedIds \in Seq(Shared)
<1>1. Shared = {"profile", "settings"}
  BY DEF Shared, SharedIds, ToSet
<1>2. SharedIds \in Seq({"profile", "settings"})
  BY DEF SharedIds
<1> QED
  BY <1>1, <1>2

\* The managed block comes off again.
LEMMA OwnPart ==
  /\ \A c \in Plain : Own(c) = c /\ Kind(c) \in {"user", "absent"}
  /\ \A c \in Plain : Own(Merged(c)) = c /\ Kind(Merged(c)) = "merged"
  BY NullIsNoContent, ContentsAreTheUsers DEF Own, Kind, Merged, Plain

LEMMA PlainOrMerged ==
  ASSUME NEW c \in SharedContent, Kind(c) # "merged"
  PROVE  c \in Plain
  BY OwnPart DEF SharedContent

LEMMA NoManifest == ManifestOK(Null) /\ \A c \in Plain : ManifestOK(c)
  BY OwnPart DEF ManifestOK, Plain, Kind

\* Changes of paths that are neither shared nor the manifest.
LEMMA OtherChange ==
  ASSUME NEW p, p \notin Shared \cup {"manifest"}, NEW b, NEW a
  PROVE  ChangeOK(Change(p, b, a))
  BY DEF ChangeOK, Change

LEMMA PlanOfChanges ==
  ASSUME NEW S, NEW q \in Seq(S), \A c \in S : ChangeOK(c)
  PROVE  PlanOK(q)
  BY SeqOfItsOwn DEF PlanOK

LEMMA PlanNone == PlanOK(<<>>)
<1> DEFINE S == {}
           q == <<>>
<1>1. q \in Seq(S) /\ \A d \in S : ChangeOK(d)
  OBVIOUS
<1>2. PlanOK(q)
  <2> HIDE DEF S, q
  <2> QED BY <1>1, PlanOfChanges
<1> QED
  BY <1>2

LEMMA InverseChanges ==
  ASSUME NEW q, q \in Seq(ToSet(q)), NEW d \in ToSet(Invert(q))
  PROVE  \E c \in ToSet(q) : d = Change(c.path, c.after, c.before)
<1> DEFINE S == ToSet(q)
           r == Reverse(q)
<1>1. q \in Seq(S)
  OBVIOUS
<1>2. r \in Seq(S)
  <2> HIDE DEF S
  <2> QED BY <1>1, ReverseSeq
<1>3. \A k \in DOMAIN r : r[k] \in S
  <2> HIDE DEF S, r
  <2> QED BY <1>2
<1>4. Invert(q) = [k \in DOMAIN r |-> Change(r[k].path, r[k].after, r[k].before)]
  BY DEF Invert, MapSeq
<1>5. PICK k \in DOMAIN r : d = Change(r[k].path, r[k].after, r[k].before)
  <2> HIDE DEF r
  <2> QED BY <1>4 DEF ToSet
<1> QED
  BY <1>3, <1>5

\* The inverse of a plan leaves the user's part alone as well.
LEMMA PlanInverse ==
  ASSUME NEW q, PlanOK(q)
  PROVE  PlanOK(Invert(q))
<1> DEFINE r == Reverse(q)
           S == ToSet(q)
           w == Invert(q)
<1>1. q \in Seq(S)
  BY DEF PlanOK
<1>2. r \in Seq(S)
  <2> HIDE DEF S
  <2> QED BY <1>1, ReverseSeq
<1>3. w = [k \in DOMAIN r |-> Change(r[k].path, r[k].after, r[k].before)]
  BY DEF Invert, MapSeq
<1> HIDE DEF r, S, w
<1>4. w \in Seq(ToSet(w))
  BY <1>2, <1>3, MapIsSeq
<1>5. ASSUME NEW d \in ToSet(w) PROVE ChangeOK(d)
  <2>1. PICK c \in ToSet(q) : d = Change(c.path, c.after, c.before)
    BY InverseChanges DEF w, PlanOK
  <2>2. ChangeOK(c)
    BY DEF PlanOK
  <2> QED
    BY <2>1, <2>2 DEF ChangeOK, Change
<1> QED
  BY <1>4, <1>5 DEF PlanOK, w

LEMMA OwnedPaths ==
  ASSUME NEW b
  PROVE  LET own == {"init", "state", "replica", "hook", "desc", "extra"} IN
         OwnedIds(b) \in Seq(own) /\ own \cap (Shared \cup {"manifest"}) = {}
<1> DEFINE own == {"init", "state", "replica", "hook", "desc", "extra"}
<1>1. own \cap (Shared \cup {"manifest"}) = {}
  BY SharedPaths
<1>2. <<"init", "state", "replica", "hook", "desc">> \in Seq(own)
  OBVIOUS
<1>3. <<"extra">> \in Seq(own) /\ <<>> \in Seq(own)
  OBVIOUS
<1>4. OwnedIds(b) \in Seq(own)
  <2> DEFINE rest == IF b > 1 THEN <<"extra">> ELSE <<>>
  <2>1. rest \in Seq(own)
    BY <1>3
  <2> HIDE DEF own, rest
  <2>2. <<"init", "state", "replica", "hook", "desc">> \o rest \in Seq(own)
    BY <1>2, <2>1
  <2> QED
    BY <2>2 DEF OwnedIds, rest
<1> QED
  BY <1>1, <1>4

-----------------------------------------------------------------------------
(* The plans of the installation planner *)

\* The shared files a first activation finds, and those it writes.
Existing(f) == {p \in Shared : f[p] # Null}
Touched(f) == Existing(f) \cup {"settings"}

\* What the manifest of a first activation records.
OwnedEntries(b, o) ==
  {Entry(id, "owned", OwnedContent(id, b, o), Null) : id \in ToSet(OwnedIds(b))}
SharedEntries(f) == {Entry(p, "shared", Merged(f[p]), f[p]) : p \in Touched(f)}

FirstChanges(f, b, o, m) ==
  {Change(BackupPath(p), Null, f[p]) : p \in Existing(f)}
    \cup {Change(id, Null, OwnedContent(id, b, o)) : id \in ToSet(OwnedIds(b))}
    \cup {Change(p, f[p], Merged(f[p])) : p \in Touched(f)}
    \cup {Change("manifest", Null, m)}

LEMMA FirstShape ==
  ASSUME NEW s, NEW o, PlanFirstActivation(s, o).ok
  PROVE  \E es : LET m == Manifest(Configuration(s.build, o), es)
                     q == PlanFirstActivation(s, o).changes
                 IN  /\ ToSet(es) = OwnedEntries(s.build, o) \cup SharedEntries(s.fs)
                     /\ es \in Seq(ToSet(es))
                     /\ ToSet(q) = FirstChanges(s.fs, s.build, o, m)
                     /\ q \in Seq(ToSet(q))
                     /\ \A p \in Touched(s.fs) : Kind(s.fs[p]) # "merged"
<1> DEFINE owned == OwnedIds(s.build)
           existing == {p \in ToSet(SharedIds) : s.fs[p] # Null}
           shared == Kept(SharedIds, existing \cup {"settings"})
           backedUp == Kept(shared, existing)
           content(id) == OwnedContent(id, s.build, o)
           installOwned == [k \in DOMAIN owned |-> Change(owned[k], Null, content(owned[k]))]
           installShared == [k \in DOMAIN shared |->
                               Change(shared[k], s.fs[shared[k]], Merged(s.fs[shared[k]]))]
           backups == [k \in DOMAIN backedUp |->
                         Change(BackupPath(backedUp[k]), Null, s.fs[backedUp[k]])]
           ownedEntries == [k \in DOMAIN owned |->
                              Entry(owned[k], "owned", content(owned[k]), Null)]
           sharedEntries == [k \in DOMAIN shared |->
                               Entry(shared[k], "shared", Merged(s.fs[shared[k]]),
                                     s.fs[shared[k]])]
           es == ownedEntries \o sharedEntries
           m == Manifest(Configuration(s.build, o), es)
           last == <<Change("manifest", Null, m)>>
           changes == backups \o installOwned \o installShared \o last
<1> HIDE DEF owned, existing, shared, backedUp, content, installOwned, installShared,
             backups, ownedEntries, sharedEntries, es, m, last, changes
<1>1. PlanFirstActivation(s, o).changes = changes
  <2>1. \/ PlanFirstActivation(s, o) = Refused
        \/ PlanFirstActivation(s, o) = Planned(changes)
    BY DEF PlanFirstActivation, MapSeq, owned, existing, shared, backedUp, content,
           installOwned, installShared, backups, ownedEntries, sharedEntries, es, m, last, changes
  <2> QED
    BY <2>1 DEF Refused, Planned
<1>2. existing = Existing(s.fs)
  BY DEF existing, Existing, Shared
<1>3. shared \in Seq(Shared) /\ ToSet(shared) = Touched(s.fs)
  <2> DEFINE K == existing \cup {"settings"}
  <2> HIDE DEF K
  <2>1. shared \in Seq(ToSet(SharedIds) \cap K) /\ ToSet(shared) = ToSet(SharedIds) \cap K
    BY SharedPaths, KeptSeq, KeptSet DEF shared, K
  <2>2. K \subseteq Shared /\ K = Touched(s.fs)
    BY <1>2, SharedPaths DEF K, Existing, Touched
  <2> QED
    BY <2>1, <2>2 DEF Shared
<1>4. backedUp \in Seq(Shared) /\ ToSet(backedUp) = Existing(s.fs)
  <2>1. /\ backedUp \in Seq(ToSet(shared) \cap existing)
        /\ ToSet(backedUp) = ToSet(shared) \cap existing
    BY <1>3, KeptSeq, KeptSet DEF backedUp
  <2> QED
    BY <1>2, <1>3, <2>1 DEF Touched, Existing
<1>5. PICK own : owned \in Seq(own)
  BY OwnedPaths DEF owned
<1>6. /\ ToSet(backups) = {Change(BackupPath(p), Null, s.fs[p]) : p \in Existing(s.fs)}
      /\ backups \in Seq(ToSet(backups))
  <2>1. backups \in Seq(ToSet(backups)) /\ DOMAIN backups = DOMAIN backedUp
    BY <1>4, MapIsSeq DEF backups
  <2>2. ToSet(backups) = {Change(BackupPath(p), Null, s.fs[p]) : p \in ToSet(backedUp)}
    BY <2>1 DEF ToSet, backups
  <2> QED
    BY <1>4, <2>1, <2>2
<1>7. /\ ToSet(installOwned)
           = {Change(id, Null, OwnedContent(id, s.build, o)) : id \in ToSet(OwnedIds(s.build))}
      /\ installOwned \in Seq(ToSet(installOwned))
  <2>1. installOwned \in Seq(ToSet(installOwned)) /\ DOMAIN installOwned = DOMAIN owned
    BY <1>5, MapIsSeq DEF installOwned
  <2>2. ToSet(installOwned)
          = {Change(id, Null, OwnedContent(id, s.build, o)) : id \in ToSet(owned)}
    BY <2>1 DEF ToSet, installOwned, content
  <2> QED
    BY <2>1, <2>2 DEF owned
<1>8. /\ ToSet(installShared) = {Change(p, s.fs[p], Merged(s.fs[p])) : p \in Touched(s.fs)}
      /\ installShared \in Seq(ToSet(installShared))
  <2>1. installShared \in Seq(ToSet(installShared)) /\ DOMAIN installShared = DOMAIN shared
    BY <1>3, MapIsSeq DEF installShared
  <2>2. ToSet(installShared) = {Change(p, s.fs[p], Merged(s.fs[p])) : p \in ToSet(shared)}
    BY <2>1 DEF ToSet, installShared
  <2> QED
    BY <1>3, <2>1, <2>2
<1>9. /\ ToSet(es) = OwnedEntries(s.build, o) \cup SharedEntries(s.fs)
      /\ es \in Seq(ToSet(es))
  <2>1. ownedEntries \in Seq(ToSet(ownedEntries)) /\ DOMAIN ownedEntries = DOMAIN owned
    BY <1>5, MapIsSeq DEF ownedEntries
  <2>2. sharedEntries \in Seq(ToSet(sharedEntries)) /\ DOMAIN sharedEntries = DOMAIN shared
    BY <1>3, MapIsSeq DEF sharedEntries
  <2>3. ToSet(ownedEntries)
          = {Entry(id, "owned", OwnedContent(id, s.build, o), Null) : id \in ToSet(owned)}
    BY <2>1 DEF ToSet, ownedEntries, content
  <2>4. ToSet(sharedEntries)
          = {Entry(p, "shared", Merged(s.fs[p]), s.fs[p]) : p \in ToSet(shared)}
    BY <2>2 DEF ToSet, sharedEntries
  <2>5. /\ ToSet(es) = ToSet(ownedEntries) \cup ToSet(sharedEntries)
        /\ es \in Seq(ToSet(ownedEntries) \cup ToSet(sharedEntries))
    BY <2>1, <2>2, ConcatSeq, ConcatSet DEF es
  <2> QED
    BY <1>3, <2>3, <2>4, <2>5 DEF OwnedEntries, SharedEntries, owned
<1>10. ToSet(last) = {Change("manifest", Null, m)} /\ last \in Seq(ToSet(last))
  BY DEF last, ToSet
<1>11. /\ changes \in Seq(ToSet(changes))
       /\ ToSet(changes) = (ToSet(backups) \cup ToSet(installOwned) \cup ToSet(installShared))
                             \cup ToSet(last)
  <2> DEFINE q1 == backups \o installOwned
             q2 == q1 \o installShared
             q3 == q2 \o last
  <2>1. /\ q1 \in Seq(ToSet(backups) \cup ToSet(installOwned))
        /\ ToSet(q1) = ToSet(backups) \cup ToSet(installOwned)
    BY <1>6, <1>7, ConcatSeq, ConcatSet
  <2> HIDE DEF q1
  <2>2. /\ q2 \in Seq(ToSet(q1) \cup ToSet(installShared))
        /\ ToSet(q2) = ToSet(q1) \cup ToSet(installShared)
    BY <1>8, <2>1, ConcatSeq, ConcatSet
  <2> HIDE DEF q2
  <2>3. /\ q3 \in Seq(ToSet(q2) \cup ToSet(last))
        /\ ToSet(q3) = ToSet(q2) \cup ToSet(last)
    BY <1>10, <2>2, ConcatSeq, ConcatSet
  <2> HIDE DEF q3
  <2>4. changes = q3
    BY DEF changes, q1, q2, q3
  <2> QED
    BY <2>1, <2>2, <2>3, <2>4
<1>12. ToSet(changes) = FirstChanges(s.fs, s.build, o, m)
  BY <1>6, <1>7, <1>8, <1>10, <1>11 DEF FirstChanges
<1>13. \A p \in Touched(s.fs) : Kind(s.fs[p]) # "merged"
  <2>1. \A p \in ToSet(shared) : Kind(s.fs[p]) # "merged"
    BY DEF PlanFirstActivation, Refused, shared, existing
  <2> QED
    BY <1>3, <2>1
<1> QED
  BY <1>1, <1>9, <1>11, <1>12, <1>13 DEF m

Drifted(f, m) == {e \in ToSet(m.entries) : f[e.id] # e.installed}
Repairs(f, m) == {Change(e.id, f[e.id], e.installed) : e \in Drifted(f, m)}

\* planInstalled rewrites exactly the entries that drifted.
LEMMA InstalledShape ==
  ASSUME NEW s, NEW op, NEW m, NEW o, m.entries \in Seq(ToSet(m.entries)),
         PlanInstalled(s, op, m, o).ok
  PROVE  LET q == PlanInstalled(s, op, m, o).changes
         IN  /\ ToSet(q) = Repairs(s.fs, m)
             /\ q \in Seq(ToSet(q))
             /\ \A e \in Drifted(s.fs, m) :
                             /\ op = "repair" /\ e.ownership = "owned"
                             /\ OwnedContent(e.id, s.build, o) = e.installed
             /\ BackupsIntact(s, m)
<1> DEFINE S == ToSet(m.entries)
           D == {e \in S : s.fs[e.id] # e.installed}
           drifted == Kept(m.entries, D)
           repairs == [k \in DOMAIN drifted |->
                         Change(drifted[k].id, s.fs[drifted[k].id], drifted[k].installed)]
<1>1. PlanInstalled(s, op, m, o) =
        IF BackupsIntact(s, m) /\ \A e \in ToSet(drifted) :
               /\ op = "repair" /\ e.ownership = "owned"
               /\ OwnedContent(e.id, s.build, o) = e.installed
        THEN Planned(repairs) ELSE Refused
  BY DEF PlanInstalled, MapSeq
<1>2. drifted \in Seq(S \cap D) /\ ToSet(drifted) = S \cap D
  <2> HIDE DEF D
  <2> QED BY KeptSeq, KeptSet
<1> HIDE DEF drifted, repairs
<1>3. /\ BackupsIntact(s, m)
      /\ \A e \in ToSet(drifted) :
           op = "repair" /\ e.ownership = "owned" /\ OwnedContent(e.id, s.build, o) = e.installed
      /\ PlanInstalled(s, op, m, o).changes = repairs
  BY <1>1 DEF Planned, Refused
<1>4. repairs \in Seq(ToSet(repairs)) /\ DOMAIN repairs = DOMAIN drifted
  BY <1>2, MapIsSeq DEF repairs
<1>5. ToSet(repairs) = {Change(e.id, s.fs[e.id], e.installed) : e \in ToSet(drifted)}
  BY <1>4 DEF ToSet, repairs
<1>6. ToSet(drifted) = D
  BY <1>2
<1> HIDE DEF D
<1>7. /\ ToSet(repairs) = {Change(e.id, s.fs[e.id], e.installed) : e \in D}
      /\ repairs \in Seq(ToSet(repairs))
      /\ \A e \in D : /\ op = "repair" /\ e.ownership = "owned"
                      /\ OwnedContent(e.id, s.build, o) = e.installed
      /\ BackupsIntact(s, m)
  BY <1>3, <1>4, <1>5, <1>6
<1> QED
  BY <1>3, <1>7 DEF D, Drifted, Repairs

\* planDeactivation takes back everything the manifest records.
LEMMA DeactivationShape ==
  ASSUME NEW s, NEW m, m.entries \in Seq(ToSet(m.entries)), PlanDeactivation(s, m).ok
  PROVE  LET q == PlanDeactivation(s, m).changes
             S == ToSet(m.entries)
         IN  /\ ToSet(q) = {Change(e.id, s.fs[e.id], e.original) : e \in S}
                             \cup {Change(BackupPath(e.id), e.original, Null) :
                                     e \in {d \in S : d.original # Null}}
                             \cup {Change("manifest", s.fs["manifest"], Null)}
             /\ q \in Seq(ToSet(q))
             /\ \A e \in S : s.fs[e.id] = e.installed
             /\ BackupsIntact(s, m)
<1> DEFINE S == ToSet(m.entries)
           entries == Reverse(m.entries)
           B == {e \in ToSet(entries) : e.original # Null}
           backedUp == Kept(entries, B)
           uninstall == [k \in DOMAIN entries |->
                           Change(entries[k].id, s.fs[entries[k].id], entries[k].original)]
           removals == [k \in DOMAIN backedUp |->
                          Change(BackupPath(backedUp[k].id), backedUp[k].original, Null)]
           last == <<Change("manifest", s.fs["manifest"], Null)>>
           changes == uninstall \o removals \o last
<1>1. PlanDeactivation(s, m) =
        IF BackupsIntact(s, m) /\ \A e \in ToSet(entries) : s.fs[e.id] = e.installed
        THEN Planned(changes) ELSE Refused
  BY DEF PlanDeactivation, MapSeq
<1> HIDE DEF S
<1>2. entries \in Seq(S) /\ ToSet(entries) = S
  BY ReverseSeq, ReverseSet DEF S
<1> HIDE DEF entries
<1>3. backedUp \in Seq(ToSet(entries) \cap B) /\ ToSet(backedUp) = ToSet(entries) \cap B
  <2> HIDE DEF B
  <2> QED BY <1>2, KeptSeq, KeptSet
<1>4. ToSet(backedUp) = {d \in S : d.original # Null}
  BY <1>2, <1>3
<1> HIDE DEF B, backedUp, uninstall, removals, last, changes
<1>5. /\ BackupsIntact(s, m)
      /\ \A e \in S : s.fs[e.id] = e.installed
      /\ PlanDeactivation(s, m).changes = changes
  BY <1>1, <1>2 DEF Planned, Refused
<1>6. /\ uninstall \in Seq(ToSet(uninstall))
      /\ ToSet(uninstall) = {Change(e.id, s.fs[e.id], e.original) : e \in S}
  <2>1. uninstall \in Seq(ToSet(uninstall)) /\ DOMAIN uninstall = DOMAIN entries
    BY <1>2, MapIsSeq DEF uninstall
  <2>2. ToSet(uninstall) = {Change(e.id, s.fs[e.id], e.original) : e \in ToSet(entries)}
    BY <2>1 DEF ToSet, uninstall
  <2> QED
    BY <1>2, <2>1, <2>2
<1>7. /\ removals \in Seq(ToSet(removals))
      /\ ToSet(removals) = {Change(BackupPath(e.id), e.original, Null) :
                              e \in {d \in S : d.original # Null}}
  <2>1. removals \in Seq(ToSet(removals)) /\ DOMAIN removals = DOMAIN backedUp
    BY <1>3, MapIsSeq DEF removals
  <2>2. ToSet(removals) = {Change(BackupPath(e.id), e.original, Null) : e \in ToSet(backedUp)}
    BY <2>1 DEF ToSet, removals
  <2> QED
    BY <1>4, <2>1, <2>2
<1>8. ToSet(last) = {Change("manifest", s.fs["manifest"], Null)} /\ last \in Seq(ToSet(last))
  BY DEF last, ToSet
<1>9. /\ changes \in Seq(ToSet(changes))
      /\ ToSet(changes) = (ToSet(uninstall) \cup ToSet(removals)) \cup ToSet(last)
  <2> DEFINE q1 == uninstall \o removals
             q2 == q1 \o last
  <2>1. /\ q1 \in Seq(ToSet(uninstall) \cup ToSet(removals))
        /\ ToSet(q1) = ToSet(uninstall) \cup ToSet(removals)
    BY <1>6, <1>7, ConcatSeq, ConcatSet
  <2> HIDE DEF q1
  <2>2. /\ q2 \in Seq(ToSet(q1) \cup ToSet(last))
        /\ ToSet(q2) = ToSet(q1) \cup ToSet(last)
    BY <1>8, <2>1, ConcatSeq, ConcatSet
  <2> HIDE DEF q2
  <2>3. changes = q2
    BY DEF changes, q1, q2
  <2> QED
    BY <2>1, <2>2, <2>3
<1>10. ToSet(changes) = {Change(e.id, s.fs[e.id], e.original) : e \in S}
                          \cup {Change(BackupPath(e.id), e.original, Null) :
                                  e \in {d \in S : d.original # Null}}
                          \cup {Change("manifest", s.fs["manifest"], Null)}
  BY <1>6, <1>7, <1>8, <1>9
<1> QED
  BY <1>5, <1>9, <1>10 DEF S

-----------------------------------------------------------------------------
(* Plans and the user's bytes *)

\* planFirstActivation: a block is merged into the bytes that are there, and
\* the manifest remembers them.
LEMMA FirstActivationOK ==
  ASSUME NEW s, NEW o, \A p \in Shared : s.fs[p] \in SharedContent
  PROVE  PlanOK(PlanFirstActivation(s, o).changes)
<1>1. CASE ~PlanFirstActivation(s, o).ok
  <2>1. PlanFirstActivation(s, o) = Refused
    BY <1>1 DEF PlanFirstActivation, Planned
  <2> QED
    BY <2>1, PlanNone DEF Refused
<1>2. CASE PlanFirstActivation(s, o).ok
  <2> DEFINE q == PlanFirstActivation(s, o).changes
             b == s.build
  <2>1. PICK es :
          /\ ToSet(es) = OwnedEntries(b, o) \cup SharedEntries(s.fs)
          /\ es \in Seq(ToSet(es))
          /\ ToSet(q) = FirstChanges(s.fs, b, o, Manifest(Configuration(b, o), es))
          /\ q \in Seq(ToSet(q))
          /\ \A p \in Touched(s.fs) : Kind(s.fs[p]) # "merged"
    BY <1>2, FirstShape
  <2> DEFINE m == Manifest(Configuration(b, o), es)
  <2>2. \A id \in ToSet(OwnedIds(b)) : id \notin Shared \cup {"manifest"}
    BY OwnedPaths, SeqOfItsOwn
  <2>3. \A p \in Touched(s.fs) : p \in Shared /\ s.fs[p] \in Plain
    BY <2>1, PlainOrMerged, SharedPaths DEF Touched, Existing
  <2> HIDE DEF q, b
  <2>4. ManifestOK(m)
    <3>1. m.entries = es
      BY DEF Manifest
    <3>2. \A e \in OwnedEntries(b, o) : EntryOK(e)
      BY <2>2 DEF OwnedEntries, Entry, EntryOK
    <3>3. \A e \in SharedEntries(s.fs) : EntryOK(e)
      BY <2>3 DEF SharedEntries, Entry, EntryOK
    <3> HIDE DEF m
    <3> QED
      BY <2>1, <3>1, <3>2, <3>3 DEF ManifestOK
  <2> HIDE DEF m
  <2>5. ASSUME NEW c \in ToSet(q) PROVE ChangeOK(c)
    <3>1. CASE \E p \in Existing(s.fs) : c = Change(BackupPath(p), Null, s.fs[p])
      BY <3>1, OtherChange, SharedPaths DEF BackupPath
    <3>2. CASE \E id \in ToSet(OwnedIds(b)) : c = Change(id, Null, OwnedContent(id, b, o))
      BY <2>2, <3>2, OtherChange
    <3>3. CASE \E p \in Touched(s.fs) : c = Change(p, s.fs[p], Merged(s.fs[p]))
      BY <2>3, <3>3, OwnPart, SharedPaths DEF ChangeOK, SharedContent, Change
    <3>4. CASE c = Change("manifest", Null, m)
      BY <2>4, <3>4, NoManifest, SharedPaths DEF ChangeOK, Change
    <3> QED
      BY <2>1, <3>1, <3>2, <3>3, <3>4 DEF FirstChanges, m
  <2> QED
    BY <2>1, <2>5 DEF PlanOK, q
<1> QED
  BY <1>1, <1>2

\* planInstalled: a repair only writes owned files.
LEMMA InstalledOK ==
  ASSUME NEW s, NEW op, NEW m, NEW o, ManifestOK(m), Kind(m) = "manifest"
  PROVE  PlanOK(PlanInstalled(s, op, m, o).changes)
<1>1. CASE ~PlanInstalled(s, op, m, o).ok
  <2>1. PlanInstalled(s, op, m, o) = Refused
    BY <1>1 DEF PlanInstalled, Planned
  <2> QED
    BY <2>1, PlanNone DEF Refused
<1>2. CASE PlanInstalled(s, op, m, o).ok
  <2> DEFINE q == PlanInstalled(s, op, m, o).changes
  <2>1. m.entries \in Seq(ToSet(m.entries)) /\ \A e \in ToSet(m.entries) : EntryOK(e)
    BY DEF ManifestOK
  <2>2. /\ ToSet(q) = Repairs(s.fs, m) /\ q \in Seq(ToSet(q))
        /\ \A e \in Drifted(s.fs, m) : e.ownership = "owned"
    BY <1>2, <2>1, InstalledShape
  <2> HIDE DEF q
  <2>3. ASSUME NEW c \in ToSet(q) PROVE ChangeOK(c)
    <3>1. PICK e \in Drifted(s.fs, m) : c = Change(e.id, s.fs[e.id], e.installed)
      BY <2>2 DEF Repairs
    <3>2. e.id \notin Shared \cup {"manifest"}
      BY <2>1, <2>2 DEF Drifted, EntryOK
    <3> QED
      BY <3>1, <3>2, OtherChange
  <2> QED
    BY <2>2, <2>3 DEF PlanOK, q
<1> QED
  BY <1>1, <1>2

\* planDeactivation: a shared file that is as installed gets back the bytes
\* around which it was installed.
LEMMA DeactivationOK ==
  ASSUME NEW s, NEW m, m = s.fs["manifest"], ManifestOK(m), Kind(m) = "manifest"
  PROVE  PlanOK(PlanDeactivation(s, m).changes)
<1>1. CASE ~PlanDeactivation(s, m).ok
  <2>1. PlanDeactivation(s, m) = Refused
    BY <1>1 DEF PlanDeactivation, Planned
  <2> QED
    BY <2>1, PlanNone DEF Refused
<1>2. CASE PlanDeactivation(s, m).ok
  <2> DEFINE q == PlanDeactivation(s, m).changes
             S == ToSet(m.entries)
  <2>1. m.entries \in Seq(ToSet(m.entries)) /\ \A e \in S : EntryOK(e)
    BY DEF ManifestOK
  <2>2. /\ ToSet(q) = {Change(e.id, s.fs[e.id], e.original) : e \in S}
                        \cup {Change(BackupPath(e.id), e.original, Null) :
                                e \in {d \in S : d.original # Null}}
                        \cup {Change("manifest", s.fs["manifest"], Null)}
        /\ q \in Seq(ToSet(q))
        /\ \A e \in S : s.fs[e.id] = e.installed
    BY <1>2, <2>1, DeactivationShape
  <2> HIDE DEF q, S
  <2>3. ASSUME NEW c \in ToSet(q) PROVE ChangeOK(c)
    <3>1. ASSUME NEW e \in S, c = Change(e.id, s.fs[e.id], e.original) PROVE ChangeOK(c)
      <4>1. EntryOK(e) /\ s.fs[e.id] = e.installed
        BY <2>1, <2>2
      <4>2. CASE e.id \notin Shared \cup {"manifest"}
        BY <3>1, <4>2, OtherChange
      <4>3. CASE e.id \in Shared /\ e.original \in Plain /\ e.installed = Merged(e.original)
        BY <3>1, <4>1, <4>3, OwnPart, SharedPaths DEF ChangeOK, Change, SharedContent
      <4> QED
        BY <4>1, <4>2, <4>3 DEF EntryOK
    <3>2. ASSUME NEW e \in S, c = Change(BackupPath(e.id), e.original, Null)
          PROVE  ChangeOK(c)
      BY <3>2, OtherChange, SharedPaths DEF BackupPath
    <3>3. CASE c = Change("manifest", s.fs["manifest"], Null)
      BY <3>3, NoManifest, SharedPaths DEF ChangeOK, Change
    <3> QED
      BY <2>2, <3>1, <3>2, <3>3
  <2> QED
    BY <2>2, <2>3 DEF PlanOK, q
<1> QED
  BY <1>1, <1>2

LEMMA FilePlanOK ==
  ASSUME NEW s, NEW op, NEW original, \A p \in Shared : s.fs[p] \in SharedContent,
         ManifestOK(s.fs["manifest"])
  PROVE  PlanOK(FilePlan(s, op, original).changes)
<1> DEFINE m == s.fs["manifest"]
<1>1. CASE m = Null /\ op = "activate"
  <2>1. FilePlan(s, op, original) = PlanFirstActivation(s, original)
    BY <1>1 DEF FilePlan
  <2> QED
    BY <2>1, FirstActivationOK
<1>2. CASE m = Null /\ op # "activate"
  <2>1. FilePlan(s, op, original) = Planned(<<>>)
    BY <1>2 DEF FilePlan
  <2> QED
    BY <2>1, PlanNone DEF Planned
<1>3. CASE m # Null
  <2>1. CASE Kind(m) # "manifest"
    <3>1. FilePlan(s, op, original) = Refused
      BY <1>3, <2>1 DEF FilePlan
    <3> QED
      BY <3>1, PlanNone DEF Refused
  <2>2. CASE Kind(m) = "manifest"
    <3>1. \/ FilePlan(s, op, original) = Refused
          \/ FilePlan(s, op, original) = PlanDeactivation(s, m)
          \/ FilePlan(s, op, original) = PlanInstalled(s, op, m, original)
      BY <1>3, <2>2 DEF FilePlan
    <3>2. PlanOK(PlanDeactivation(s, m).changes)
      BY <2>2, DeactivationOK
    <3>3. PlanOK(PlanInstalled(s, op, m, original).changes)
      BY <2>2, InstalledOK
    <3>4. PlanOK(Refused.changes)
      BY PlanNone DEF Refused
    <3> QED
      BY <3>1, <3>2, <3>3, <3>4
  <2> QED
    BY <2>1, <2>2
<1> QED
  BY <1>1, <1>2, <1>3

\* ProtectionInstallationPlanner.plan
LEMMA ProtectionPlanOK ==
  ASSUME NEW s, NEW op, \A p \in Shared : s.fs[p] \in SharedContent,
         ManifestOK(s.fs["manifest"])
  PROVE  PlanOK(ProtectionPlan(s, op).files)
<1> DEFINE installed == s.fs["manifest"] # Null
           originals == IF installed THEN GitOriginals(s) ELSE {s.git}
           original == IF originals = {} THEN Null ELSE CHOOSE o \in originals : TRUE
<1> HIDE DEF original, originals
<1>1. PlanOK(FilePlan(s, op, original).changes)
  BY FilePlanOK
<1>2. \/ ProtectionPlan(s, op).files = <<>>
      \/ ProtectionPlan(s, op).files = FilePlan(s, op, original).changes
  BY DEF ProtectionPlan, original, originals
<1> QED
  BY <1>1, <1>2, PlanNone
-----------------------------------------------------------------------------
(* Commands *)

LEMMA IdleOK ==
  ASSUME NEW op, NEW result
  PROVE  Fields(Idle(op, result)) /\ Idle(op, result).files = <<>>
  BY DEF Fields, Idle

LEMMA IdleCommand ==
  ASSUME NEW op, NEW result, cmd' = Idle(op, result)
  PROVE  CommandOK'
  BY IdleOK, PlanNone DEF CommandOK

\* A command that goes on keeps its plan.
LEMMA GoesOn ==
  ASSUME CommandOK, NEW stage, NEW at, NEW before, NEW degraded, NEW harmed,
         \/ cmd' = [cmd EXCEPT !.stage = stage]
         \/ cmd' = [cmd EXCEPT !.stage = stage, !.at = at]
         \/ cmd' = [cmd EXCEPT !.stage = stage, !.before = before]
         \/ cmd' = [cmd EXCEPT !.stage = stage, !.at = at, !.degraded = degraded]
         \/ cmd' = [cmd EXCEPT !.harmed = harmed]
         \/ cmd' = cmd
  PROVE  CommandOK'
<1>1. Fields(cmd) /\ PlanOK(cmd.files)
  BY DEF CommandOK
<1>2. Fields(cmd') /\ cmd'.files = cmd.files
  BY <1>1 DEF Fields
<1> QED
  BY <1>1, <1>2 DEF CommandOK

\* Steps that leave the files alone.
LEMMA FilesKept ==
  ASSUME IInv, CommandOK', UNCHANGED <<fs, fileVars, user>>, contested \subseteq contested'
  PROVE  IInv'
<1>1. UNCHANGED <<fs, plan, pc, cursor, attempted, user>>
  BY DEF fileVars
<1>2. FilesOK' /\ PlanOK(plan)' /\ CursorOK'
  BY <1>1 DEF IInv, FilesOK, CursorOK
<1>3. ClaimOK' /\ UserBytesSurvive'
  BY <1>1 DEF IInv, ClaimOK, UserBytesSurvive
<1> QED
  BY <1>2, <1>3 DEF IInv

LEMMA CommandSteps ==
  ASSUME IInv,
         \/ \E op \in Operations : Plan(op)
         \/ Confirm \/ Decline \/ Undo
  PROVE  IInv'
<1> USE DEF historyVars
<1>1. UNCHANGED <<fs, fileVars, user, contested>>
  BY DEF Plan, Confirm, Decline, Undo
<1>2. \A op : PlanOK(ProtectionPlan(Snapshot, op).files)
  BY ProtectionPlanOK DEF IInv, FilesOK, Snapshot
<1>3. CASE \E op \in Operations : Plan(op)
  <2> DEFINE Found(p, op) == [Idle(op, "none") EXCEPT !.stage = "confirm",
                                  !.installed = p.installed, !.files = p.files,
                                  !.external = p.external]
  <2>1. PICK op \in Operations : Plan(op)
    BY <1>3
  <2> DEFINE p == ProtectionPlan(Snapshot, op)
  <2>2. \/ cmd' = Idle(op, "refused") \/ cmd' = Idle(op, "nothing")
        \/ cmd' = Found(p, op)
    BY <2>1 DEF Plan
  <2> HIDE DEF p
  <2>3. ASSUME cmd' = Found(p, op) PROVE CommandOK'
    <3>1. Fields(cmd') /\ cmd'.files = p.files
      BY <2>3 DEF Fields, Idle
    <3> QED
      BY <3>1, <1>2 DEF CommandOK, p
  <2>4. CommandOK'
    BY <2>2, <2>3, IdleCommand
  <2> QED
    BY <1>1, <2>4, FilesKept
<1>4. CASE Confirm
  <2>1. CommandOK'
    BY <1>4, GoesOn DEF Confirm, IInv
  <2> QED
    BY <1>1, <2>1, FilesKept
<1>5. CASE Decline
  <2>1. CommandOK'
    BY <1>5, IdleCommand DEF Decline
  <2> QED
    BY <1>1, <2>1, FilesKept
<1>6. CASE Undo
  <2> DEFINE p == ProtectionPlan(Snapshot, "deactivate")
  <2>1. \/ cmd' = [cmd EXCEPT !.stage = "verify", !.op = "deactivate", !.undo = TRUE,
                               !.at = 0, !.files = p.files, !.external = p.external]
        \/ cmd' = [cmd EXCEPT !.stage = "restoreConfig"]
    BY <1>6 DEF Undo
  <2> HIDE DEF p
  <2>2. ASSUME cmd' = [cmd EXCEPT !.stage = "verify", !.op = "deactivate", !.undo = TRUE,
                               !.at = 0, !.files = p.files, !.external = p.external]
        PROVE  CommandOK'
    <3>1. Fields(cmd)
      BY DEF IInv, CommandOK
    <3>2. Fields(cmd') /\ cmd'.files = p.files
      BY <2>2, <3>1 DEF Fields
    <3> QED
      BY <3>2, <1>2 DEF CommandOK, p
  <2>3. CommandOK'
    BY <2>1, <2>2, GoesOn DEF IInv
  <2> QED
    BY <1>1, <2>3, FilesKept
<1> QED
  BY <1>3, <1>4, <1>5, <1>6

LEMMA ExecutorSteps ==
  ASSUME IInv,
         \/ Verify \/ FilesDone \/ FilesFailed
         \/ VerifyTransition \/ ApplyGit \/ ApplyService \/ RestoreQuietly \/ ExternalDone
         \/ RollbackExternal \/ RolledBack
  PROVE  IInv'
<1> USE DEF historyVars
<1>1. UNCHANGED <<fs, fileVars, user, contested>>
  BY DEF Verify, FilesDone, FilesFailed, VerifyTransition, ApplyGit, ApplyService, RestoreQuietly,
         ExternalDone, RollbackExternal, RolledBack, Throw
<1>2. \/ \E op, result : cmd' = Idle(op, result)
      \/ \E stage : cmd' = [cmd EXCEPT !.stage = stage]
      \/ \E stage, at : cmd' = [cmd EXCEPT !.stage = stage, !.at = at]
      \/ \E stage, at, degraded :
             cmd' = [cmd EXCEPT !.stage = stage, !.at = at, !.degraded = degraded]
  <2> USE DEF Goto, GotoAt, Return, Throw
  <2>1. CASE Verify
    BY <2>1 DEF Verify
  <2>2. CASE FilesDone \/ FilesFailed
    BY <2>2 DEF FilesDone, FilesFailed
  <2>3. CASE VerifyTransition \/ ApplyGit
    BY <2>3 DEF VerifyTransition, ApplyGit
  <2>4. CASE ApplyService
    BY <2>4 DEF ApplyService
  <2>5. CASE RestoreQuietly
    BY <2>5 DEF RestoreQuietly
  <2>6. CASE ExternalDone
    BY <2>6 DEF ExternalDone
  <2>7. CASE RollbackExternal \/ RolledBack
    BY <2>7 DEF RollbackExternal, RolledBack
  <2> QED
    BY <2>1, <2>2, <2>3, <2>4, <2>5, <2>6, <2>7
<1>3. CommandOK'
  BY <1>2, IdleCommand, GoesOn DEF IInv
<1> QED
  BY <1>1, <1>3, FilesKept
-----------------------------------------------------------------------------
(* The file transaction *)

LEMMA ExecuteSteps ==
  ASSUME IInv, BeginFiles \/ InvertFiles
  PROVE  IInv'
<1> USE DEF historyVars
<1>1. /\ UNCHANGED <<fs, user, contested>>
      /\ pc' = "validate" /\ cursor' = 1 /\ attempted' = 0
      /\ plan' = cmd.files \/ plan' = Invert(cmd.files)
      /\ \E stage : cmd' = [cmd EXCEPT !.stage = stage]
  BY DEF BeginFiles, InvertFiles, Files!Execute, Goto
<1>2. CommandOK'
  BY <1>1, GoesOn DEF IInv
<1>3. PlanOK(plan)'
  BY <1>1, PlanInverse DEF IInv, CommandOK
<1>4. CursorOK'
  <2>1. Len(plan') \in Nat
    BY <1>3, SeqOfItsOwn DEF PlanOK
  <2> QED
    BY <1>1, <2>1 DEF CursorOK
<1>5. FilesOK' /\ UserBytesSurvive' /\ ClaimOK'
  BY <1>1 DEF IInv, FilesOK, UserBytesSurvive, ClaimOK
<1> QED
  BY <1>2, <1>3, <1>4, <1>5 DEF IInv

\* Writing a shared file's old or new content leaves the user's part there.
LEMMA WriteOK ==
  ASSUME IInv, pc \in {"apply", "rollback"}, cursor \in 1..attempted,
         \/ fs' = [fs EXCEPT ![plan[cursor].path] = plan[cursor].before]
         \/ fs' = [fs EXCEPT ![plan[cursor].path] = plan[cursor].after],
         user' = user, contested' = contested
  PROVE  FilesOK' /\ UserBytesSurvive'
<1> DEFINE c == plan[cursor]
<1>1. ChangeOK(c)
  <2>1. cursor \in 1..Len(plan)
    BY SeqOfItsOwn DEF IInv, CursorOK, PlanOK
  <2> QED
    BY <2>1, SeqOfItsOwn DEF IInv, PlanOK
<1>2. c.path \in Shared \ contested => Own(c.before) = user[c.path]
  BY DEF IInv, ClaimOK
<1> HIDE DEF c
<1>3. PICK v \in {c.before, c.after} : fs' = [fs EXCEPT ![c.path] = v]
  BY DEF c
<1>4. /\ DOMAIN fs' = Paths
      /\ \A p \in Paths : fs'[p] = IF p = c.path THEN v ELSE fs[p]
  BY <1>3 DEF IInv, FilesOK
<1>5. Shared \subseteq Paths /\ "manifest" \in Paths
  BY SharedPaths DEF Paths
<1>6. FilesOK'
  BY <1>1, <1>3, <1>4, <1>5 DEF IInv, FilesOK, ChangeOK
<1>7. UserBytesSurvive'
  BY <1>1, <1>2, <1>3, <1>4, <1>5 DEF IInv, UserBytesSurvive, ChangeOK, Shared
<1> QED
  BY <1>6, <1>7

LEMMA FileSteps ==
  ASSUME IInv, FileStep
  PROVE  IInv'
<1>1. UNCHANGED <<cmd, user, contested>> /\ Files!Step
  BY DEF FileStep
<1>2. plan' = plan
  BY <1>1 DEF Files!Step, Files!Validate, Files!BeginApplying, Files!CheckAgain, Files!Apply,
              Files!Complete, Files!Restore, Files!Throw
<1>3. CommandOK' /\ PlanOK(plan)'
  BY <1>1, <1>2 DEF IInv, CommandOK
<1>4. Len(plan) \in Nat /\ DOMAIN plan = 1..Len(plan)
  BY SeqOfItsOwn DEF IInv, PlanOK
<1>5. /\ cursor \in Nat /\ attempted \in 0..Len(plan)
      /\ pc = "validate" => attempted = 0 /\ cursor >= 1
      /\ pc = "check" => cursor = attempted + 1
      /\ pc = "apply" => cursor \in 1..Len(plan) /\ attempted = cursor
      /\ pc = "rollback" => cursor <= attempted
  BY DEF IInv, CursorOK
<1>6. CASE Files!Validate \/ Files!BeginApplying \/ Files!Complete \/ Files!Throw
  <2>1. UNCHANGED <<fs, attempted>>
    BY <1>6 DEF Files!Validate, Files!BeginApplying, Files!Complete, Files!Throw
  <2>2. /\ cursor' \in Nat
        /\ pc' \in {"validate", "failed", "check", "done"}
        /\ pc' = "validate" => attempted = 0 /\ cursor' >= 1
        /\ pc' = "check" => attempted = 0 /\ cursor' = 1
    BY <1>4, <1>5, <1>6
       DEF Files!Validate, Files!BeginApplying, Files!Complete, Files!Throw
  <2>3. CursorOK'
    BY <1>2, <1>5, <2>1, <2>2 DEF CursorOK
  <2>4. FilesOK' /\ UserBytesSurvive'
    BY <1>1, <2>1 DEF IInv, FilesOK, UserBytesSurvive
  <2>5. ClaimOK'
    BY <2>1, <2>2 DEF ClaimOK
  <2> QED
    BY <1>3, <2>3, <2>4, <2>5 DEF IInv
<1>7. CASE Files!CheckAgain
  <2>1. UNCHANGED fs /\ pc = "check" /\ cursor \in 1..Len(plan)
    BY <1>4, <1>5, <1>7 DEF Files!CheckAgain
  <2>2. \/ /\ fs[plan[cursor].path] = plan[cursor].before
           /\ attempted' = cursor /\ pc' = "apply" /\ cursor' = cursor
        \/ pc' = "rollback" /\ cursor' = attempted /\ attempted' = attempted
    BY <1>7 DEF Files!CheckAgain
  <2>3. CursorOK'
    BY <1>2, <1>4, <1>5, <2>1, <2>2 DEF CursorOK
  <2>4. FilesOK' /\ UserBytesSurvive'
    BY <1>1, <2>1 DEF IInv, FilesOK, UserBytesSurvive
  <2>5. ASSUME NEW k \in 1..attempted', plan[k].path \in Shared \ contested
        PROVE  Own(plan[k].before) = user[plan[k].path]
    <3>1. CASE k \in 1..attempted
      BY <2>1, <2>5, <3>1 DEF IInv, ClaimOK
    <3>2. CASE k \notin 1..attempted
      <4>1. fs[plan[k].path] = plan[k].before
        BY <1>5, <2>1, <2>2, <2>5, <3>2
      <4> QED
        BY <2>5, <4>1 DEF IInv, UserBytesSurvive, Shared
    <3> QED
      BY <3>1, <3>2
  <2>6. ClaimOK'
    BY <1>1, <1>2, <2>5 DEF ClaimOK
  <2> QED
    BY <1>3, <2>3, <2>4, <2>6 DEF IInv
<1>8. CASE Files!Apply
  <2>1. /\ pc = "apply" /\ cursor \in 1..attempted /\ attempted' = attempted
        /\ \/ fs' = fs
           \/ fs' = [fs EXCEPT ![plan[cursor].path] = plan[cursor].after]
        /\ \/ pc' = "check" /\ cursor' = cursor + 1
           \/ pc' = "rollback" /\ cursor' = attempted
    BY <1>5, <1>8 DEF Files!Apply
  <2>2. CursorOK'
    BY <1>2, <1>4, <1>5, <2>1 DEF CursorOK
  <2>3. FilesOK' /\ UserBytesSurvive'
    <3>1. CASE fs' = fs
      BY <1>1, <3>1 DEF IInv, FilesOK, UserBytesSurvive
    <3>2. CASE fs' = [fs EXCEPT ![plan[cursor].path] = plan[cursor].after]
      BY <1>1, <2>1, <3>2, WriteOK
    <3> QED
      BY <2>1, <3>1, <3>2
  <2>4. ClaimOK'
    BY <1>1, <1>2, <2>1 DEF IInv, ClaimOK
  <2> QED
    BY <1>3, <2>2, <2>3, <2>4 DEF IInv
<1>9. CASE Files!Restore
  <2>1. /\ pc = "rollback" /\ cursor \in 1..attempted /\ cursor' = cursor - 1
        /\ attempted' = attempted /\ pc' = pc
        /\ \/ fs' = fs
           \/ fs' = [fs EXCEPT ![plan[cursor].path] = plan[cursor].before]
    BY <1>5, <1>9 DEF Files!Restore
  <2>2. CursorOK'
    BY <1>2, <1>4, <1>5, <2>1 DEF CursorOK
  <2>3. FilesOK' /\ UserBytesSurvive'
    <3>1. CASE fs' = fs
      BY <1>1, <3>1 DEF IInv, FilesOK, UserBytesSurvive
    <3>2. CASE fs' = [fs EXCEPT ![plan[cursor].path] = plan[cursor].before]
      BY <1>1, <2>1, <3>2, WriteOK
    <3> QED
      BY <2>1, <3>1, <3>2
  <2>4. ClaimOK'
    BY <1>1, <1>2, <2>1 DEF IInv, ClaimOK
  <2> QED
    BY <1>3, <2>2, <2>3, <2>4 DEF IInv
<1> QED
  BY <1>1, <1>6, <1>7, <1>8, <1>9 DEF Files!Step

\* finishActivation, the restore of its files and --purge write neither a
\* shared file nor a manifest.
LEMMA ControlPlaneSteps ==
  ASSUME IInv, Finish \/ RestoreControlPlane \/ Purge
  PROVE  IInv'
<1> USE DEF historyVars, fileVars
<1>1. UNCHANGED <<plan, pc, cursor, attempted, user, contested>>
  BY DEF Finish, RestoreControlPlane, Purge
<1>2. /\ DOMAIN fs' = Paths
      /\ \A p \in Shared : fs'[p] = fs[p]
      /\ fs'["manifest"] \in {fs["manifest"], Null}
  <2>1. Shared \cap StateDir = {} /\ Shared \subseteq Paths /\ "manifest" \in Paths
    BY SharedPaths DEF StateDir, Paths
  <2>2. DOMAIN fs = Paths
    BY DEF IInv, FilesOK
  <2>3. CASE Purge
    BY <2>1, <2>2, <2>3 DEF Purge
  <2>4. CASE Finish \/ RestoreControlPlane
    <3>1. fs' = fs \/ \E v : \E p \in {"config", "baseline"} : fs' = [fs EXCEPT ![p] = v]
      BY <2>4 DEF Finish, RestoreControlPlane
    <3> QED
      BY <2>1, <2>2, <3>1, SharedPaths
  <2> QED
    BY <2>3, <2>4
<1>3. CommandOK'
  <2>1. \/ \E op, result : cmd' = Idle(op, result)
        \/ \E stage : cmd' = [cmd EXCEPT !.stage = stage]
    BY DEF Finish, RestoreControlPlane, Purge, Goto
  <2> QED
    BY <2>1, IdleCommand, GoesOn DEF IInv
<1>4. FilesOK'
  BY <1>1, <1>2, NoManifest DEF IInv, FilesOK
<1>5. UserBytesSurvive'
  BY <1>1, <1>2 DEF IInv, UserBytesSurvive, Shared
<1>6. CursorOK' /\ ClaimOK' /\ PlanOK(plan)'
  BY <1>1 DEF IInv, CursorOK, ClaimOK
<1> QED
  BY <1>3, <1>4, <1>5, <1>6 DEF IInv
-----------------------------------------------------------------------------
(* The environment *)

LEMMA HarmOK ==
  ASSUME IInv, NEW x, Harm(x)
  PROVE  CommandOK'
<1>1. cmd' = cmd \/ cmd' = [cmd EXCEPT !.harmed = cmd.harmed \cup {x}]
  BY DEF Harm
<1> QED
  BY <1>1, GoesOn DEF IInv

LEMMA WriteFrame ==
  ASSUME IInv, NEW p \in Paths, NEW content, Write(p, content)
  PROVE  /\ fs' = [fs EXCEPT ![p] = content]
         /\ UNCHANGED <<plan, pc, cursor, attempted>>
  BY DEF Write, Files!Edit, fileVars

\* The user's own edit, with or without the managed block.
LEMMA EditStep ==
  ASSUME IInv, NEW p \in Shared, NEW content \in UserContents, EditShared(p, content)
  PROVE  IInv'
<1>1. p \in Paths /\ Shared \subseteq Paths /\ "manifest" \in Paths \ Shared
  BY SharedPaths DEF Paths
<1>2. PICK v \in {content, Merged(content)} : Write(p, v)
  BY DEF EditShared
<1>3. fs' = [fs EXCEPT ![p] = v] /\ UNCHANGED <<plan, pc, cursor, attempted>>
  BY <1>1, <1>2, WriteFrame
<1>4. /\ user' = [user EXCEPT ![p] = content]
      /\ contested \subseteq contested'
      /\ Files!Running /\ Files!Claimed(p) => p \in contested'
      /\ Harm(p)
  BY DEF EditShared
<1>5. /\ DOMAIN fs' = Paths /\ DOMAIN user' = Shared
      /\ \A q \in Paths : fs'[q] = IF q = p THEN v ELSE fs[q]
      /\ \A q \in Shared : user'[q] = IF q = p THEN content ELSE user[q]
  BY <1>3, <1>4 DEF IInv, FilesOK
<1>6. Own(v) = content /\ v \in SharedContent /\ content \in Plain
  BY OwnPart DEF SharedContent, Plain
<1>7. FilesOK'
  BY <1>1, <1>5, <1>6 DEF IInv, FilesOK
<1>8. UserBytesSurvive'
  BY <1>1, <1>4, <1>5, <1>6 DEF IInv, UserBytesSurvive, Shared
<1>9. ClaimOK'
  <2>1. ASSUME pc \in {"check", "apply", "rollback"}, NEW k \in 1..attempted,
               plan[k].path \in Shared \ contested'
        PROVE  Own(plan[k].before) = user'[plan[k].path]
    <3>1. plan[k].path # p
      BY <1>4, <2>1 DEF Files!Running, Files!Claimed
    <3> QED
      BY <1>4, <1>5, <2>1, <3>1 DEF IInv, ClaimOK
  <2> QED
    BY <1>3, <2>1 DEF ClaimOK
<1>10. CursorOK' /\ PlanOK(plan)'
  BY <1>3 DEF IInv, CursorOK
<1>11. CommandOK'
  BY <1>4, HarmOK
<1> QED
  BY <1>7, <1>8, <1>9, <1>10, <1>11 DEF IInv

LEMMA DamageStep ==
  ASSUME IInv, NEW p \in Fragile, NEW content \in UserContents \cup {Null}, Damage(p, content)
  PROVE  IInv'
<1>1. /\ p \in Paths /\ p \notin Shared /\ Shared \subseteq Paths
      /\ "manifest" \in Paths
  BY FragileAssumption, SharedPaths DEF Paths, Artifacts, Backups
<1>2. UNCHANGED <<user, contested>> /\ Harm(p) /\ Write(p, content)
  BY DEF Damage
<1>3. fs' = [fs EXCEPT ![p] = content] /\ UNCHANGED <<plan, pc, cursor, attempted>>
  BY <1>1, <1>2, WriteFrame
<1>4. /\ DOMAIN fs' = Paths
      /\ \A q \in Paths : fs'[q] = IF q = p THEN content ELSE fs[q]
  BY <1>3 DEF IInv, FilesOK
<1>5. FilesOK'
  BY <1>1, <1>2, <1>4, NoManifest DEF IInv, FilesOK, Plain
<1>6. UserBytesSurvive'
  BY <1>1, <1>2, <1>4 DEF IInv, UserBytesSurvive, Shared
<1>7. ClaimOK' /\ CursorOK' /\ PlanOK(plan)'
  BY <1>2, <1>3 DEF IInv, ClaimOK, CursorOK
<1>8. CommandOK'
  BY <1>2, HarmOK
<1> QED
  BY <1>5, <1>6, <1>7, <1>8 DEF IInv

LEMMA OutsideSteps ==
  ASSUME IInv,
         \/ \E h \in HooksPaths \cup {Null} : SetHooksPath(h)
         \/ ServiceStops \/ Upgrade
  PROVE  IInv'
<1> USE DEF historyVars
<1>1. UNCHANGED <<fs, fileVars, user>> /\ contested \subseteq contested'
  BY DEF SetHooksPath, ServiceStops, Upgrade
<1>2. CommandOK'
  BY HarmOK, IdleCommand DEF SetHooksPath, ServiceStops, Upgrade
<1> QED
  BY <1>1, <1>2, FilesKept

\* The resident announces its build or hands over to another: neither the
\* installation nor the command notices.
LEMMA DaemonFrame ==
  ASSUME Announce \/ HandOver
  PROVE  /\ UNCHANGED <<fs, fileVars, git, svc, build, historyVars>>
         /\ UNCHANGED cmd \/ Harm("watcher")
  BY DEF Announce, HandOver

LEMMA DaemonSteps ==
  ASSUME IInv, Announce \/ HandOver
  PROVE  IInv'
<1>1. UNCHANGED <<fs, fileVars, user, contested>> /\ (UNCHANGED cmd \/ Harm("watcher"))
  BY DaemonFrame DEF historyVars
<1>2. CommandOK'
  <2>1. CASE UNCHANGED cmd
    BY <2>1 DEF IInv, CommandOK
  <2> QED
    BY <1>1, <2>1, HarmOK
<1> QED
  BY <1>1, <1>2, FilesKept

\* The process dies: nothing is journalled, nothing is written.
LEMMA CrashStep ==
  ASSUME IInv, Crash
  PROVE  IInv'
<1> USE DEF fileVars
<1>1. /\ UNCHANGED <<fs, plan, cursor, attempted, user, contested>>
      /\ pc' \in {pc, "crashed"}
  BY DEF Crash, Files!Crash
<1>2. CommandOK'
  BY IdleCommand DEF Crash
<1>3. FilesOK' /\ UserBytesSurvive' /\ PlanOK(plan)'
  BY <1>1 DEF IInv, FilesOK, UserBytesSurvive
<1>4. CursorOK' /\ ClaimOK'
  BY <1>1 DEF IInv, CursorOK, ClaimOK
<1> QED
  BY <1>2, <1>3, <1>4 DEF IInv
-----------------------------------------------------------------------------
LEMMA InitIInv == Init => IInv
<1> SUFFICES ASSUME Init PROVE IInv
  OBVIOUS
<1>1. PICK s, q \in Originals :
        fs = [p \in Paths |-> CASE p = "settings" -> s [] p = "profile" -> q [] OTHER -> Null]
  BY DEF Init
<1>2. /\ DOMAIN fs = Paths /\ fs["manifest"] = Null
      /\ \A p \in Shared : fs[p] \in Plain
  BY <1>1, OriginalsAssumption, SharedPaths DEF Paths, Plain
<1>3. user = [p \in Shared |-> fs[p]]
  BY DEF Init, Shared
<1>4. FilesOK /\ UserBytesSurvive
  BY <1>2, <1>3, NoManifest, OwnPart DEF FilesOK, UserBytesSurvive, SharedContent, Shared
<1>5. CommandOK
  BY IdleOK, PlanNone DEF Init, CommandOK
<1>6. PlanOK(plan) /\ CursorOK /\ ClaimOK
  BY PlanNone DEF Init, CursorOK, ClaimOK
<1> QED
  BY <1>4, <1>5, <1>6 DEF IInv

LEMMA NextIInv == IInv /\ [Next]_vars => IInv'
<1> SUFFICES ASSUME IInv, [Next]_vars PROVE IInv'
  OBVIOUS
<1>1. CASE (\E op \in Operations : Plan(op)) \/ Confirm \/ Decline
  BY <1>1, CommandSteps
<1>2. CASE Step
  BY <1>2, CommandSteps, ExecutorSteps, ExecuteSteps, FileSteps, ControlPlaneSteps DEF Step
<1>3. CASE Purge
  BY <1>3, ControlPlaneSteps
<1>4. ASSUME NEW p \in ToSet(SharedIds), NEW c \in UserContents, EditShared(p, c) PROVE IInv'
  BY <1>4, EditStep DEF Shared
<1>5. CASE (\E h \in HooksPaths \cup {Null} : SetHooksPath(h)) \/ ServiceStops \/ Upgrade
  BY <1>5, OutsideSteps
<1>6. ASSUME NEW p \in Fragile, NEW c \in UserContents \cup {Null}, Damage(p, c) PROVE IInv'
  BY <1>6, DamageStep
<1>7. CASE Crash
  BY <1>7, CrashStep
<1>8. CASE UNCHANGED vars
  <2>1. UNCHANGED <<fs, fileVars, user, contested, cmd>>
    BY <1>8 DEF vars, historyVars
  <2>2. CommandOK'
    BY <2>1 DEF IInv, CommandOK
  <2> QED
    BY <2>1, <2>2, FilesKept
<1>9. CASE Announce \/ HandOver
  BY <1>9, DaemonSteps
<1> QED
  BY <1>1, <1>2, <1>3, <1>4, <1>5, <1>6, <1>7, <1>8, <1>9 DEF Next

\* activate, repair and deactivate, their rollbacks and --purge, whatever I/O
\* call fails and wherever the process dies: the bytes the user last put into
\* a shared file are in that file.  Only an edit in the window between the
\* executor's last check and the end of its transaction is excused.
THEOREM TheUsersBytesSurvive == Spec => []UserBytesSurvive
<1>1. IInv => UserBytesSurvive
  BY DEF IInv
<1> QED
  BY <1>1, InitIInv, NextIInv, PTL DEF Spec
-----------------------------------------------------------------------------
(* What Git and the service manager rely on *)

\* The files that something else relies on, and what it is: Git runs the hooks
\* and needs the record of the hooksPath before it, the service manager reads the
\* descriptor, and deactivation finds out from the manifest that either is set.
Targets == {"hook", "state", "desc", "gitRecord", "serviceRecord"}
File(x) == IF x \in {"gitRecord", "serviceRecord"} THEN "manifest" ELSE x
Via(x) == IF x \in {"desc", "serviceRecord"} THEN "service" ELSE "git"

LEMMA TargetFiles ==
  ASSUME NEW x \in Targets
  PROVE  /\ File(x) \in {"hook", "state", "desc", "manifest"}
         /\ File(x) \in Paths /\ File(x) \notin Shared
BY SharedPaths DEF Targets, File, Paths

\* With this value nothing relies on x.
Off(x, v) == IF Via(x) = "git" THEN v # "managed" ELSE v = "absent"

Original == HooksPaths \cup {Null}
Build == {1, 2}

StateOK(c) == Kind(c) = "state" => c.original \in Original

\* A manifest records every artifact of the build that wrote it.
Recorded(m) ==
  Kind(m) = "manifest" => \E b \in Build, o \in Original :
    /\ OwnedEntries(b, o) \subseteq ToSet(m.entries)
    /\ \A e \in ToSet(m.entries) : e \in OwnedEntries(b, o) \/ e.id \in Shared

CopyOK(c) ==
  /\ c.path \in {"state", "replica"} => StateOK(c.before) /\ StateOK(c.after)
  /\ c.path = "manifest" => Recorded(c.before) /\ Recorded(c.after)
Copies(q) == \A c \in ToSet(q) : CopyOK(c)

\* The plan makes or removes the file p.
Moves(q, p) == \E c \in ToSet(q) : c.path = p /\ (c.before = Null \/ c.after = Null)

LEMMA OwnedSet ==
  ASSUME NEW b \in Build
  PROVE  /\ {"init", "state", "replica", "hook", "desc"} \subseteq ToSet(OwnedIds(b))
         /\ ToSet(OwnedIds(b)) \subseteq {"init", "state", "replica", "hook", "desc", "extra"}
<1> DEFINE five == <<"init", "state", "replica", "hook", "desc">>
           rest == IF b > 1 THEN <<"extra">> ELSE <<>>
           own == {"init", "state", "replica", "hook", "desc", "extra"}
<1>1. five \in Seq(own) /\ ToSet(five) = {"init", "state", "replica", "hook", "desc"}
  <2>1. DOMAIN five = 1..5
    OBVIOUS
  <2>2. 1..5 = {1, 2, 3, 4, 5}
    OBVIOUS
  <2> QED
    BY <2>1, <2>2 DEF ToSet
<1>2. rest \in Seq(own) /\ ToSet(rest) \subseteq {"extra"}
  <2>1. <<"extra">> \in Seq(own) /\ ToSet(<<"extra">>) \subseteq {"extra"}
    BY DEF ToSet
  <2>2. <<>> \in Seq(own) /\ ToSet(<<>>) = {}
    BY DEF ToSet
  <2> QED
    BY <2>1, <2>2
<1>3. OwnedIds(b) = five \o rest
  BY DEF OwnedIds
<1> HIDE DEF five, rest
<1>4. ToSet(five \o rest) = ToSet(five) \cup ToSet(rest)
  <2> HIDE DEF own
  <2> QED BY <1>1, <1>2, ConcatSet
<1> QED
  BY <1>1, <1>2, <1>3, <1>4

LEMMA OwnedContents ==
  ASSUME NEW b \in Build, NEW o \in Original, NEW id \in ToSet(OwnedIds(b))
  PROVE  /\ OwnedContent(id, b, o) # Null
         /\ id \in {"state", "replica"} => StateOK(OwnedContent(id, b, o))
<1>1. id \in {"init", "state", "replica", "hook", "desc", "extra"}
  BY OwnedSet
<1>2. id \in Artifacts
  BY <1>1 DEF Artifacts
<1>3. OwnedContent(id, b, o) # Null
  BY <1>2, NullIsNoContent DEF Build, Original
<1>4. ASSUME id \in {"state", "replica"} PROVE StateOK(OwnedContent(id, b, o))
  BY <1>4 DEF OwnedContent, GitState, StateOK
<1> QED
  BY <1>3, <1>4

LEMMA NothingRecorded == StateOK(Null) /\ Recorded(Null)
  BY DEF StateOK, Recorded, Kind

LEMMA UserContentIsNoRecord ==
  ASSUME NEW c \in Plain
  PROVE  StateOK(c) /\ Recorded(c)
  BY OwnPart DEF StateOK, Recorded

\* The entries of a manifest that the planner wrote.
LEMMA RecordedEntries ==
  ASSUME NEW m, Kind(m) = "manifest", Recorded(m)
  PROVE  /\ \A x \in {"hook", "state", "desc"} : \E e \in ToSet(m.entries) : e.id = x
         /\ \A e \in ToSet(m.entries) :
              \/ e.id \in Shared
              \/ /\ e.installed # Null /\ e.original = Null
                 /\ e.id \in {"init", "state", "replica", "hook", "desc", "extra"}
                 /\ e.id \in {"state", "replica"} => StateOK(e.installed)
<1>1. PICK b \in Build, o \in Original :
        /\ OwnedEntries(b, o) \subseteq ToSet(m.entries)
        /\ \A e \in ToSet(m.entries) : e \in OwnedEntries(b, o) \/ e.id \in Shared
  BY DEF Recorded
<1>2. ASSUME NEW x \in {"hook", "state", "desc"} PROVE \E e \in ToSet(m.entries) : e.id = x
  <2>1. x \in ToSet(OwnedIds(b))
    BY OwnedSet
  <2> DEFINE e == Entry(x, "owned", OwnedContent(x, b, o), Null)
  <2>2. e \in OwnedEntries(b, o)
    BY <2>1 DEF OwnedEntries
  <2>3. e.id = x
    BY DEF Entry
  <2> QED
    BY <1>1, <2>2, <2>3
<1>3. ASSUME NEW e \in OwnedEntries(b, o)
      PROVE  /\ e.installed # Null /\ e.original = Null
             /\ e.id \in {"init", "state", "replica", "hook", "desc", "extra"}
             /\ e.id \in {"state", "replica"} => StateOK(e.installed)
  <2>1. PICK id \in ToSet(OwnedIds(b)) : e = Entry(id, "owned", OwnedContent(id, b, o), Null)
    BY DEF OwnedEntries
  <2>2. e.id = id /\ e.installed = OwnedContent(id, b, o) /\ e.original = Null
    BY <2>1 DEF Entry
  <2> QED
    BY <2>2, OwnedSet, OwnedContents
<1> QED
  BY <1>1, <1>2, <1>3

\* What the planners are given.
SnapshotOK(s) ==
  /\ s.build \in Build /\ s.git \in Original \cup {"managed"}
  /\ StateOK(s.fs["state"]) /\ StateOK(s.fs["replica"])
  /\ ManifestOK(s.fs["manifest"]) /\ Recorded(s.fs["manifest"])
  /\ \A p \in Shared : s.fs[p] \in SharedContent

\* A plan that installs leaves the target in place, and makes it exactly if it
\* is missing.
InstallsTarget(q, f, p) ==
  /\ \A c \in ToSet(q) : c.path = p => c.after # Null
  /\ Moves(q, p) <=> f[p] = Null

\* What a first activation records is a manifest, and not Null.
LEMMA FirstManifest ==
  ASSUME NEW f, NEW b \in Build, NEW o \in Original, NEW es,
         \A p \in Shared : f[p] \in SharedContent,
         \A p \in Touched(f) : Kind(f[p]) # "merged",
         ToSet(es) = OwnedEntries(b, o) \cup SharedEntries(f), es \in Seq(ToSet(es))
  PROVE  Manifest(Configuration(b, o), es) # Null
<1>1. ASSUME NEW e \in OwnedEntries(b, o) PROVE e \in Entries
  <2>1. PICK id \in ToSet(OwnedIds(b)) : e = Entry(id, "owned", OwnedContent(id, b, o), Null)
    BY DEF OwnedEntries
  <2>2. id \in Artifacts /\ id \in Paths
    BY OwnedSet DEF Artifacts, Paths
  <2> QED
    BY <2>1, <2>2 DEF Entry, Entries, Build, Original
<1>2. ASSUME NEW e \in SharedEntries(f) PROVE e \in Entries
  <2>1. PICK p \in Touched(f) : e = Entry(p, "shared", Merged(f[p]), f[p])
    BY DEF SharedEntries
  <2>2. p \in Shared /\ p \in Paths
    BY SharedPaths DEF Touched, Existing, Paths
  <2>3. f[p] \in Plain
    BY <2>2, PlainOrMerged
  <2> QED
    BY <2>1, <2>2, <2>3 DEF Entry, Entries, Plain
<1>3. es \in Seq(Entries)
  BY <1>1, <1>2
<1>4. Configuration(b, o) \in {1, 2} \X (HooksPaths \cup {Null})
  BY DEF Configuration, Build, Original
<1> QED
  BY <1>3, <1>4, NullIsNoManifest DEF Manifest

LEMMA FirstActivationFacts ==
  ASSUME NEW s, NEW o \in Original, SnapshotOK(s), s.fs["manifest"] = Null,
         PlanFirstActivation(s, o).ok
  PROVE  LET q == PlanFirstActivation(s, o).changes
         IN  /\ Copies(q)
             /\ \A x \in Targets : InstallsTarget(q, s.fs, File(x))
<1> DEFINE b == s.build
           q == PlanFirstActivation(s, o).changes
<1>1. \A id \in ToSet(OwnedIds(b)) : s.fs[id] = Null
  BY DEF PlanFirstActivation, Refused
<1>2. PICK es :
        /\ ToSet(es) = OwnedEntries(b, o) \cup SharedEntries(s.fs)
        /\ es \in Seq(ToSet(es))
        /\ ToSet(q) = FirstChanges(s.fs, b, o, Manifest(Configuration(b, o), es))
        /\ \A p \in Touched(s.fs) : Kind(s.fs[p]) # "merged"
  BY FirstShape
<1> DEFINE m == Manifest(Configuration(b, o), es)
<1>3. b \in Build
  BY DEF SnapshotOK
<1> HIDE DEF q, b
<1>4. Recorded(m)
  <2>1. m.entries = es
    BY DEF Manifest
  <2>2. \A e \in SharedEntries(s.fs) : e.id \in Shared
    BY SharedPaths DEF SharedEntries, Entry, Touched, Existing
  <2> HIDE DEF m
  <2> QED
    BY <1>2, <1>3, <2>1, <2>2 DEF Recorded
<1>8. m # Null
  BY <1>2, <1>3, FirstManifest DEF SnapshotOK
<1> HIDE DEF m
<1>5. ASSUME NEW c \in ToSet(q)
      PROVE  /\ CopyOK(c)
             /\ c.path \in {"hook", "state", "desc", "manifest"} =>
                  c.before = Null /\ c.after # Null
  <2>1. CASE \E p \in Existing(s.fs) : c = Change(BackupPath(p), Null, s.fs[p])
    BY <2>1 DEF Change, BackupPath, CopyOK
  <2>2. CASE \E id \in ToSet(OwnedIds(b)) : c = Change(id, Null, OwnedContent(id, b, o))
    <3>1. PICK id \in ToSet(OwnedIds(b)) : c = Change(id, Null, OwnedContent(id, b, o))
      BY <2>2
    <3>2. c.path = id /\ c.before = Null /\ c.after = OwnedContent(id, b, o)
      BY <3>1 DEF Change
    <3>3. id # "manifest"
      BY <1>3, OwnedSet
    <3> QED
      BY <1>3, <3>2, <3>3, OwnedContents, NothingRecorded DEF CopyOK
  <2>3. CASE \E p \in Touched(s.fs) : c = Change(p, s.fs[p], Merged(s.fs[p]))
    BY <2>3, SharedPaths DEF Change, CopyOK, Touched, Existing
  <2>4. CASE c = Change("manifest", Null, m)
    BY <1>4, <1>8, <2>4, NothingRecorded DEF Change, CopyOK
  <2> QED
    BY <1>2, <2>1, <2>2, <2>3, <2>4 DEF FirstChanges, m
<1>6. ASSUME NEW x \in Targets PROVE InstallsTarget(q, s.fs, File(x))
  <2>1. /\ File(x) \in {"hook", "state", "desc", "manifest"}
        /\ File(x) # "manifest" => File(x) \in ToSet(OwnedIds(b))
    BY <1>3, OwnedSet, TargetFiles
  <2>2. \E c \in ToSet(q) : c.path = File(x) /\ c.before = Null
    <3>1. CASE File(x) = "manifest"
      <4> DEFINE c == Change("manifest", Null, m)
      <4>1. c \in ToSet(q) /\ c.path = "manifest" /\ c.before = Null
        BY <1>2 DEF FirstChanges, Change, m
      <4> QED
        BY <3>1, <4>1
    <3>2. CASE File(x) # "manifest"
      <4> DEFINE c == Change(File(x), Null, OwnedContent(File(x), b, o))
      <4>1. c \in ToSet(q) /\ c.path = File(x) /\ c.before = Null
        BY <1>2, <2>1, <3>2 DEF FirstChanges, Change
      <4> QED
        BY <4>1
    <3> QED
      BY <3>1, <3>2
  <2>3. s.fs[File(x)] = Null
    BY <1>1, <2>1 DEF b
  <2> QED
    BY <1>5, <2>1, <2>2, <2>3 DEF InstallsTarget, Moves
<1> QED
  BY <1>5, <1>6 DEF Copies, q

LEMMA InstalledFacts ==
  ASSUME NEW s, NEW op, NEW o \in Original, SnapshotOK(s),
         Kind(s.fs["manifest"]) = "manifest", PlanInstalled(s, op, s.fs["manifest"], o).ok
  PROVE  LET q == PlanInstalled(s, op, s.fs["manifest"], o).changes
         IN  /\ Copies(q)
             /\ \A x \in Targets : InstallsTarget(q, s.fs, File(x))
<1> DEFINE m == s.fs["manifest"]
           q == PlanInstalled(s, op, m, o).changes
           S == ToSet(m.entries)
           D == {e \in S : s.fs[e.id] # e.installed}
<1>1. /\ m.entries \in Seq(ToSet(m.entries)) /\ \A e \in S : EntryOK(e)
      /\ Recorded(m)
      /\ StateOK(s.fs["state"]) /\ StateOK(s.fs["replica"])
  BY DEF SnapshotOK, ManifestOK
<1>2. /\ ToSet(q) = {Change(e.id, s.fs[e.id], e.installed) : e \in D}
      /\ \A e \in D : e.ownership = "owned"
  <2>1. ToSet(q) = Repairs(s.fs, m) /\ \A e \in Drifted(s.fs, m) : e.ownership = "owned"
    BY <1>1, InstalledShape
  <2> QED
    BY <2>1 DEF Repairs, Drifted
<1>3. /\ \A x \in {"hook", "state", "desc"} : \E e \in S : e.id = x
      /\ \A e \in S :
           \/ e.id \in Shared
           \/ /\ e.installed # Null
              /\ e.id \in {"init", "state", "replica", "hook", "desc", "extra"}
              /\ e.id \in {"state", "replica"} => StateOK(e.installed)
  BY <1>1, RecordedEntries
<1> HIDE DEF q, m
<1>4. ASSUME NEW c \in ToSet(q)
      PROVE  /\ CopyOK(c)
             /\ c.path \in {"hook", "state", "desc"} => c.before = s.fs[c.path] /\ c.after # Null
             /\ c.path # "manifest"
  <2>1. PICK e \in D : c = Change(e.id, s.fs[e.id], e.installed)
    BY <1>2
  <2>2. c.path = e.id /\ c.before = s.fs[e.id] /\ c.after = e.installed
    BY <2>1 DEF Change
  <2>3. CASE e.id \in Shared
    BY <2>2, <2>3, SharedPaths DEF CopyOK
  <2>4. CASE e.id \notin Shared
    BY <1>1, <1>3, <2>2, <2>4 DEF CopyOK
  <2> QED
    BY <2>3, <2>4
<1>6. s.fs["manifest"] # Null
  BY DEF Kind
<1>5. ASSUME NEW x \in Targets PROVE InstallsTarget(q, s.fs, File(x))
  <2>1. File(x) \in {"hook", "state", "desc", "manifest"} /\ File(x) \notin Shared
    BY TargetFiles
  <2>2. ASSUME s.fs[File(x)] = Null PROVE Moves(q, File(x))
    <3>1. PICK e \in S : e.id = File(x)
      BY <1>3, <1>6, <2>1, <2>2
    <3>2. e \in D
      BY <1>3, <2>1, <2>2, <3>1
    <3> DEFINE c == Change(e.id, s.fs[e.id], e.installed)
    <3>3. c \in ToSet(q) /\ c.path = File(x) /\ c.before = Null
      BY <1>2, <2>2, <3>1, <3>2 DEF Change
    <3> QED
      BY <3>3 DEF Moves
  <2>3. ASSUME Moves(q, File(x)) PROVE s.fs[File(x)] = Null
    BY <1>4, <2>1, <2>3 DEF Moves
  <2> QED
    BY <1>4, <2>1, <2>2, <2>3 DEF InstallsTarget
<1> QED
  BY <1>4, <1>5 DEF Copies, q, m

\* A deactivation finds its targets in place.
RemovesTarget(q, f, p) == f[p] # Null /\ \A c \in ToSet(q) : c.path = p => c.before # Null

LEMMA DeactivationFacts ==
  ASSUME NEW s, SnapshotOK(s), Kind(s.fs["manifest"]) = "manifest",
         PlanDeactivation(s, s.fs["manifest"]).ok
  PROVE  LET q == PlanDeactivation(s, s.fs["manifest"]).changes
         IN  /\ Copies(q) /\ q # <<>>
             /\ \A x \in Targets : RemovesTarget(q, s.fs, File(x))
<1> DEFINE m == s.fs["manifest"]
           q == PlanDeactivation(s, m).changes
           S == ToSet(m.entries)
           B == {d \in S : d.original # Null}
           last == Change("manifest", m, Null)
<1>1. /\ m.entries \in Seq(ToSet(m.entries)) /\ Recorded(m)
      /\ StateOK(s.fs["state"]) /\ StateOK(s.fs["replica"])
  BY DEF SnapshotOK, ManifestOK
<1>2. /\ ToSet(q) = {Change(e.id, s.fs[e.id], e.original) : e \in S}
                      \cup {Change(BackupPath(e.id), e.original, Null) : e \in B}
                      \cup {last}
      /\ \A e \in S : s.fs[e.id] = e.installed
  BY <1>1, DeactivationShape
<1>3. /\ \A x \in {"hook", "state", "desc"} : \E e \in S : e.id = x
      /\ \A e \in S :
           \/ e.id \in Shared
           \/ /\ e.installed # Null /\ e.original = Null
              /\ e.id \in {"init", "state", "replica", "hook", "desc", "extra"}
              /\ e.id \in {"state", "replica"} => StateOK(e.installed)
  BY <1>1, RecordedEntries
<1> HIDE DEF q
<1>4. last \in ToSet(q)
  BY <1>2
<1>5. q # <<>>
  <2>1. ToSet(<<>>) = {}
    BY DEF ToSet
  <2> QED
    BY <1>4, <2>1
<1>8. m # Null
  BY DEF Kind
<1>6. ASSUME NEW c \in ToSet(q)
      PROVE  /\ CopyOK(c)
             /\ c.path \in {"hook", "state", "desc", "manifest"} => c.before # Null
  <2>1. CASE \E e \in S : c = Change(e.id, s.fs[e.id], e.original)
    <3>1. PICK e \in S : c = Change(e.id, s.fs[e.id], e.original)
      BY <2>1
    <3>2. c.path = e.id /\ c.before = e.installed /\ c.after = e.original
      BY <1>2, <3>1 DEF Change
    <3> HIDE DEF S
    <3>3. CASE e.id \in Shared
      BY <3>2, <3>3, SharedPaths DEF CopyOK
    <3>4. CASE e.id \notin Shared
      BY <1>3, <3>2, <3>4, NothingRecorded DEF CopyOK
    <3> QED
      BY <3>3, <3>4
  <2>2. CASE \E e \in B : c = Change(BackupPath(e.id), e.original, Null)
    BY <2>2 DEF Change, BackupPath, CopyOK
  <2>3. CASE c = last
    BY <1>1, <1>8, <2>3, NothingRecorded DEF Change, CopyOK
  <2> QED
    BY <1>2, <2>1, <2>2, <2>3
<1>7. ASSUME NEW x \in Targets PROVE RemovesTarget(q, s.fs, File(x))
  <2>1. File(x) \in {"hook", "state", "desc", "manifest"} /\ File(x) \notin Shared
    BY TargetFiles
  <2>2. File(x) # "manifest" => \E e \in S : e.id = File(x)
    BY <1>3, <2>1
  <2>3. s.fs[File(x)] # Null
    <3> HIDE DEF S
    <3> QED BY <1>2, <1>3, <1>8, <2>1, <2>2
  <2> QED
    BY <1>6, <2>1, <2>3 DEF RemovesTarget
<1> QED
  BY <1>5, <1>6, <1>7 DEF Copies, q

Held(s, x) == IF Via(x) = "git" THEN s.git ELSE s.svc

TransitionOK(t) ==
  /\ t.kind \in {"git", "service"}
  /\ t.kind = "git" => {t.before, t.after} \subseteq Original \cup {"managed"}
ExternalOK(q) == q \in Seq(ToSet(q)) /\ \A t \in ToSet(q) : TransitionOK(t)

Installs(s, files, external, x) ==
  /\ InstallsTarget(files, s.fs, File(x))
  /\ \A t \in ToSet(external) : t.kind = Via(x) => t.before = Held(s, x)

Removes(s, files, external, x) ==
  /\ RemovesTarget(files, s.fs, File(x))
  /\ \A t \in ToSet(external) : t.kind = Via(x) => Off(x, t.after)
  /\ (\A t \in ToSet(external) : t.kind # Via(x)) => Off(x, Held(s, x))

LEMMA NoneOrOne ==
  ASSUME NEW t, NEW q, q = <<>> \/ q = <<t>>
  PROVE  /\ q \in Seq(ToSet(q))
         /\ q = <<>> => ToSet(q) = {}
         /\ q = <<t>> => ToSet(q) = {t}
<1>1. /\ <<>> \in Seq({}) /\ ToSet(<<>>) = {}
      /\ <<t>> \in Seq({t}) /\ ToSet(<<t>>) = {t}
  BY DEF ToSet
<1>2. <<>> # <<t>>
  OBVIOUS
<1> QED
  BY <1>1, <1>2

\* gitTransition
LEMMA GitTransitionFacts ==
  ASSUME NEW s, NEW op, NEW o \in Original, SnapshotOK(s)
  PROVE  LET q == GitTransition(s, op, o)
         IN  /\ q \in Seq(ToSet(q))
             /\ \A t \in ToSet(q) : /\ t.kind = "git" /\ t.before = s.git
                                    /\ t.after = IF op = "deactivate" THEN o ELSE "managed"
             /\ ToSet(q) = {} => s.git = IF op = "deactivate" THEN o ELSE "managed"
<1> DEFINE q == GitTransition(s, op, o)
           desired == IF op = "deactivate" THEN o ELSE "managed"
           t == Transition("git", s.git, desired, FALSE)
<1>1. /\ s.git = desired => q = <<>>
      /\ s.git # desired => q = <<t>>
  BY DEF GitTransition
<1>2. t.kind = "git" /\ t.before = s.git /\ t.after = desired
  BY DEF Transition
<1> HIDE DEF q, t, desired
<1>3. /\ q \in Seq(ToSet(q))
      /\ q = <<>> => ToSet(q) = {}
      /\ q = <<t>> => ToSet(q) = {t}
  BY <1>1, NoneOrOne
<1>4. /\ q \in Seq(ToSet(q))
      /\ \A u \in ToSet(q) : u.kind = "git" /\ u.before = s.git /\ u.after = desired
      /\ ToSet(q) = {} => s.git = desired
  BY <1>1, <1>2, <1>3
<1> QED
  BY <1>4 DEF q, desired

\* serviceTransition
LEMMA ServiceTransitionFacts ==
  ASSUME NEW s, NEW op
  PROVE  LET q == ServiceTransition(s, op)
         IN  /\ q \in Seq(ToSet(q))
             /\ \A t \in ToSet(q) : /\ t.kind = "service" /\ t.before = s.svc
                                    /\ t.after = IF op = "deactivate" THEN "absent" ELSE "active"
             /\ ToSet(q) = {} => s.svc = IF op = "deactivate" THEN "absent" ELSE "active"
<1> DEFINE q == ServiceTransition(s, op)
           desired == IF op = "deactivate" THEN "absent" ELSE "active"
<1>1. PICK restart \in BOOLEAN :
        /\ s.svc # desired => q = <<Transition("service", s.svc, desired, restart)>>
        /\ q = <<>> \/ q = <<Transition("service", s.svc, desired, restart)>>
  <2>1. CASE op = "deactivate"
    BY <2>1 DEF ServiceTransition
  <2>2. CASE op # "deactivate" /\ s.svc # "active"
    BY <2>2 DEF ServiceTransition
  <2>3. CASE op # "deactivate" /\ s.svc = "active"
    BY <2>3 DEF ServiceTransition
  <2> QED
    BY <2>1, <2>2, <2>3
<1> DEFINE t == Transition("service", s.svc, desired, restart)
<1>2. t.kind = "service" /\ t.before = s.svc /\ t.after = desired
  BY DEF Transition
<1> HIDE DEF q, t, desired
<1>3. /\ q \in Seq(ToSet(q))
      /\ q = <<>> => ToSet(q) = {}
      /\ q = <<t>> => ToSet(q) = {t}
  BY <1>1, NoneOrOne DEF t
<1>4. /\ q \in Seq(ToSet(q))
      /\ \A u \in ToSet(q) : u.kind = "service" /\ u.before = s.svc /\ u.after = desired
      /\ ToSet(q) = {} => s.svc = desired
  BY <1>1, <1>2, <1>3 DEF t
<1> QED
  BY <1>4 DEF q, desired

LEMMA ProtectionPlanFacts ==
  ASSUME NEW s, NEW op \in Operations, SnapshotOK(s), ProtectionPlan(s, op).ok
  PROVE  LET P == ProtectionPlan(s, op)
         IN  /\ Copies(P.files) /\ ExternalOK(P.external)
             /\ \/ P.files = <<>> /\ P.external = <<>>
                \/ op # "deactivate" /\ \A x \in Targets : Installs(s, P.files, P.external, x)
                \/ /\ op = "deactivate" /\ P.files # <<>>
                   /\ \A x \in Targets : Removes(s, P.files, P.external, x)
<1> DEFINE P == ProtectionPlan(s, op)
           m == s.fs["manifest"]
           installed == m # Null
           originals == IF installed THEN GitOriginals(s) ELSE {s.git}
           o == IF originals = {} THEN Null ELSE CHOOSE v \in originals : TRUE
           files == FilePlan(s, op, o)
           G == GitTransition(s, op, o)
           V == ServiceTransition(s, op)
<1>1. CASE ~installed /\ op # "activate"
  <2>1. P.files = <<>> /\ P.external = <<>>
    BY <1>1 DEF ProtectionPlan
  <2>2. ToSet(<<>>) = {} /\ <<>> \in Seq({})
    BY DEF ToSet
  <2> QED
    BY <2>1, <2>2 DEF Copies, ExternalOK
<1>2. CASE installed \/ op = "activate"
  <2>1. /\ originals = {o} /\ files.ok /\ ~GitConflict(s, installed, o)
        /\ P.files = files.changes
        /\ P.external = IF op = "deactivate" THEN V \o G ELSE G \o V
    BY <1>2 DEF ProtectionPlan
  <2>2. o \in Original
    <3> HIDE DEF o
    <3>1. CASE installed
      <4>1. PICK c \in {"state", "replica"} : Kind(s.fs[c]) = "state" /\ o = s.fs[c].original
        BY <2>1, <3>1 DEF GitOriginals
      <4> QED
        BY <4>1 DEF SnapshotOK, StateOK
    <3>2. CASE ~installed
      BY <2>1, <3>2 DEF GitConflict, SnapshotOK
    <3> QED
      BY <3>1, <3>2
  <2> HIDE DEF originals, o, P
  <2>3. /\ G \in Seq(ToSet(G))
        /\ \A t \in ToSet(G) : /\ t.kind = "git" /\ t.before = s.git
                               /\ t.after = IF op = "deactivate" THEN o ELSE "managed"
        /\ ToSet(G) = {} => s.git = IF op = "deactivate" THEN o ELSE "managed"
    BY <2>2, GitTransitionFacts
  <2>4. /\ V \in Seq(ToSet(V))
        /\ \A t \in ToSet(V) : /\ t.kind = "service" /\ t.before = s.svc
                               /\ t.after = IF op = "deactivate" THEN "absent" ELSE "active"
        /\ ToSet(V) = {} => s.svc = IF op = "deactivate" THEN "absent" ELSE "active"
    BY ServiceTransitionFacts
  <2> HIDE DEF G, V
  <2>5. P.external \in Seq(ToSet(G) \cup ToSet(V)) /\ ToSet(P.external) = ToSet(G) \cup ToSet(V)
    BY <2>1, <2>3, <2>4, ConcatSeq, ConcatSet
  <2>6. ExternalOK(P.external)
    <3>1. \A t \in ToSet(G) \cup ToSet(V) : TransitionOK(t)
      BY <2>2, <2>3, <2>4 DEF TransitionOK, SnapshotOK, Targets
    <3> QED
      BY <2>5, <3>1, SeqOfItsOwn DEF ExternalOK
  <2>7. CASE op = "deactivate"
    <3>1. installed /\ Kind(m) = "manifest" /\ files = PlanDeactivation(s, m)
      BY <1>2, <2>1, <2>7 DEF FilePlan, Refused
    <3>2. /\ Copies(P.files) /\ P.files # <<>>
          /\ \A x \in Targets : RemovesTarget(P.files, s.fs, File(x))
      <4> HIDE DEF m, files
      <4> QED BY <2>1, <3>1, DeactivationFacts DEF m
    <3>3. ASSUME NEW x \in Targets PROVE Removes(s, P.files, P.external, x)
      <4>1. \A t \in ToSet(P.external) : t.kind = Via(x) => Off(x, t.after)
        BY <2>2, <2>3, <2>4, <2>5, <2>7, OwnHooksPaths DEF Off, Via, Targets, Original
      <4>2. (\A t \in ToSet(P.external) : t.kind # Via(x)) => Off(x, Held(s, x))
        BY <2>2, <2>3, <2>4, <2>5, <2>7, OwnHooksPaths DEF Off, Via, Targets, Original, Held
      <4> QED
        BY <3>2, <4>1, <4>2 DEF Removes
    <3> QED
      BY <2>6, <2>7, <3>2, <3>3 DEF P
  <2>8. CASE op # "deactivate"
    <3>1. \/ m = Null /\ files = PlanFirstActivation(s, o)
          \/ Kind(m) = "manifest" /\ files = PlanInstalled(s, op, m, o)
      BY <1>2, <2>1, <2>8 DEF FilePlan, Refused
    <3>2. /\ Copies(P.files)
          /\ \A x \in Targets : InstallsTarget(P.files, s.fs, File(x))
      <4> HIDE DEF m, files
      <4> QED BY <2>1, <2>2, <3>1, FirstActivationFacts, InstalledFacts DEF m
    <3>3. ASSUME NEW x \in Targets PROVE Installs(s, P.files, P.external, x)
      <4>1. \A t \in ToSet(P.external) : t.kind = Via(x) => t.before = Held(s, x)
        BY <2>3, <2>4, <2>5, <2>8 DEF Targets, Held
      <4> QED
        BY <3>2, <4>1 DEF Installs
    <3> QED
      BY <2>6, <2>8, <3>2, <3>3 DEF P
  <2> QED
    BY <2>7, <2>8
<1> QED
  BY <1>1, <1>2
-----------------------------------------------------------------------------
(* The second inductive invariant: what each stage of a command knows of the
   files, Git and the service *)

Working == {"confirm", "verify", "execute", "files", "external", "apply", "restoreQuietly",
            "rollback", "invert"}
Now(x) == IF Via(x) = "git" THEN git ELSE svc
Excused(x) == incomplete \/ File(x) \in damaged

\* No transition of x from the i-th to the j-th.
Free(x, i, j) == \A k \in i..j : cmd.external[k].kind # Via(x)

\* The transitions before this one may have been applied.
Applied == IF cmd.stage \in {"restoreQuietly", "rollback"} THEN cmd.at ELSE cmd.at - 1

\* activate and repair: nothing points at a target that is still to be made, and
\* what is applied can be taken back before the target is removed again.
Installing(x) ==
  /\ \A c \in ToSet(cmd.files) : c.path = File(x) => c.after # Null
  /\ Moves(cmd.files, File(x)) => \A t \in ToSet(cmd.external) : t.kind = Via(x) => Off(x, t.before)
  /\ cmd.stage \in {"confirm", "verify", "execute", "files"} =>
       IF Moves(cmd.files, File(x)) THEN Off(x, Now(x)) ELSE fs[File(x)] # Null
  /\ cmd.stage = "files" /\ pc \in {"check", "apply", "done"} =>
       \A k \in 1..attempted :
         plan[k].path = File(x) => fs[File(x)] # Null \/ (pc = "apply" /\ k = cursor)
  /\ cmd.stage \in {"external", "apply", "restoreQuietly", "rollback"} =>
       /\ fs[File(x)] # Null
       /\ Moves(cmd.files, File(x)) /\ Free(x, 1, Applied) => Off(x, Now(x))

\* The changes of a running file plan that may have removed their target.
Removed == CASE pc = "rollback" -> 1..cursor
             [] pc = "failed" -> {}
             [] OTHER -> 1..attempted

\* deactivate: the target stays until nothing points at it.
Deactivating(x) ==
  /\ \A c \in ToSet(cmd.files) : c.path = File(x) => c.before # Null
  /\ \A t \in ToSet(cmd.external) : t.kind = Via(x) => Off(x, t.after)
  /\ cmd.stage \in {"confirm", "verify", "external", "apply", "rollback", "execute"} =>
       fs[File(x)] # Null
  /\ cmd.stage \in {"confirm", "verify"} /\ (\A t \in ToSet(cmd.external) : t.kind # Via(x)) =>
       Off(x, Now(x))
  /\ cmd.stage \in {"external", "apply"} /\ Free(x, cmd.at, Len(cmd.external)) =>
       Off(x, Now(x))
  /\ cmd.stage \in {"execute", "files"} => Off(x, Now(x))
  /\ cmd.stage = "files" => fs[File(x)] # Null \/ \E k \in Removed : plan[k].path = File(x)

PointerOK(x) ==
  /\ Off(x, Now(x)) \/ fs[File(x)] # Null
  /\ cmd.stage \in {"files", "invert"} /\ Moves(plan, File(x)) => Off(x, Now(x))
  /\ cmd.stage \in Working /\ cmd.op # "deactivate" => Installing(x)
  /\ cmd.stage \in Working /\ cmd.op = "deactivate" /\ cmd.files # <<>> => Deactivating(x)
  /\ cmd.stage = "idle" /\ cmd.op = "deactivate" /\ cmd.result = "ok" => Off(x, Now(x))

RecordsOK ==
  /\ StateOK(fs["state"]) /\ StateOK(fs["replica"]) /\ Recorded(fs["manifest"])
  /\ Copies(plan) /\ Copies(cmd.files) /\ ExternalOK(cmd.external)
  /\ git \in Original \cup {"managed"} /\ build \in Build

StageOK ==
  /\ cmd.stage \in Working /\ cmd.op = "deactivate" /\ cmd.files = <<>> =>
       cmd.external = <<>> /\ cmd.undo
  /\ cmd.stage = "external" => cmd.at \in Nat \ {0}
  /\ cmd.stage \in {"apply", "restoreQuietly"} => cmd.at \in 1..Len(cmd.external)
  /\ cmd.stage = "rollback" => cmd.at \in 0..Len(cmd.external)
  /\ cmd.stage = "restoreQuietly" => cmd.op # "deactivate" /\ Pending.kind = "service"
  /\ cmd.stage \in {"writeConfig", "writeBaseline"} => cmd.op # "deactivate"
  /\ cmd.stage = "files" => plan = cmd.files /\ (pc = "done" => attempted = Len(plan))

PInv == RecordsOK /\ StageOK /\ \A x \in Targets : Excused(x) \/ PointerOK(x)
-----------------------------------------------------------------------------
LEMMA EmptyPlan == ToSet(<<>>) = {} /\ Copies(<<>>) /\ ExternalOK(<<>>)
<1>1. ToSet(<<>>) = {} /\ <<>> \in Seq({})
  BY DEF ToSet
<1> QED
  BY <1>1 DEF Copies, ExternalOK

LEMMA IdleFields ==
  ASSUME NEW op, NEW result, cmd' = Idle(op, result)
  PROVE  /\ cmd'.stage = "idle" /\ cmd'.op = op /\ cmd'.result = result
         /\ cmd'.files = <<>> /\ cmd'.external = <<>>
  BY DEF Idle

\* A command that goes on with the same plan.
SamePlan == /\ cmd'.op = cmd.op /\ cmd'.files = cmd.files /\ cmd'.external = cmd.external
            /\ cmd'.undo = cmd.undo /\ cmd'.installed = cmd.installed
            /\ cmd'.result = cmd.result

LEMMA StageFields ==
  ASSUME Fields(cmd), NEW stage, cmd' = [cmd EXCEPT !.stage = stage]
  PROVE  SamePlan /\ cmd'.stage = stage /\ cmd'.at = cmd.at
  BY DEF Fields, SamePlan

LEMMA StageAtFields ==
  ASSUME Fields(cmd), NEW stage, NEW at, cmd' = [cmd EXCEPT !.stage = stage, !.at = at]
  PROVE  SamePlan /\ cmd'.stage = stage /\ cmd'.at = at
  BY DEF Fields, SamePlan

\* Steps that leave Git, the service and the files in question alone and end or
\* interrupt the work.
LEMMA Rests ==
  ASSUME PInv, UNCHANGED <<plan, git, svc>>, build' \in {build, 2},
         \A p \in {"state", "replica", "manifest", "hook", "desc"} : fs'[p] = fs[p],
         damaged \subseteq damaged', incomplete => incomplete', cmd'.stage \notin Working,
         cmd'.stage \in {"writeConfig", "writeBaseline"} => cmd'.op # "deactivate",
         \/ cmd'.files = <<>> /\ cmd'.external = <<>>
         \/ cmd'.files = cmd.files /\ cmd'.external = cmd.external,
         \A x \in Targets : Excused(x)' \/ Off(x, Now(x)) \/
            ~(cmd'.stage = "idle" /\ cmd'.op = "deactivate" /\ cmd'.result = "ok")
  PROVE  PInv'
<1>1. RecordsOK'
  BY EmptyPlan DEF PInv, RecordsOK, Build
<1>2. StageOK'
  BY DEF StageOK, Working
<1>3. ASSUME NEW x \in Targets, ~Excused(x)' PROVE PointerOK(x)'
  <2>1. File(x) \in {"hook", "state", "desc", "manifest"}
    BY TargetFiles
  <2> QED
    BY <1>3, <2>1 DEF PInv, PointerOK, Now, Excused, Working
<1> QED
  BY <1>1, <1>2, <1>3 DEF PInv
-----------------------------------------------------------------------------
(* Planning *)

LEMMA SnapshotIsOK ==
  ASSUME IInv, PInv
  PROVE  SnapshotOK(Snapshot) /\ Snapshot.fs = fs /\ \A x : Held(Snapshot, x) = Now(x)
  BY DEF IInv, FilesOK, PInv, RecordsOK, SnapshotOK, Snapshot, Held, Now

\* A plan that was just made.
LEMMA FreshPlan ==
  ASSUME IInv, PInv, NEW op \in Operations, ProtectionPlan(Snapshot, op).ok,
         cmd'.stage \in {"confirm", "verify"}, cmd'.op = op,
         cmd'.files = ProtectionPlan(Snapshot, op).files,
         cmd'.external = ProtectionPlan(Snapshot, op).external,
         \/ cmd'.files # <<>> \/ cmd'.external # <<>>
         \/ op = "deactivate" /\ cmd'.undo,
         UNCHANGED <<fs, plan, git, svc, build, damaged, incomplete>>
  PROVE  PInv'
<1> DEFINE P == ProtectionPlan(Snapshot, op)
<1>1. /\ Copies(P.files) /\ ExternalOK(P.external)
      /\ \/ P.files = <<>> /\ P.external = <<>>
         \/ op # "deactivate" /\ \A x \in Targets : Installs(Snapshot, P.files, P.external, x)
         \/ /\ op = "deactivate" /\ P.files # <<>>
            /\ \A x \in Targets : Removes(Snapshot, P.files, P.external, x)
  BY SnapshotIsOK, ProtectionPlanFacts
<1>2. P.files = cmd'.files /\ P.external = cmd'.external
  OBVIOUS
<1> HIDE DEF P
<1>3. RecordsOK'
  BY <1>1, <1>2 DEF PInv, RecordsOK
<1>4. StageOK'
  BY <1>1, <1>2 DEF StageOK, Working
<1>5. ASSUME NEW x \in Targets, ~Excused(x)' PROVE PointerOK(x)'
  <2>1. /\ ~Excused(x)
        /\ Off(x, Now(x)) \/ fs[File(x)] # Null
        /\ fs' = fs /\ Now(x)' = Now(x)
    BY <1>5 DEF PInv, PointerOK, Excused, Now
  <2>2. ASSUME op # "deactivate" PROVE Installing(x)'
    <3>1. Installs(Snapshot, cmd'.files, cmd'.external, x)
      BY <1>1, <1>2, <2>2
    <3>2. /\ \A c \in ToSet(cmd'.files) : c.path = File(x) => c.after # Null
          /\ Moves(cmd'.files, File(x)) <=> fs[File(x)] = Null
          /\ \A t \in ToSet(cmd'.external) : t.kind = Via(x) => t.before = Now(x)
      BY <3>1, SnapshotIsOK DEF Installs, InstallsTarget
    <3> QED
      BY <2>1, <3>2 DEF Installing
  <2>3. ASSUME op = "deactivate", cmd'.files # <<>> PROVE Deactivating(x)'
    <3>1. Removes(Snapshot, cmd'.files, cmd'.external, x)
      BY <1>1, <1>2, <2>3
    <3>2. /\ fs[File(x)] # Null
          /\ \A c \in ToSet(cmd'.files) : c.path = File(x) => c.before # Null
          /\ \A t \in ToSet(cmd'.external) : t.kind = Via(x) => Off(x, t.after)
          /\ (\A t \in ToSet(cmd'.external) : t.kind # Via(x)) => Off(x, Now(x))
      BY <3>1, SnapshotIsOK DEF Removes, RemovesTarget
    <3> QED
      BY <2>1, <3>2 DEF Deactivating
  <2> QED
    BY <2>1, <2>2, <2>3 DEF PointerOK
<1> QED
  BY <1>3, <1>4, <1>5 DEF PInv

\* Steps between two stages that know the same of the pointers.
LEMMA PointersPlanned ==
  ASSUME IInv, PInv, (\E op \in Operations : Plan(op)) \/ Confirm \/ Decline \/ Undo
  PROVE  PInv'
<1> USE DEF historyVars, fileVars, systemVars
<1>1. UNCHANGED <<fs, plan, git, svc, build, damaged>> /\ (incomplete => incomplete')
  BY DEF Plan, Confirm, Decline, Undo
<1>2. Fields(cmd)
  BY DEF IInv, CommandOK
<1>3. CASE \E op \in Operations : Plan(op)
  <2>1. PICK op \in Operations : Plan(op)
    BY <1>3
  <2> DEFINE p == ProtectionPlan(Snapshot, op)
             found == [Idle(op, "none") EXCEPT !.stage = "confirm",
                           !.installed = p.installed, !.files = p.files,
                           !.external = p.external]
  <2>2. \/ cmd' = Idle(op, "refused") \/ cmd' = Idle(op, "nothing")
        \/ cmd' = found /\ p.ok /\ ~(p.files = <<>> /\ p.external = <<>>)
    BY <2>1 DEF Plan
  <2>3. UNCHANGED <<damaged, incomplete>>
    BY <2>1 DEF Plan
  <2>4. ASSUME NEW r \in {"refused", "nothing"}, cmd' = Idle(op, r) PROVE PInv'
    <3>1. /\ cmd'.stage = "idle" /\ cmd'.result = r
          /\ cmd'.files = <<>> /\ cmd'.external = <<>>
      BY <2>4, IdleFields
    <3>2. "idle" \notin Working /\ r # "ok"
      BY DEF Working
    <3> QED
      BY <1>1, <3>1, <3>2, Rests
  <2>5. ASSUME cmd' = found, p.ok, ~(p.files = <<>> /\ p.external = <<>>) PROVE PInv'
    <3>1. /\ cmd'.stage = "confirm" /\ cmd'.op = op
          /\ cmd'.files = p.files /\ cmd'.external = p.external
      <4> HIDE DEF p
      <4> QED BY <2>5 DEF Idle
    <3> QED
      BY <1>1, <2>3, <2>5, <3>1, FreshPlan
  <2> QED
    BY <2>2, <2>4, <2>5
<1>4. CASE Decline
  <2>1. cmd' = Idle(cmd.op, "declined")
    BY <1>4 DEF Decline
  <2>2. /\ cmd'.stage = "idle" /\ cmd'.result = "declined"
        /\ cmd'.files = <<>> /\ cmd'.external = <<>>
    BY <2>1, IdleFields
  <2>3. "idle" \notin Working
    BY DEF Working
  <2> QED
    BY <1>1, <2>2, <2>3, Rests
<1>5. CASE Confirm
  <2>1. UNCHANGED <<incomplete, pc, cursor, attempted>> /\ cmd.stage = "confirm"
    BY <1>5 DEF Confirm
  <2>2. SamePlan /\ cmd'.stage = "verify"
    <3>1. \E v : cmd' = [cmd EXCEPT !.stage = "verify", !.before = v]
      BY <1>5 DEF Confirm
    <3> QED
      BY <1>2, <3>1 DEF Fields, SamePlan
  <2>3. RecordsOK'
    BY <1>1, <2>2 DEF PInv, RecordsOK, SamePlan
  <2>4. StageOK'
    BY <2>1, <2>2 DEF PInv, StageOK, SamePlan, Working
  <2>5. ASSUME NEW x \in Targets, ~Excused(x)' PROVE PointerOK(x)'
    <3>1. PointerOK(x) /\ Now(x)' = Now(x)
      BY <1>1, <2>1, <2>5 DEF PInv, Excused, Now
    <3>2. cmd.op # "deactivate" => Installing(x)'
      BY <1>1, <2>1, <2>2, <3>1 DEF PointerOK, Installing, SamePlan, Working
    <3>3. cmd.op = "deactivate" /\ cmd.files # <<>> => Deactivating(x)'
      BY <1>1, <2>1, <2>2, <3>1 DEF PointerOK, Deactivating, SamePlan, Working
    <3> QED
      BY <1>1, <2>2, <3>1, <3>2, <3>3 DEF PointerOK, SamePlan
  <2> QED
    BY <2>3, <2>4, <2>5 DEF PInv
<1>6. CASE Undo
  <2> DEFINE p == ProtectionPlan(Snapshot, "deactivate")
             again == [cmd EXCEPT !.stage = "verify", !.op = "deactivate", !.undo = TRUE,
                                  !.at = 0, !.files = p.files, !.external = p.external]
  <2>1. \/ p.ok /\ cmd' = again /\ UNCHANGED incomplete
        \/ cmd' = [cmd EXCEPT !.stage = "restoreConfig"] /\ incomplete' = TRUE
    BY <1>6 DEF Undo
  <2>2. ASSUME p.ok, cmd' = again, UNCHANGED incomplete PROVE PInv'
    <3>1. /\ cmd'.stage = "verify" /\ cmd'.op = "deactivate" /\ cmd'.undo
          /\ cmd'.files = p.files /\ cmd'.external = p.external
      <4> HIDE DEF p
      <4> QED BY <1>2, <2>2 DEF Fields
    <3>2. "deactivate" \in Operations
      BY DEF Operations
    <3> QED
      BY <1>1, <2>2, <3>1, <3>2, FreshPlan
  <2>3. ASSUME cmd' = [cmd EXCEPT !.stage = "restoreConfig"], incomplete' PROVE PInv'
    <3>1. SamePlan /\ cmd'.stage = "restoreConfig"
      BY <1>2, <2>3, StageFields
    <3>2. "restoreConfig" \notin Working
      BY DEF Working
    <3> QED
      BY <1>1, <2>3, <3>1, <3>2, Rests DEF SamePlan
  <2> QED
    BY <2>1, <2>2, <2>3
<1> QED
  BY <1>3, <1>4, <1>5, <1>6
-----------------------------------------------------------------------------
(* The executor *)

LEMMA Ends ==
  ASSUME IInv, PInv, NEW r,
         cmd' = IF cmd.undo THEN [cmd EXCEPT !.stage = "restoreConfig"] ELSE Idle(cmd.op, r),
         UNCHANGED <<fs, plan, git, svc, build, damaged>>, incomplete => incomplete',
         \A x \in Targets : \/ r # "ok" \/ cmd.op # "deactivate" \/ cmd.undo
                             \/ Excused(x) \/ Off(x, Now(x))
  PROVE  PInv'
<1>1. CASE cmd.undo
  <2>1. SamePlan /\ cmd'.stage = "restoreConfig"
    BY <1>1, StageFields DEF IInv, CommandOK
  <2>2. "restoreConfig" \notin Working
    BY DEF Working
  <2> QED
    BY <2>1, <2>2, Rests DEF SamePlan
<1>2. CASE ~cmd.undo
  <2>1. /\ cmd'.stage = "idle" /\ cmd'.op = cmd.op /\ cmd'.result = r
        /\ cmd'.files = <<>> /\ cmd'.external = <<>>
    BY <1>2, IdleFields
  <2>2. "idle" \notin Working
    BY DEF Working
  <2>3. \A x \in Targets : Excused(x) => Excused(x)'
    BY DEF Excused
  <2> QED
    BY <1>2, <2>1, <2>2, <2>3, Rests
<1> QED
  BY <1>1, <1>2

\* A stage change that keeps plan and file transaction.
LEMMA SameRecords ==
  ASSUME PInv, SamePlan, UNCHANGED <<fs, plan, git, build>>
  PROVE  RecordsOK'
  BY DEF PInv, RecordsOK, SamePlan

LEMMA Transitions ==
  ASSUME PInv
  PROVE  /\ Len(cmd.external) \in Nat
         /\ \A k \in 1..Len(cmd.external) : /\ cmd.external[k] \in ToSet(cmd.external)
                                            /\ TransitionOK(cmd.external[k])
         /\ \A t \in ToSet(cmd.external) : \E k \in 1..Len(cmd.external) : t = cmd.external[k]
<1>1. cmd.external \in Seq(ToSet(cmd.external)) /\ \A t \in ToSet(cmd.external) : TransitionOK(t)
  BY DEF PInv, RecordsOK, ExternalOK
<1>2. /\ Len(cmd.external) \in Nat /\ DOMAIN cmd.external = 1..Len(cmd.external)
      /\ \A k \in 1..Len(cmd.external) : cmd.external[k] \in ToSet(cmd.external)
  BY <1>1, SeqOfItsOwn
<1>3. \A t \in ToSet(cmd.external) : \E k \in 1..Len(cmd.external) : t = cmd.external[k]
  BY <1>2 DEF ToSet
<1> QED
  BY <1>1, <1>2, <1>3

LEMMA PointersVerified ==
  ASSUME IInv, PInv, Verify
  PROVE  PInv'
<1> USE DEF historyVars, fileVars, systemVars
<1>1. /\ UNCHANGED <<fs, plan, git, svc, build, damaged, pc, cursor, attempted>>
      /\ incomplete => incomplete'
      /\ cmd.stage = "verify"
  <2>1. Throw \/ UNCHANGED historyVars
    BY DEF Verify
  <2>2. incomplete => incomplete'
    BY <2>1 DEF Throw
  <2>3. UNCHANGED damaged
    BY <2>1 DEF Throw
  <2> QED
    BY <2>2, <2>3 DEF Verify
<1>2. Fields(cmd) /\ Len(cmd.external) \in Nat
  BY Transitions DEF IInv, CommandOK
<1>3. CASE Throw
  BY <1>1, <1>3, Ends DEF Throw
<1>4. CASE /\ IF cmd.op = "deactivate" THEN GotoAt("external", 1) ELSE Goto("execute")
           /\ UNCHANGED incomplete
  <2>1. /\ SamePlan
        /\ cmd.op = "deactivate" => cmd'.stage = "external" /\ cmd'.at = 1
        /\ cmd.op # "deactivate" => cmd'.stage = "execute"
    BY <1>2, <1>4, StageFields, StageAtFields DEF Goto, GotoAt
  <2>2. RecordsOK'
    BY <1>1, <2>1, SameRecords
  <2>3. StageOK'
    BY <1>1, <2>1 DEF PInv, StageOK, SamePlan, Working
  <2>4. ASSUME NEW x \in Targets, ~Excused(x)' PROVE PointerOK(x)'
    <3>1. PointerOK(x) /\ Now(x)' = Now(x)
      BY <1>1, <1>4, <2>4 DEF PInv, Excused, Now
    <3>2. cmd.op # "deactivate" => Installing(x)'
      BY <1>1, <2>1, <3>1 DEF PointerOK, Installing, SamePlan, Working
    <3>3. ASSUME cmd.op = "deactivate", cmd.files # <<>> PROVE Deactivating(x)'
      <4>1. Deactivating(x)
        BY <1>1, <3>1, <3>3 DEF PointerOK, Working
      <4>2. Free(x, 1, Len(cmd.external)) => \A t \in ToSet(cmd.external) : t.kind # Via(x)
        BY Transitions DEF Free
      <4> QED
        BY <1>1, <2>1, <3>1, <3>3, <4>1, <4>2 DEF Deactivating, SamePlan, Free
    <3> QED
      BY <1>1, <2>1, <3>1, <3>2, <3>3 DEF PointerOK, SamePlan
  <2> QED
    BY <2>2, <2>3, <2>4 DEF PInv
<1> QED
  BY <1>3, <1>4 DEF Verify

LEMMA PointersBegin ==
  ASSUME IInv, PInv, BeginFiles
  PROVE  PInv'
<1> USE DEF historyVars, systemVars
<1>1. /\ UNCHANGED <<fs, git, svc, build, damaged, incomplete>>
      /\ plan' = cmd.files /\ pc' = "validate" /\ attempted' = 0
      /\ cmd.stage = "execute" /\ cmd' = [cmd EXCEPT !.stage = "files"]
  BY DEF BeginFiles, Files!Execute, Goto
<1>2. SamePlan /\ cmd'.stage = "files"
  BY <1>1, StageFields DEF IInv, CommandOK
<1>3. RecordsOK'
  BY <1>1, <1>2 DEF PInv, RecordsOK, SamePlan
<1>4. StageOK'
  BY <1>1, <1>2 DEF PInv, StageOK, SamePlan, Working
<1>5. ASSUME NEW x \in Targets, ~Excused(x)' PROVE PointerOK(x)'
  <2>1. PointerOK(x) /\ Now(x)' = Now(x)
    BY <1>1, <1>5 DEF PInv, Excused, Now
  <2>2. cmd.op # "deactivate" => Installing(x) /\ Installing(x)'
    BY <1>1, <1>2, <2>1 DEF PointerOK, Installing, SamePlan, Working
  <2>3. cmd.op = "deactivate" /\ cmd.files # <<>> => Deactivating(x) /\ Deactivating(x)'
    BY <1>1, <1>2, <2>1 DEF PointerOK, Deactivating, SamePlan, Working
  <2>4. Moves(plan', File(x)) => Off(x, Now(x))
    BY <1>1, <2>2, <2>3, EmptyPlan DEF Installing, Deactivating, Moves
  <2> QED
    BY <1>1, <1>2, <2>1, <2>2, <2>3, <2>4 DEF PointerOK, SamePlan
<1> QED
  BY <1>3, <1>4, <1>5 DEF PInv

LEMMA PointersFilesDone ==
  ASSUME IInv, PInv, FilesDone \/ FilesFailed
  PROVE  PInv'
<1> USE DEF historyVars, fileVars, systemVars
<1>1. /\ UNCHANGED <<fs, plan, git, svc, build, damaged, pc, cursor, attempted>>
      /\ incomplete => incomplete'
      /\ cmd.stage = "files"
  BY DEF FilesDone, FilesFailed, Throw
<1>2. Fields(cmd) /\ Len(cmd.external) \in Nat
  BY Transitions DEF IInv, CommandOK
<1>3. CASE FilesFailed /\ cmd.op # "deactivate"
  BY <1>1, <1>3, Ends DEF FilesFailed, Throw
<1>4. CASE FilesDone /\ cmd.op = "deactivate"
  <2>1. \A x \in Targets : cmd.undo \/ Excused(x) \/ Off(x, Now(x))
    BY <1>1, <1>4 DEF PInv, StageOK, PointerOK, Deactivating, Working
  <2> QED
    BY <1>1, <1>4, <2>1, Ends DEF FilesDone, Return
<1>5. CASE \/ FilesDone /\ cmd.op # "deactivate"
           \/ FilesFailed /\ cmd.op = "deactivate"
  <2>1. /\ SamePlan /\ UNCHANGED incomplete
        /\ cmd.op # "deactivate" => cmd'.stage = "external" /\ cmd'.at = 1 /\ pc = "done"
        /\ cmd.op = "deactivate" =>
             cmd'.stage = "rollback" /\ cmd'.at = Len(cmd.external) /\ pc = "failed"
    BY <1>2, <1>5, StageAtFields DEF GotoAt, FilesDone, FilesFailed
  <2>2. RecordsOK'
    BY <1>1, <2>1, SameRecords
  <2>3. StageOK'
    BY <1>1, <1>2, <2>1 DEF PInv, StageOK, SamePlan, Working
  <2>4. ASSUME NEW x \in Targets, ~Excused(x)' PROVE PointerOK(x)'
    <3>1. PointerOK(x) /\ Now(x)' = Now(x)
      BY <1>1, <2>1, <2>4 DEF PInv, Excused, Now
    <3>2. ASSUME cmd.op # "deactivate" PROVE Installing(x)'
      <4>1. Installing(x)
        BY <1>1, <3>1, <3>2 DEF PointerOK, Working
      <4>2. fs[File(x)] # Null
        <5>1. CASE Moves(cmd.files, File(x))
          <6>1. plan = cmd.files /\ attempted = Len(plan)
            BY <1>1, <2>1, <3>2 DEF PInv, StageOK
          <6>2. Len(plan) \in Nat /\ DOMAIN plan = 1..Len(plan)
            BY SeqOfItsOwn DEF IInv, PlanOK
          <6>3. PICK k \in 1..attempted : plan[k].path = File(x)
            BY <5>1, <6>1, <6>2 DEF Moves, ToSet
          <6> QED
            BY <1>1, <2>1, <3>2, <4>1, <6>3 DEF Installing
        <5>2. CASE ~Moves(cmd.files, File(x))
          BY <1>1, <4>1, <5>2 DEF Installing
        <5> QED
          BY <5>1, <5>2
      <4> QED
        BY <1>1, <2>1, <3>1, <3>2, <4>1, <4>2 DEF Installing, SamePlan
    <3>3. ASSUME cmd.op = "deactivate", cmd.files # <<>> PROVE Deactivating(x)'
      <4>1. Deactivating(x)
        BY <1>1, <3>1, <3>3 DEF PointerOK, Working
      <4>2. fs[File(x)] # Null
        BY <1>1, <2>1, <3>3, <4>1 DEF Deactivating, Removed
      <4> QED
        BY <1>1, <2>1, <3>3, <4>1, <4>2 DEF Deactivating, SamePlan
    <3> QED
      BY <1>1, <2>1, <3>1, <3>2, <3>3 DEF PointerOK, SamePlan
  <2> QED
    BY <2>2, <2>3, <2>4 DEF PInv
<1> QED
  BY <1>3, <1>4, <1>5

\* While transitions are applied or taken back the targets are in place.
LEMMA TargetsInPlace ==
  ASSUME PInv, NEW x \in Targets, ~Excused(x),
         cmd.stage \in {"external", "apply", "restoreQuietly", "rollback"},
         cmd.op = "deactivate" => cmd.files # <<>>
  PROVE  fs[File(x)] # Null
  BY DEF PInv, StageOK, PointerOK, Installing, Deactivating, Working

LEMMA PointersVerifyTransition ==
  ASSUME IInv, PInv, VerifyTransition
  PROVE  PInv'
<1> USE DEF historyVars, fileVars, systemVars
<1>1. /\ UNCHANGED <<fs, plan, git, svc, build, damaged, incomplete, pc, cursor, attempted>>
      /\ cmd.stage = "external" /\ cmd.at <= Len(cmd.external)
  BY DEF VerifyTransition
<1>2. Fields(cmd) /\ Len(cmd.external) \in Nat /\ cmd.at \in 1..Len(cmd.external)
  BY <1>1, Transitions DEF IInv, CommandOK, PInv, StageOK
<1>3. /\ SamePlan
      /\ \/ cmd'.stage = "apply" /\ cmd'.at = cmd.at
         \/ cmd'.stage = "rollback" /\ cmd'.at = cmd.at - 1
  BY <1>2, StageFields, StageAtFields DEF VerifyTransition, Goto, GotoAt
<1>4. RecordsOK'
  BY <1>1, <1>3, SameRecords
<1>5. StageOK'
  BY <1>1, <1>2, <1>3 DEF PInv, StageOK, SamePlan, Working
<1>6. ASSUME NEW x \in Targets, ~Excused(x)' PROVE PointerOK(x)'
  <2>1. PointerOK(x) /\ Now(x)' = Now(x)
    BY <1>1, <1>6 DEF PInv, Excused, Now
  <2>2. cmd.op # "deactivate" => Installing(x)'
    BY <1>1, <1>2, <1>3, <2>1 DEF PointerOK, Installing, SamePlan, Working, Free, Applied
  <2>3. cmd.op = "deactivate" /\ cmd.files # <<>> => Deactivating(x)'
    BY <1>1, <1>3, <2>1 DEF PointerOK, Deactivating, SamePlan, Working, Free
  <2> QED
    BY <1>1, <1>3, <2>1, <2>2, <2>3 DEF PointerOK, SamePlan
<1> QED
  BY <1>4, <1>5, <1>6 DEF PInv

\* The transition in hand moves the pointer y and no other; in whatever state
\* it leaves it, a step forward or the way back is open.
LEMMA PointerMoved ==
  ASSUME IInv, PInv, NEW y \in {"git", "service"},
         cmd.at \in 1..Len(cmd.external), Pending.kind = y,
         UNCHANGED <<fs, plan, build, damaged, incomplete, pc, cursor, attempted>>,
         \A x \in Targets : Via(x) # y => Now(x)' = Now(x),
         git' \in Original \cup {"managed"},
         SamePlan,
         \/ /\ cmd.stage = "apply" /\ cmd'.stage = "external" /\ cmd'.at = cmd.at + 1
            /\ \A x \in Targets : Via(x) = y => Now(x)' = Pending.after
         \/ /\ cmd.stage = "apply" /\ cmd'.stage = "rollback" /\ cmd'.at = cmd.at
         \/ /\ cmd.stage = "apply" /\ cmd'.stage = "restoreQuietly" /\ cmd'.at = cmd.at
            /\ cmd.op # "deactivate" /\ y = "service"
         \/ /\ cmd.stage = "restoreQuietly" /\ cmd'.stage = "external" /\ cmd'.at = cmd.at + 1
  PROVE  PInv'
<1>1. /\ Len(cmd.external) \in Nat /\ cmd.external # <<>>
      /\ Pending \in ToSet(cmd.external)
  <2>1. Len(<<>>) = 0
    OBVIOUS
  <2> QED
    BY <2>1, Transitions DEF Pending
<1>2. RecordsOK'
  BY DEF PInv, RecordsOK, SamePlan
<1>3. StageOK'
  BY <1>1 DEF PInv, StageOK, SamePlan, Working, Pending
<1>4. ASSUME NEW x \in Targets, ~Excused(x)' PROVE PointerOK(x)'
  <2>1. PointerOK(x) /\ ~Excused(x)
    BY <1>4 DEF PInv, Excused
  <2>2. cmd.op = "deactivate" => cmd.files # <<>>
    BY <1>1 DEF PInv, StageOK, Working
  <2>3. fs[File(x)] # Null
    BY <2>1, <2>2, TargetsInPlace
  <2>4. ASSUME cmd.op # "deactivate" PROVE Installing(x)'
    <3>1. Installing(x)
      BY <2>1, <2>4 DEF PointerOK, Working
    <3>2. CASE Via(x) = y
      <4>1. Free(x, 1, Applied)' => FALSE
        <5>1. cmd.at \in 1..Applied'
          BY <1>1 DEF Applied
        <5> QED
          BY <3>2, <5>1 DEF Free, Pending, SamePlan
      <4> QED
        BY <2>3, <3>1, <4>1 DEF Installing, SamePlan
    <3>3. CASE Via(x) # y
      <4>1. Free(x, 1, Applied)' => Free(x, 1, Applied)
        <5>1. 1..Applied \subseteq 1..Applied'
          BY <1>1 DEF Applied
        <5> QED
          BY <5>1 DEF Free, SamePlan
      <4> QED
        BY <2>3, <3>1, <3>3, <4>1 DEF Installing, SamePlan
    <3> QED
      BY <3>2, <3>3
  <2>5. ASSUME cmd.op = "deactivate" PROVE Deactivating(x)'
    <3>1. Deactivating(x) /\ cmd.stage = "apply"
      BY <2>1, <2>2, <2>5 DEF PointerOK, Working, PInv, StageOK
    <3>2. cmd'.stage = "external" /\ Free(x, cmd.at + 1, Len(cmd.external)) => Off(x, Now(x)')
      <4>1. CASE Via(x) = y
        BY <1>1, <3>1, <4>1 DEF Deactivating
      <4>2. CASE Via(x) # y
        <5>1. Free(x, cmd.at + 1, Len(cmd.external)) => Free(x, cmd.at, Len(cmd.external))
          <6>1. \A k \in cmd.at..Len(cmd.external) :
                    k = cmd.at \/ k \in (cmd.at + 1)..Len(cmd.external)
            BY <1>1
          <6> QED
            BY <4>2, <6>1 DEF Free, Pending
        <5> QED
          BY <3>1, <4>2, <5>1 DEF Deactivating
      <4> QED
        BY <4>1, <4>2
    <3> QED
      BY <2>3, <2>5, <3>1, <3>2 DEF Deactivating, SamePlan, Free
  <2> QED
    BY <2>3, <2>4, <2>5 DEF PointerOK, SamePlan
<1> QED
  BY <1>2, <1>3, <1>4 DEF PInv

LEMMA PointersApplied ==
  ASSUME IInv, PInv, ApplyGit \/ ApplyService \/ RestoreQuietly
  PROVE  PInv'
<1> USE DEF historyVars, fileVars
<1>1. /\ UNCHANGED <<fs, plan, build, damaged, incomplete, pc, cursor, attempted>>
      /\ cmd.stage \in {"apply", "restoreQuietly"}
  BY DEF ApplyGit, ApplyService, RestoreQuietly
<1>2. /\ Fields(cmd) /\ Len(cmd.external) \in Nat /\ cmd.at \in 1..Len(cmd.external)
      /\ TransitionOK(Pending)
      /\ git \in Original \cup {"managed"}
  BY <1>1, Transitions DEF IInv, CommandOK, PInv, StageOK, Pending, RecordsOK
<1>3. CASE ApplyGit
  <2>1. UNCHANGED svc /\ Pending.kind = "git" /\ cmd.stage = "apply"
    BY <1>3 DEF ApplyGit
  <2>2. /\ git' \in {git, Pending.after}
        /\ SamePlan
        /\ \/ cmd'.stage = "external" /\ cmd'.at = cmd.at + 1 /\ git' = Pending.after
           \/ cmd'.stage = "rollback" /\ cmd'.at = cmd.at
    <3>1. CASE git' = Pending.after /\ cmd' = [cmd EXCEPT !.stage = "external", !.at = cmd.at + 1]
      BY <1>2, <3>1, StageAtFields
    <3>2. CASE /\ git' = git \/ git' = Pending.after
               /\ cmd' = [cmd EXCEPT !.stage = "rollback"]
      BY <1>2, <3>2, StageFields
    <3> QED
      BY <1>3, <3>1, <3>2 DEF ApplyGit, Goto, GotoAt
  <2>3. git' \in Original \cup {"managed"}
    BY <1>2, <2>1, <2>2 DEF TransitionOK
  <2>4. \A x \in Targets : Now(x)' = IF Via(x) = "git" THEN git' ELSE Now(x)
    BY <2>1 DEF Now
  <2> QED
    BY <1>1, <1>2, <2>1, <2>2, <2>3, <2>4, PointerMoved
<1>4. CASE ApplyService \/ RestoreQuietly
  <2>1. UNCHANGED git /\ Pending.kind = "service"
    BY <1>4 DEF ApplyService, RestoreQuietly, PInv, StageOK
  <2>2. \A x \in Targets : Now(x)' = IF Via(x) = "service" THEN svc' ELSE Now(x)
    BY <2>1 DEF Now, Via
  <2>3. CASE ApplyService
    <3>1. /\ SamePlan /\ cmd.stage = "apply"
          /\ \/ cmd'.stage = "external" /\ cmd'.at = cmd.at + 1 /\ svc' = Pending.after
             \/ cmd'.stage = "rollback" /\ cmd'.at = cmd.at
             \/ cmd'.stage = "restoreQuietly" /\ cmd'.at = cmd.at /\ cmd.op # "deactivate"
      <4>1. CASE svc' = Pending.after /\ cmd' = [cmd EXCEPT !.stage = "external", !.at = cmd.at + 1]
        BY <1>2, <2>3, <4>1, StageAtFields DEF ApplyService
      <4>2. CASE cmd' = [cmd EXCEPT !.stage = IF cmd.op = "deactivate" THEN "rollback"
                                                                      ELSE "restoreQuietly"]
        BY <1>2, <2>3, <4>2, StageFields DEF ApplyService
      <4> QED
        BY <2>3, <4>1, <4>2 DEF ApplyService, Goto, GotoAt
    <3> QED
      BY <1>1, <1>2, <2>1, <2>2, <3>1, PointerMoved
  <2>4. CASE RestoreQuietly
    <3>1. /\ SamePlan /\ cmd.stage = "restoreQuietly"
          /\ cmd'.stage = "external" /\ cmd'.at = cmd.at + 1
      BY <1>2, <2>4 DEF RestoreQuietly, Fields, SamePlan
    <3> QED
      BY <1>1, <1>2, <2>1, <2>2, <3>1, PointerMoved
  <2> QED
    BY <1>4, <2>3, <2>4
<1> QED
  BY <1>3, <1>4

LEMMA PointersRolledBack ==
  ASSUME IInv, PInv, RollbackExternal
  PROVE  PInv'
<1>1. /\ UNCHANGED <<fs, plan, build, damaged, pc, cursor, attempted>>
      /\ cmd.stage = "rollback" /\ cmd.at > 0
      /\ incomplete => incomplete'
  <2>1. incomplete' = TRUE \/ UNCHANGED incomplete
    BY DEF RollbackExternal
  <2>2. incomplete => incomplete'
    BY <2>1
  <2> QED
    BY <2>2 DEF RollbackExternal, fileVars
<1>2. /\ Fields(cmd) /\ Len(cmd.external) \in Nat /\ cmd.at \in 1..Len(cmd.external)
      /\ TransitionOK(Pending) /\ Pending \in ToSet(cmd.external)
      /\ git \in Original \cup {"managed"}
  BY <1>1, Transitions DEF IInv, CommandOK, PInv, StageOK, Pending, RecordsOK
<1>3. SamePlan /\ cmd'.stage = "rollback" /\ cmd'.at = cmd.at - 1
  BY <1>2, StageAtFields DEF RollbackExternal, GotoAt
<1>4. /\ git' \in {git, Pending.before}
      /\ Pending.kind # "git" => UNCHANGED git
      /\ Pending.kind = "git" => UNCHANGED svc
      /\ \/ incomplete'
         \/ Pending.kind = "git" /\ git' = Pending.before
         \/ Pending.kind # "git" /\ svc' = Pending.before
  BY DEF RollbackExternal, RestoreService
<1>5. RecordsOK'
  <2>1. git' \in Original \cup {"managed"}
    BY <1>2, <1>4 DEF TransitionOK
  <2> QED
    BY <1>1, <1>3, <2>1 DEF PInv, RecordsOK, SamePlan
<1>6. StageOK'
  BY <1>1, <1>2, <1>3 DEF PInv, StageOK, SamePlan, Working
<1>7. ASSUME NEW x \in Targets, ~Excused(x)' PROVE PointerOK(x)'
  <2>1. PointerOK(x) /\ ~Excused(x) /\ ~incomplete'
    BY <1>1, <1>7 DEF PInv, Excused
  <2>2. Now(x)' = IF Pending.kind = Via(x) THEN Pending.before ELSE Now(x)
    BY <1>2, <1>4, <2>1 DEF Now, Via, Targets, TransitionOK
  <2>3. cmd.op = "deactivate" => cmd.files # <<>>
    <3>1. cmd.external # <<>>
      BY <1>2, EmptyPlan
    <3> QED
      BY <1>1, <3>1 DEF PInv, StageOK, Working
  <2>4. fs[File(x)] # Null
    BY <1>1, <2>1, <2>3, TargetsInPlace
  <2>5. ASSUME cmd.op # "deactivate" PROVE Installing(x)'
    <3>1. Installing(x)
      BY <1>1, <2>1, <2>5 DEF PointerOK, Working
    <3>2. Applied' = cmd.at - 1 /\ Applied = cmd.at
      BY <1>1, <1>3 DEF Applied
    <3>3. Pending.kind # Via(x) /\ Free(x, 1, Applied)' => Free(x, 1, Applied)
      <4>1. \A k \in 1..cmd.at : k = cmd.at \/ k \in 1..(cmd.at - 1)
        BY <1>2
      <4> QED
        BY <1>3, <3>2, <4>1 DEF Free, Pending, SamePlan
    <3>4. Moves(cmd.files, File(x)) /\ Free(x, 1, Applied)' => Off(x, Now(x)')
      BY <1>1, <1>2, <2>2, <3>1, <3>3 DEF Installing
    <3> QED
      BY <1>1, <1>3, <2>4, <3>1, <3>4 DEF Installing, SamePlan
  <2>6. ASSUME cmd.op = "deactivate" PROVE Deactivating(x)'
    <3>1. Deactivating(x)
      BY <1>1, <2>1, <2>3, <2>6 DEF PointerOK, Working
    <3> QED
      BY <1>1, <1>3, <2>4, <3>1 DEF Deactivating, SamePlan
  <2> QED
    BY <1>1, <1>3, <2>4, <2>5, <2>6 DEF PointerOK, SamePlan
<1> QED
  BY <1>5, <1>6, <1>7 DEF PInv

LEMMA PointersExternalDone ==
  ASSUME IInv, PInv, ExternalDone
  PROVE  PInv'
<1> USE DEF historyVars, fileVars, systemVars
<1>1. /\ UNCHANGED <<fs, plan, git, svc, build, damaged, incomplete, pc, cursor, attempted>>
      /\ cmd.stage = "external" /\ cmd.at > Len(cmd.external)
  BY DEF ExternalDone
<1>2. Fields(cmd) /\ Len(cmd.external) \in Nat /\ cmd.at \in Nat
  BY <1>1, Transitions DEF IInv, CommandOK, PInv, StageOK
<1>3. CASE cmd.op # "deactivate" /\ ~FirstActivation
  BY <1>1, <1>3, Ends DEF ExternalDone, Return
<1>4. CASE cmd.op # "deactivate" /\ FirstActivation
  <2>1. SamePlan /\ cmd'.stage = "writeConfig"
    <3>1. cmd' = [cmd EXCEPT !.stage = "writeConfig"]
      BY <1>4 DEF ExternalDone, Goto
    <3> QED
      BY <1>2, <3>1, StageFields
  <2>2. "writeConfig" \notin Working
    BY DEF Working
  <2> QED
    BY <1>1, <1>4, <2>1, <2>2, Rests DEF SamePlan
<1>5. CASE cmd.op = "deactivate"
  <2>1. SamePlan /\ cmd'.stage = "execute"
    <3>1. cmd' = [cmd EXCEPT !.stage = "execute"]
      BY <1>5 DEF ExternalDone, FirstActivation, Goto
    <3> QED
      BY <1>2, <3>1, StageFields
  <2>2. RecordsOK'
    BY <1>1, <2>1, SameRecords
  <2>3. StageOK'
    BY <1>1, <2>1 DEF PInv, StageOK, SamePlan, Working
  <2>4. ASSUME NEW x \in Targets, ~Excused(x)' PROVE PointerOK(x)'
    <3>1. PointerOK(x) /\ Now(x)' = Now(x)
      BY <1>1, <2>4 DEF PInv, Excused, Now
    <3>2. ASSUME cmd.files # <<>> PROVE Deactivating(x)'
      <4>1. Deactivating(x)
        BY <1>1, <1>5, <3>1, <3>2 DEF PointerOK, Working
      <4>2. Free(x, cmd.at, Len(cmd.external))
        BY <1>1, <1>2 DEF Free
      <4> QED
        BY <1>1, <2>1, <3>1, <4>1, <4>2 DEF Deactivating, SamePlan
    <3> QED
      BY <1>1, <1>5, <2>1, <3>1, <3>2 DEF PointerOK, SamePlan
  <2> QED
    BY <2>2, <2>3, <2>4 DEF PInv
<1> QED
  BY <1>3, <1>4, <1>5

LEMMA InverseFacts ==
  ASSUME NEW q, PlanOK(q), Copies(q)
  PROVE  /\ Copies(Invert(q))
         /\ \A p : Moves(Invert(q), p) => Moves(q, p)
<1>1. ASSUME NEW d \in ToSet(Invert(q))
      PROVE  /\ CopyOK(d)
             /\ \A p : d.path = p /\ (d.before = Null \/ d.after = Null) => Moves(q, p)
  <2>1. PICK c \in ToSet(q) : d = Change(c.path, c.after, c.before)
    BY InverseChanges DEF PlanOK
  <2>2. d.path = c.path /\ d.before = c.after /\ d.after = c.before
    BY <2>1 DEF Change
  <2>3. CopyOK(c)
    BY DEF Copies
  <2> QED
    BY <2>2, <2>3 DEF CopyOK, Moves
<1> QED
  BY <1>1 DEF Copies, Moves

LEMMA PointersInverted ==
  ASSUME IInv, PInv, InvertFiles
  PROVE  PInv'
<1> USE DEF historyVars, systemVars
<1>1. /\ UNCHANGED <<fs, git, svc, build, damaged, incomplete>>
      /\ plan' = Invert(cmd.files)
      /\ cmd.stage = "rollback" /\ cmd.at = 0 /\ cmd.op # "deactivate"
      /\ cmd' = [cmd EXCEPT !.stage = "invert"]
  BY DEF InvertFiles, Files!Execute, Goto
<1>2. SamePlan /\ cmd'.stage = "invert"
  BY <1>1, StageFields DEF IInv, CommandOK
<1>3. Copies(plan') /\ \A p : Moves(plan', p) => Moves(cmd.files, p)
  <2>1. PlanOK(cmd.files) /\ Copies(cmd.files)
    BY DEF IInv, CommandOK, PInv, RecordsOK
  <2> QED
    BY <1>1, <2>1, InverseFacts
<1>4. RecordsOK'
  BY <1>1, <1>2, <1>3 DEF PInv, RecordsOK, SamePlan
<1>5. StageOK'
  BY <1>1, <1>2 DEF PInv, StageOK, SamePlan, Working
<1>6. ASSUME NEW x \in Targets, ~Excused(x)' PROVE PointerOK(x)'
  <2>1. PointerOK(x) /\ Now(x)' = Now(x)
    BY <1>1, <1>6 DEF PInv, Excused, Now
  <2>2. Installing(x)
    BY <1>1, <2>1 DEF PointerOK, Working
  <2>3. Free(x, 1, Applied)
    BY <1>1 DEF Free, Applied
  <2>4. Moves(plan', File(x)) => Off(x, Now(x))
    BY <1>1, <1>3, <2>2, <2>3 DEF Installing
  <2>5. Installing(x)'
    BY <1>1, <1>2, <2>2 DEF Installing, SamePlan
  <2> QED
    BY <1>1, <1>2, <2>1, <2>4, <2>5 DEF PointerOK, SamePlan
<1> QED
  BY <1>4, <1>5, <1>6 DEF PInv

LEMMA PointersEnded ==
  ASSUME IInv, PInv, RolledBack
  PROVE  PInv'
<1> USE DEF fileVars, systemVars
<1>1. UNCHANGED <<fs, plan, git, svc, build, damaged>>
  BY DEF RolledBack
<1>2. incomplete => incomplete'
  BY DEF RolledBack
<1>3. cmd' = IF cmd.undo THEN [cmd EXCEPT !.stage = "restoreConfig"] ELSE Idle(cmd.op, "failed")
  BY DEF RolledBack
<1> QED
  BY <1>1, <1>2, <1>3, Ends
-----------------------------------------------------------------------------
(* The file transaction and the targets *)

\* One step of the file transaction: it writes at most the change in hand.
LEMMA FileStepFacts ==
  ASSUME IInv, FileStep
  PROVE  /\ UNCHANGED <<plan, cmd, git, svc, build, damaged>>
         /\ Len(plan) \in Nat /\ DOMAIN plan = 1..Len(plan)
         /\ \/ fs' = fs
            \/ /\ pc \in {"apply", "rollback"} /\ cursor \in 1..attempted
               /\ \E v \in {plan[cursor].before, plan[cursor].after} :
                     fs' = [fs EXCEPT ![plan[cursor].path] = v]
         /\ pc' = "done" => attempted' = Len(plan)
<1>1. UNCHANGED <<cmd, git, svc, build, damaged>> /\ Files!Step
  BY DEF FileStep, systemVars
<1>2. plan' = plan
  BY <1>1 DEF Files!Step, Files!Validate, Files!BeginApplying, Files!CheckAgain, Files!Apply,
              Files!Complete, Files!Restore, Files!Throw
<1>3. Len(plan) \in Nat /\ DOMAIN plan = 1..Len(plan)
  BY SeqOfItsOwn DEF IInv, PlanOK
<1>4. CursorOK
  BY DEF IInv
<1>5. \/ fs' = fs
      \/ /\ pc \in {"apply", "rollback"} /\ cursor \in 1..attempted
         /\ \E v \in {plan[cursor].before, plan[cursor].after} :
               fs' = [fs EXCEPT ![plan[cursor].path] = v]
  <2>1. CASE Files!Apply
    BY <1>3, <1>4, <2>1 DEF Files!Apply, CursorOK
  <2>2. CASE Files!Restore
    BY <1>3, <1>4, <2>2 DEF Files!Restore, CursorOK
  <2>3. CASE Files!Validate \/ Files!BeginApplying \/ Files!CheckAgain \/ Files!Complete
             \/ Files!Throw
    BY <2>3 DEF Files!Validate, Files!BeginApplying, Files!CheckAgain, Files!Complete, Files!Throw
  <2> QED
    BY <1>1, <2>1, <2>2, <2>3 DEF Files!Step
<1>6. ASSUME pc' = "done" PROVE attempted' = Len(plan)
  <2>1. attempted' = attempted /\ pc = "check" /\ cursor > Len(plan)
    BY <1>1, <1>6 DEF Files!Step, Files!Validate, Files!BeginApplying, Files!CheckAgain,
              Files!Apply, Files!Complete, Files!Restore, Files!Throw
  <2>2. attempted \in 0..Len(plan) /\ cursor = attempted + 1
    BY <1>4, <2>1 DEF CursorOK
  <2>3. Len(plan) \in Nat
    BY <1>3
  <2>4. attempted = Len(plan)
    BY <2>1, <2>2, <2>3
  <2> QED
    BY <2>1, <2>4
<1> QED
  BY <1>1, <1>2, <1>3, <1>5, <1>6

LEMMA RecordsWritten ==
  ASSUME IInv, PInv, FileStep
  PROVE  RecordsOK'
<1>1. /\ UNCHANGED <<plan, cmd, git, svc, build, damaged>>
      /\ Len(plan) \in Nat /\ DOMAIN plan = 1..Len(plan)
      /\ \/ fs' = fs
         \/ /\ pc \in {"apply", "rollback"} /\ cursor \in 1..attempted
            /\ \E v \in {plan[cursor].before, plan[cursor].after} :
                  fs' = [fs EXCEPT ![plan[cursor].path] = v]
  BY FileStepFacts
<1>2. CASE fs' = fs
  BY <1>1, <1>2 DEF PInv, RecordsOK
<1>3. CASE fs' # fs
  <2>1. PICK v \in {plan[cursor].before, plan[cursor].after} :
            fs' = [fs EXCEPT ![plan[cursor].path] = v]
    BY <1>1, <1>3
  <2> DEFINE c == plan[cursor]
  <2>2. CopyOK(c)
    <3>1. cursor \in DOMAIN plan
      BY <1>1, <1>3 DEF IInv, CursorOK
    <3> QED
      BY <3>1 DEF PInv, RecordsOK, Copies, ToSet
  <2> HIDE DEF c
  <2>3. \A p \in Paths : fs'[p] = IF p = c.path THEN v ELSE fs[p]
    BY <2>1 DEF IInv, FilesOK, c
  <2>4. v \in {c.before, c.after}
    BY DEF c
  <2>5. {"state", "replica", "manifest"} \subseteq Paths
    BY DEF Paths
  <2> QED
    BY <1>1, <2>2, <2>3, <2>4, <2>5 DEF PInv, RecordsOK, CopyOK
<1> QED
  BY <1>2, <1>3

\* A plan that neither makes nor removes p leaves it in place.
LEMMA TargetKept ==
  ASSUME IInv, FileStep, NEW p \in Paths, fs[p] # Null, ~Moves(plan, p)
  PROVE  fs'[p] # Null
<1>1. /\ Len(plan) \in Nat /\ DOMAIN plan = 1..Len(plan)
      /\ \/ fs' = fs
         \/ /\ pc \in {"apply", "rollback"} /\ cursor \in 1..attempted
            /\ \E v \in {plan[cursor].before, plan[cursor].after} :
                  fs' = [fs EXCEPT ![plan[cursor].path] = v]
  BY FileStepFacts
<1>2. CASE fs' # fs
  <2>1. PICK v \in {plan[cursor].before, plan[cursor].after} :
            fs' = [fs EXCEPT ![plan[cursor].path] = v]
    BY <1>1, <1>2
  <2>2. plan[cursor] \in ToSet(plan)
    <3>1. cursor \in DOMAIN plan
      BY <1>1, <1>2 DEF IInv, CursorOK
    <3> QED
      BY <3>1 DEF ToSet
  <2>3. fs'[p] = IF p = plan[cursor].path THEN v ELSE fs[p]
    BY <2>1 DEF IInv, FilesOK
  <2> QED
    BY <2>2, <2>3 DEF Moves
<1> QED
  BY <1>2

LEMMA InstallingFiles ==
  ASSUME IInv, PInv, FileStep, NEW x \in Targets, ~Excused(x)', PointerOK(x),
         cmd.op # "deactivate"
  PROVE  Installing(x)'
<1>1. /\ UNCHANGED <<plan, cmd, git, svc, build, damaged>>
      /\ Len(plan) \in Nat /\ DOMAIN plan = 1..Len(plan)
  BY FileStepFacts
<1>2. /\ cmd.stage \in {"files", "invert"} /\ Files!Step
  BY DEF FileStep
<1>3. Installing(x) /\ Now(x)' = Now(x) /\ File(x) \in Paths
  BY <1>1, <1>2, TargetFiles DEF PointerOK, Working, Now
<1>4. CASE cmd.stage = "invert"
  BY <1>1, <1>3, <1>4 DEF Installing
<1>5. CASE cmd.stage = "files"
  <2>1. plan = cmd.files /\ CursorOK /\ DOMAIN fs = Paths
    BY <1>5 DEF PInv, StageOK, IInv, FilesOK
  <2>2. ~Moves(cmd.files, File(x)) => fs'[File(x)] # Null
    BY <1>3, <1>5, <2>1, TargetKept DEF Installing
  <2>3. ASSUME pc' \in {"check", "apply", "done"}, NEW k \in 1..attempted', plan[k].path = File(x)
        PROVE  fs'[File(x)] # Null \/ (pc' = "apply" /\ k = cursor')
    <3> DEFINE Kept0 == \A j \in 1..attempted :
                  plan[j].path = File(x) => fs[File(x)] # Null \/ (pc = "apply" /\ j = cursor)
    <3>1. pc \in {"check", "apply", "done"} => Kept0
      BY <1>3, <1>5 DEF Installing
    <3>2. CASE Files!BeginApplying \/ Files!Validate
      BY <1>1, <2>1, <2>3, <3>2 DEF Files!BeginApplying, Files!Validate, CursorOK
    <3>3. CASE Files!CheckAgain
      <4>1. fs' = fs /\ attempted' = cursor /\ cursor' = cursor /\ pc' = "apply" /\ pc = "check"
        BY <2>3, <3>3 DEF Files!CheckAgain
      <4>2. k = cursor \/ k \in 1..attempted
        BY <1>1, <2>1, <2>3, <4>1 DEF CursorOK
      <4> QED
        BY <2>3, <3>1, <4>1, <4>2
    <3>4. CASE Files!Apply
      <4>1. /\ attempted' = attempted /\ pc = "apply" /\ cursor \in 1..Len(plan)
            /\ attempted = cursor
            /\ fs' = [fs EXCEPT ![plan[cursor].path] = plan[cursor].after]
        BY <2>1, <2>3, <3>4 DEF Files!Apply, CursorOK
      <4>2. plan[cursor] \in ToSet(cmd.files)
        BY <1>1, <2>1, <4>1 DEF ToSet
      <4>3. plan[cursor].path = File(x) => plan[cursor].after # Null
        BY <1>3, <4>2 DEF Installing
      <4>4. fs'[File(x)] = IF plan[cursor].path = File(x) THEN plan[cursor].after ELSE fs[File(x)]
        BY <1>3, <2>1, <4>1
      <4>5. plan[cursor].path = File(x) \/ fs[File(x)] # Null
        BY <2>3, <3>1, <4>1
      <4> QED
        BY <4>3, <4>4, <4>5
    <3>5. CASE Files!Complete
      BY <2>3, <3>1, <3>5 DEF Files!Complete
    <3>6. CASE Files!Restore \/ Files!Throw
      BY <2>3, <3>6 DEF Files!Restore, Files!Throw
    <3> QED
      BY <1>2, <3>2, <3>3, <3>4, <3>5, <3>6 DEF Files!Step
  <2> QED
    BY <1>1, <1>3, <1>5, <2>2, <2>3 DEF Installing
<1> QED
  BY <1>2, <1>4, <1>5

LEMMA RemovingFiles ==
  ASSUME IInv, PInv, FileStep, NEW x \in Targets, ~Excused(x)', PointerOK(x),
         cmd.op = "deactivate", cmd.files # <<>>
  PROVE  Deactivating(x)'
<1>1. /\ UNCHANGED <<plan, cmd, git, svc, build, damaged>>
      /\ Len(plan) \in Nat /\ DOMAIN plan = 1..Len(plan)
  BY FileStepFacts
<1>2. /\ cmd.stage \in {"files", "invert"} /\ Files!Step
  BY DEF FileStep
<1>3. Deactivating(x) /\ Now(x)' = Now(x) /\ File(x) \in Paths
  BY <1>1, <1>2, TargetFiles DEF PointerOK, Working, Now
<1>4. CASE cmd.stage = "invert"
  BY <1>1, <1>3, <1>4 DEF Deactivating
<1>5. CASE cmd.stage = "files"
  <2>1. plan = cmd.files /\ CursorOK /\ DOMAIN fs = Paths
    BY <1>5 DEF PInv, StageOK, IInv, FilesOK
  <2>2. rollbackErrors' # TRUE
    <3>1. incomplete' = (incomplete \/ rollbackErrors')
      BY DEF FileStep
    <3>2. ~incomplete'
      BY DEF Excused
    <3> QED
      BY <3>1, <3>2
  <2>3. fs[File(x)] # Null \/ \E k \in Removed : plan[k].path = File(x)
    BY <1>3, <1>5 DEF Deactivating
  <2>4. fs'[File(x)] # Null \/ \E k \in Removed' : plan[k].path = File(x)
    <3>1. CASE Files!Validate \/ Files!BeginApplying
      <4>1. fs' = fs /\ pc = "validate"
        BY <3>1 DEF Files!Validate, Files!BeginApplying
      <4>2. Removed = {}
        BY <2>1, <4>1 DEF Removed, CursorOK
      <4> QED
        BY <2>3, <4>1, <4>2
    <3>2. CASE Files!CheckAgain
      <4>1. /\ fs' = fs /\ pc = "check"
            /\ \/ pc' = "apply" /\ attempted' = cursor
               \/ pc' = "rollback" /\ cursor' = attempted
        BY <3>2 DEF Files!CheckAgain
      <4>2. Removed \subseteq Removed'
        BY <2>1, <4>1 DEF Removed, CursorOK
      <4> QED
        BY <2>3, <4>1, <4>2
    <3>3. CASE Files!Apply
      <4>1. /\ pc = "apply" /\ attempted' = attempted /\ attempted = cursor
            /\ cursor \in 1..Len(plan)
            /\ \/ pc' = "check"
               \/ pc' = "rollback" /\ cursor' = attempted
        BY <2>1, <3>3 DEF Files!Apply, CursorOK
      <4>2. Removed' = 1..attempted /\ Removed = 1..attempted /\ cursor \in 1..attempted
        BY <1>1, <4>1 DEF Removed
      <4>3. CASE fs' = fs
        BY <2>3, <4>2, <4>3
      <4>4. CASE fs' # fs
        <5>1. PICK v : fs' = [fs EXCEPT ![plan[cursor].path] = v]
          BY <4>4, FileStepFacts
        <5> QED
          BY <1>3, <2>1, <2>3, <4>2, <5>1
      <4> QED
        BY <4>3, <4>4
    <3>4. CASE Files!Complete
      <4>1. fs' = fs /\ Removed' = Removed
        BY <3>4 DEF Files!Complete, Removed
      <4> QED
        BY <2>3, <4>1
    <3>5. CASE Files!Restore
      <4>1. /\ pc = "rollback" /\ pc' = pc /\ cursor' = cursor - 1
            /\ cursor \in 1..attempted /\ attempted \in 0..Len(plan)
            /\ fs' = [fs EXCEPT ![plan[cursor].path] = plan[cursor].before]
        <5>1. /\ pc = "rollback" /\ pc' = pc /\ cursor' = cursor - 1 /\ cursor > 0
              /\ \/ fs' = [fs EXCEPT ![plan[cursor].path] = plan[cursor].before]
                 \/ rollbackErrors' = TRUE
          BY <3>5 DEF Files!Restore
        <5>2. cursor \in Nat /\ attempted \in 0..Len(plan) /\ cursor <= attempted
          BY <2>1, <5>1 DEF CursorOK
        <5>3. cursor \in 1..attempted
          BY <1>1, <5>1, <5>2
        <5> QED
          BY <2>2, <5>1, <5>2, <5>3
      <4>2. plan[cursor] \in ToSet(cmd.files)
        <5>1. cursor \in DOMAIN plan
          BY <1>1, <4>1
        <5> QED
          BY <2>1, <5>1 DEF ToSet
      <4>3. CASE plan[cursor].path = File(x)
        BY <1>3, <2>1, <4>1, <4>2, <4>3 DEF Deactivating
      <4>4. CASE plan[cursor].path # File(x)
        <5>1. fs'[File(x)] = fs[File(x)]
          BY <1>3, <2>1, <4>1, <4>4
        <5>2. Removed = 1..cursor /\ Removed' = 1..(cursor - 1)
          BY <4>1 DEF Removed
        <5>3. \A k \in 1..cursor : k = cursor \/ k \in 1..(cursor - 1)
          BY <4>1
        <5> QED
          BY <2>3, <4>4, <5>1, <5>2, <5>3
      <4> QED
        BY <4>3, <4>4
    <3>6. CASE Files!Throw
      <4>1. fs' = fs /\ Removed = {}
        BY <3>6 DEF Files!Throw, Removed
      <4> QED
        BY <2>3, <4>1
    <3> QED
      BY <1>2, <3>1, <3>2, <3>3, <3>4, <3>5, <3>6 DEF Files!Step
  <2> QED
    BY <1>1, <1>3, <1>5, <2>4 DEF Deactivating
<1> QED
  BY <1>2, <1>4, <1>5

LEMMA PointersFileStep ==
  ASSUME IInv, PInv, FileStep
  PROVE  PInv'
<1>1. /\ UNCHANGED <<plan, cmd, git, svc, build, damaged>>
      /\ pc' = "done" => attempted' = Len(plan)
  BY FileStepFacts
<1>2. cmd.stage \in {"files", "invert"}
  BY DEF FileStep
<1>3. RecordsOK'
  BY RecordsWritten
<1>4. StageOK'
  BY <1>1, <1>2 DEF PInv, StageOK
<1>5. ASSUME NEW x \in Targets, ~Excused(x)' PROVE PointerOK(x)'
  <2>1. incomplete => incomplete'
    BY DEF FileStep
  <2>2. PointerOK(x) /\ Now(x)' = Now(x)
    BY <1>1, <1>5, <2>1 DEF PInv, Excused, Now
  <2>3. Off(x, Now(x)) \/ fs'[File(x)] # Null
    <3>1. File(x) \in Paths
      BY TargetFiles
    <3> QED
      BY <1>2, <2>2, <3>1, TargetKept DEF PointerOK
  <2>4. cmd.op # "deactivate" => Installing(x)'
    BY <1>5, <2>2, InstallingFiles
  <2>5. cmd.op = "deactivate" /\ cmd.files # <<>> => Deactivating(x)'
    BY <1>5, <2>2, RemovingFiles
  <2> QED
    BY <1>1, <1>2, <2>2, <2>3, <2>4, <2>5 DEF PointerOK
<1> QED
  BY <1>3, <1>4, <1>5 DEF PInv
-----------------------------------------------------------------------------
(* The ends of a command, and the environment *)

LEMMA PointersControlPlane ==
  ASSUME IInv, PInv, Finish \/ RestoreControlPlane
  PROVE  PInv'
<1> USE DEF historyVars, fileVars, systemVars
<1>1. UNCHANGED <<plan, git, svc, build, damaged>> /\ Fields(cmd)
  BY DEF Finish, RestoreControlPlane, IInv, CommandOK
<1>2. incomplete => incomplete'
  BY DEF Finish, RestoreControlPlane
<1>3. \A p \in {"state", "replica", "manifest", "hook", "desc"} : fs'[p] = fs[p]
  <2>1. fs' = fs \/ \E v : \E p \in {"config", "baseline"} : fs' = [fs EXCEPT ![p] = v]
    BY DEF Finish, RestoreControlPlane
  <2> QED
    BY <2>1 DEF IInv, FilesOK, Paths
<1>4. \/ \E stage \in {"writeBaseline", "undo", "restoreBaseline"} :
            /\ cmd' = [cmd EXCEPT !.stage = stage]
            /\ stage = "writeBaseline" => cmd.op # "deactivate"
      \/ cmd' = Idle(cmd.op, "ok") /\ cmd.op # "deactivate"
      \/ cmd' = Idle("activate", "failed")
  BY DEF Finish, RestoreControlPlane, Goto, PInv, StageOK
<1>5. ASSUME NEW stage \in {"writeBaseline", "undo", "restoreBaseline"},
             cmd' = [cmd EXCEPT !.stage = stage],
             stage = "writeBaseline" => cmd.op # "deactivate"
      PROVE  PInv'
  <2>1. SamePlan /\ cmd'.stage = stage
    BY <1>1, <1>5, StageFields
  <2>2. stage \notin Working
    BY DEF Working
  <2> QED
    BY <1>1, <1>2, <1>3, <1>5, <2>1, <2>2, Rests DEF SamePlan
<1>6. ASSUME NEW op, NEW r, cmd' = Idle(op, r), op # "deactivate" PROVE PInv'
  <2>1. /\ cmd'.stage = "idle" /\ cmd'.op = op
        /\ cmd'.files = <<>> /\ cmd'.external = <<>>
    BY <1>6, IdleFields
  <2>2. "idle" \notin Working
    BY DEF Working
  <2> QED
    BY <1>1, <1>2, <1>3, <1>6, <2>1, <2>2, Rests
<1> QED
  BY <1>4, <1>5, <1>6

LEMMA PointersPurged ==
  ASSUME IInv, PInv, Purge
  PROVE  PInv'
<1> USE DEF historyVars, fileVars
<1>1. /\ UNCHANGED <<plan, git, svc, build, damaged, incomplete>>
      /\ cmd.stage = "idle" /\ cmd.op = "deactivate" /\ cmd.result = "ok"
      /\ cmd' = Idle("deactivate", "purged")
      /\ fs' = [p \in Paths |-> IF p \in StateDir THEN Null ELSE fs[p]]
  BY DEF Purge
<1>2. /\ cmd'.stage = "idle" /\ cmd'.result = "purged"
      /\ cmd'.files = <<>> /\ cmd'.external = <<>>
  BY <1>1, IdleFields
<1>3. RecordsOK'
  <2>1. \A p \in {"state", "replica", "manifest"} : fs'[p] = Null
    BY <1>1 DEF Paths, StateDir
  <2> QED
    BY <1>1, <1>2, <2>1, EmptyPlan, NothingRecorded DEF PInv, RecordsOK
<1>4. StageOK'
  BY <1>2 DEF StageOK, Working
<1>5. ASSUME NEW x \in Targets, ~Excused(x)' PROVE PointerOK(x)'
  <2>1. Off(x, Now(x)) /\ Now(x)' = Now(x)
    BY <1>1, <1>5 DEF PInv, PointerOK, Excused, Now
  <2> QED
    BY <1>2, <2>1 DEF PointerOK, Working
<1> QED
  BY <1>3, <1>4, <1>5 DEF PInv

\* A command that outside events leave where it is.
Stands == SamePlan /\ cmd'.stage = cmd.stage /\ cmd'.at = cmd.at

LEMMA HarmStands ==
  ASSUME IInv, NEW y, Harm(y)
  PROVE  Stands
<1>1. cmd' = cmd \/ cmd' = [cmd EXCEPT !.harmed = cmd.harmed \cup {y}]
  BY DEF Harm
<1>2. Fields(cmd)
  BY DEF IInv, CommandOK
<1> QED
  BY <1>1, <1>2 DEF Fields, Stands, SamePlan

LEMMA PointersFromOutside ==
  ASSUME PInv, Stands, UNCHANGED <<plan, pc, cursor, attempted, build, incomplete>>,
         damaged \subseteq damaged', git' \in Original \cup {"managed"},
         StateOK(fs'["state"]), StateOK(fs'["replica"]), Recorded(fs'["manifest"]),
         \A x \in Targets :
            \/ Excused(x)'
            \/ /\ Off(x, Now(x)) => Off(x, Now(x)')
               /\ fs[File(x)] # Null => fs'[File(x)] # Null
  PROVE  PInv'
<1> USE DEF Stands
<1>1. RecordsOK'
  BY DEF PInv, RecordsOK, SamePlan
<1>2. StageOK'
  BY DEF PInv, StageOK, SamePlan, Pending
<1>3. ASSUME NEW x \in Targets, ~Excused(x)' PROVE PointerOK(x)'
  <2>1. /\ PointerOK(x)
        /\ Off(x, Now(x)) => Off(x, Now(x)')
        /\ fs[File(x)] # Null => fs'[File(x)] # Null
    <3>1. ~Excused(x)
      BY <1>3 DEF Excused
    <3> QED
      BY <1>3, <3>1 DEF PInv
  <2>2. Installing(x) => Installing(x)'
    <3>1. Free(x, 1, Applied)' <=> Free(x, 1, Applied)
      BY DEF Free, Applied, SamePlan
    <3> QED
      BY <2>1, <3>1 DEF Installing, SamePlan
  <2>3. Deactivating(x) => Deactivating(x)'
    <3>1. Free(x, cmd.at, Len(cmd.external))' <=> Free(x, cmd.at, Len(cmd.external))
      BY DEF Free, SamePlan
    <3>2. Removed' = Removed
      BY DEF Removed
    <3> QED
      BY <2>1, <3>1, <3>2 DEF Deactivating, SamePlan
  <2> QED
    BY <2>1, <2>2, <2>3 DEF PointerOK, SamePlan
<1> QED
  BY <1>1, <1>2, <1>3 DEF PInv

LEMMA PointersEdited ==
  ASSUME IInv, PInv, NEW p \in Shared, NEW content \in UserContents, EditShared(p, content)
  PROVE  PInv'
<1>1. p \in Paths /\ p \in {"profile", "settings"}
  BY SharedPaths DEF Paths
<1>2. PICK v \in {content, Merged(content)} : Write(p, v)
  BY DEF EditShared
<1>3. fs' = [fs EXCEPT ![p] = v] /\ UNCHANGED <<plan, pc, cursor, attempted>>
  BY <1>1, <1>2, WriteFrame
<1>4. UNCHANGED <<git, svc, build, damaged, incomplete>> /\ Harm(p)
  BY DEF EditShared, systemVars
<1>5. \A q \in {"state", "replica", "manifest", "hook", "desc"} : fs'[q] = fs[q]
  BY <1>1, <1>3 DEF IInv, FilesOK, Paths
<1>6. \A x \in Targets : Now(x)' = Now(x) /\ fs'[File(x)] = fs[File(x)]
  BY <1>4, <1>5, TargetFiles DEF Now
<1>7. Stands
  BY <1>4, HarmStands
<1> QED
  BY <1>3, <1>4, <1>5, <1>6, <1>7, PointersFromOutside DEF PInv, RecordsOK

LEMMA PointersDamaged ==
  ASSUME IInv, PInv, NEW p \in Fragile, NEW content \in UserContents \cup {Null},
         Damage(p, content)
  PROVE  PInv'
<1>1. p \in Paths /\ content \in Plain
  BY FragileAssumption DEF Paths, Artifacts, Backups, Plain
<1>2. /\ UNCHANGED <<git, svc, build, incomplete>> /\ damaged' = damaged \cup {p}
      /\ Write(p, content) /\ Harm(p)
  BY DEF Damage, systemVars
<1>3. fs' = [fs EXCEPT ![p] = content] /\ UNCHANGED <<plan, pc, cursor, attempted>>
  BY <1>1, <1>2, WriteFrame
<1>4. \A q \in {"state", "replica", "manifest", "hook", "desc"} :
          fs'[q] = IF q = p THEN content ELSE fs[q]
  BY <1>1, <1>3 DEF IInv, FilesOK, Paths
<1>5. StateOK(content) /\ Recorded(content)
  BY <1>1, UserContentIsNoRecord
<1>6. StateOK(fs'["state"]) /\ StateOK(fs'["replica"]) /\ Recorded(fs'["manifest"])
  BY <1>4, <1>5 DEF PInv, RecordsOK
<1>7. \A x \in Targets : Excused(x)' \/ (Now(x)' = Now(x) /\ fs'[File(x)] = fs[File(x)])
  BY <1>2, <1>4, TargetFiles DEF Now, Excused
<1>8. Stands
  BY <1>2, HarmStands
<1> QED
  BY <1>2, <1>3, <1>6, <1>7, <1>8, PointersFromOutside DEF PInv, RecordsOK

LEMMA PointersOutside ==
  ASSUME IInv, PInv, (\E h \in HooksPaths \cup {Null} : SetHooksPath(h)) \/ ServiceStops
  PROVE  PInv'
<1> USE DEF historyVars, fileVars
<1>1. /\ UNCHANGED <<fs, plan, pc, cursor, attempted, build, damaged, incomplete>>
      /\ \E y : Harm(y)
  BY DEF SetHooksPath, ServiceStops
<1>2. \/ git' \in Original /\ svc' = svc
      \/ git' = git /\ svc = "active"
  BY DEF SetHooksPath, ServiceStops, Original
<1>3. \A x \in Targets : Off(x, Now(x)) => Off(x, Now(x)')
  BY <1>2, OwnHooksPaths DEF Targets, Off, Now, Original
<1>4. git' \in Original \cup {"managed"}
  BY <1>2 DEF PInv, RecordsOK
<1>5. Stands
  BY <1>1, HarmStands
<1> QED
  BY <1>1, <1>3, <1>4, <1>5, PointersFromOutside DEF PInv, RecordsOK

LEMMA DaemonStands ==
  ASSUME IInv, Announce \/ HandOver
  PROVE  Stands
<1>1. CASE UNCHANGED cmd
  BY <1>1 DEF Stands, SamePlan
<1> QED
  BY <1>1, DaemonFrame, HarmStands

LEMMA PointersHeard ==
  ASSUME IInv, PInv, Announce \/ HandOver
  PROVE  PInv'
<1>1. /\ UNCHANGED <<fs, plan, pc, cursor, attempted, git, svc, build, damaged, incomplete>>
      /\ Stands
  BY DaemonFrame, DaemonStands DEF fileVars, historyVars
<1>2. \A x \in Targets : Now(x)' = Now(x)
  BY <1>1 DEF Now
<1> QED
  BY <1>1, <1>2, PointersFromOutside DEF PInv, RecordsOK

LEMMA PointersInterrupted ==
  ASSUME IInv, PInv, Upgrade \/ Crash
  PROVE  PInv'
<1> USE DEF historyVars, fileVars, systemVars
<1>1. /\ UNCHANGED <<fs, plan, git, svc, damaged, incomplete>> /\ build' \in {build, 2}
  BY DEF Upgrade, Crash, Files!Crash
<1>2. \E op : \E r \in {"none", "crashed"} : cmd' = Idle(op, r)
  BY DEF Upgrade, Crash
<1>3. /\ cmd'.stage = "idle" /\ cmd'.result # "ok"
      /\ cmd'.files = <<>> /\ cmd'.external = <<>>
  BY <1>2, IdleFields
<1>4. "idle" \notin Working
  BY DEF Working
<1> QED
  BY <1>1, <1>3, <1>4, Rests

LEMMA InitPInv == Init => PInv
<1> SUFFICES ASSUME Init PROVE PInv
  OBVIOUS
<1>1. PICK s, q \in Originals :
        fs = [p \in Paths |-> CASE p = "settings" -> s [] p = "profile" -> q [] OTHER -> Null]
  BY DEF Init
<1>2. \A p \in {"state", "replica", "manifest"} : fs[p] = Null
  BY <1>1 DEF Paths
<1>3. /\ plan = <<>> /\ git \in Original /\ svc = "absent" /\ build = 1
      /\ cmd = Idle("none", "none")
  BY DEF Init, Original
<1>4. /\ cmd.stage = "idle" /\ cmd.op = "none"
      /\ cmd.files = <<>> /\ cmd.external = <<>>
  BY <1>3 DEF Idle
<1>5. RecordsOK
  BY <1>2, <1>3, <1>4, EmptyPlan, NothingRecorded DEF RecordsOK, Build
<1>6. StageOK
  BY <1>4 DEF StageOK, Working
<1>7. ASSUME NEW x \in Targets PROVE PointerOK(x)
  <2>1. Off(x, Now(x))
    BY <1>3, OwnHooksPaths DEF Off, Now, Targets, Original
  <2> QED
    BY <1>4, <2>1 DEF PointerOK, Working
<1> QED
  BY <1>5, <1>6, <1>7 DEF PInv

LEMMA NextPInv == IInv /\ PInv /\ [Next]_vars => PInv'
<1> SUFFICES ASSUME IInv, PInv, [Next]_vars PROVE PInv'
  OBVIOUS
<1>1. CASE (\E op \in Operations : Plan(op)) \/ Confirm \/ Decline
  BY <1>1, PointersPlanned
<1>2. CASE Step
  <2>1. CASE Verify \/ BeginFiles \/ FilesDone \/ FilesFailed
    BY <2>1, PointersVerified, PointersBegin, PointersFilesDone
  <2>2. CASE FileStep
    BY <2>2, PointersFileStep
  <2>3. CASE VerifyTransition \/ ApplyGit \/ ApplyService \/ RestoreQuietly \/ ExternalDone
    BY <2>3, PointersVerifyTransition, PointersApplied, PointersExternalDone
  <2>4. CASE RollbackExternal \/ InvertFiles \/ RolledBack
    BY <2>4, PointersRolledBack, PointersInverted, PointersEnded
  <2>5. CASE Finish \/ Undo \/ RestoreControlPlane
    BY <2>5, PointersControlPlane, PointersPlanned
  <2> QED
    BY <1>2, <2>1, <2>2, <2>3, <2>4, <2>5 DEF Step
<1>3. CASE Purge
  BY <1>3, PointersPurged
<1>4. ASSUME NEW p \in ToSet(SharedIds), NEW c \in UserContents, EditShared(p, c) PROVE PInv'
  BY <1>4, PointersEdited DEF Shared
<1>5. CASE (\E h \in HooksPaths \cup {Null} : SetHooksPath(h)) \/ ServiceStops
  BY <1>5, PointersOutside
<1>6. ASSUME NEW p \in Fragile, NEW c \in UserContents \cup {Null}, Damage(p, c) PROVE PInv'
  BY <1>6, PointersDamaged
<1>7. CASE Upgrade \/ Crash
  BY <1>7, PointersInterrupted
<1>8. CASE UNCHANGED vars
  <2>1. /\ UNCHANGED <<fs, plan, pc, cursor, attempted, git, svc, build, damaged, incomplete>>
        /\ Stands
    BY <1>8 DEF vars, fileVars, systemVars, historyVars, Stands, SamePlan
  <2>2. \A x \in Targets : Now(x)' = Now(x)
    BY <2>1 DEF Now
  <2> QED
    BY <2>1, <2>2, PointersFromOutside DEF PInv, RecordsOK
<1>9. CASE Announce \/ HandOver
  BY <1>9, PointersHeard
<1> QED
  BY <1>1, <1>2, <1>3, <1>4, <1>5, <1>6, <1>7, <1>8, <1>9 DEF Next

\* Neither Git nor the service manager points at a file that is gone, at any
\* point of any command: the executor installs a target before it moves the
\* pointer and moves the pointer away before it removes the target, forwards
\* and on every way back.  Only a failed rollback step and damage to the target
\* itself are excused.
THEOREM NothingDangles == Spec => []NoDangling
<1>1. PInv => NoDangling
  <2>1. ASSUME PInv, ~incomplete PROVE NoDangling
    <3>1. Excused("hook") \/ PointerOK("hook")
      BY <2>1 DEF PInv, Targets
    <3>2. Excused("desc") \/ PointerOK("desc")
      BY <2>1 DEF PInv, Targets
    <3> QED
      BY <2>1, <3>1, <3>2 DEF NoDangling, PointerOK, Excused, Off, Now, Via, File
  <2>2. ASSUME incomplete PROVE NoDangling
    BY <2>2 DEF NoDangling
  <2> QED
    BY <2>1, <2>2
<1>2. Init => IInv /\ PInv
  BY InitIInv, InitPInv
<1>3. (IInv /\ PInv) /\ [Next]_vars => (IInv /\ PInv)'
  BY NextIInv, NextPInv
<1> QED
  BY <1>1, <1>2, <1>3, PTL DEF Spec
-----------------------------------------------------------------------------
(* The copies of the Git state in the plans *)

Copy == {"state", "replica"}

\* A plan takes a copy of the Git state from what is on disk, or from nothing, to
\* nothing or to a copy that records o.
Records(q, f, o) ==
  \A c \in ToSet(q) : c.path \in Copy =>
    c.before \in {Null, f[c.path]} /\ c.after \in {Null, GitState(o)}

\* A plan moves core.hooksPath between the managed hooks and o.
Between(q, o) ==
  \A t \in ToSet(q) : t.kind = "git" => t.before \in {o, "managed"} /\ t.after \in {o, "managed"}

LEMMA FirstRecords ==
  ASSUME NEW s, NEW o, s.build \in Build, PlanFirstActivation(s, o).ok
  PROVE  /\ Records(PlanFirstActivation(s, o).changes, s.fs, o)
         /\ s.fs["state"] = Null /\ s.fs["replica"] = Null
<1> DEFINE b == s.build
           q == PlanFirstActivation(s, o).changes
<1>1. \A id \in ToSet(OwnedIds(b)) : s.fs[id] = Null
  BY DEF PlanFirstActivation, Refused
<1>2. s.fs["state"] = Null /\ s.fs["replica"] = Null
  <2> HIDE DEF b
  <2> QED BY <1>1, OwnedSet DEF b
<1>3. PICK m : ToSet(q) = FirstChanges(s.fs, b, o, m)
  BY FirstShape
<1> HIDE DEF q, b
<1>4. ASSUME NEW c \in ToSet(q), c.path \in Copy
      PROVE  c.before = Null /\ c.after = GitState(o)
  <2>1. CASE \E p \in Existing(s.fs) : c = Change(BackupPath(p), Null, s.fs[p])
    BY <1>4, <2>1 DEF Change, BackupPath, Copy
  <2>2. CASE \E id \in ToSet(OwnedIds(b)) : c = Change(id, Null, OwnedContent(id, b, o))
    BY <1>4, <2>2 DEF Change, OwnedContent, Copy
  <2>3. CASE \E p \in Touched(s.fs) : c = Change(p, s.fs[p], Merged(s.fs[p]))
    BY <1>4, <2>3, SharedPaths DEF Change, Copy, Touched, Existing
  <2>4. CASE c = Change("manifest", Null, m)
    BY <1>4, <2>4 DEF Change, Copy
  <2> QED
    BY <1>3, <2>1, <2>2, <2>3, <2>4 DEF FirstChanges
<1> QED
  BY <1>2, <1>4 DEF Records, q

LEMMA InstalledRecords ==
  ASSUME NEW s, NEW op, NEW o, SnapshotOK(s),
         Kind(s.fs["manifest"]) = "manifest", PlanInstalled(s, op, s.fs["manifest"], o).ok
  PROVE  Records(PlanInstalled(s, op, s.fs["manifest"], o).changes, s.fs, o)
<1> DEFINE m == s.fs["manifest"]
           q == PlanInstalled(s, op, m, o).changes
<1>1. m.entries \in Seq(ToSet(m.entries))
  BY DEF SnapshotOK, ManifestOK
<1>2. /\ ToSet(q) = Repairs(s.fs, m)
      /\ \A e \in Drifted(s.fs, m) : OwnedContent(e.id, s.build, o) = e.installed
  BY <1>1, InstalledShape
<1> HIDE DEF q, m
<1>3. ASSUME NEW c \in ToSet(q), c.path \in Copy
      PROVE  c.before = s.fs[c.path] /\ c.after = GitState(o)
  <2>1. PICK e \in Drifted(s.fs, m) : c = Change(e.id, s.fs[e.id], e.installed)
    BY <1>2 DEF Repairs
  <2>2. c.path = e.id /\ c.before = s.fs[e.id] /\ c.after = OwnedContent(e.id, s.build, o)
    BY <1>2, <2>1 DEF Change
  <2> QED
    BY <1>3, <2>2 DEF OwnedContent, Copy
<1> QED
  BY <1>3 DEF Records, q, m

LEMMA DeactivationRecords ==
  ASSUME NEW s, NEW o, SnapshotOK(s), Kind(s.fs["manifest"]) = "manifest",
         PlanDeactivation(s, s.fs["manifest"]).ok
  PROVE  Records(PlanDeactivation(s, s.fs["manifest"]).changes, s.fs, o)
<1> DEFINE m == s.fs["manifest"]
           q == PlanDeactivation(s, m).changes
           S == ToSet(m.entries)
           B == {d \in S : d.original # Null}
<1>1. m.entries \in Seq(ToSet(m.entries)) /\ Recorded(m)
  BY DEF SnapshotOK, ManifestOK
<1>2. ToSet(q) = {Change(e.id, s.fs[e.id], e.original) : e \in S}
                   \cup {Change(BackupPath(e.id), e.original, Null) : e \in B}
                   \cup {Change("manifest", m, Null)}
  BY <1>1, DeactivationShape
<1>3. \A e \in S : e.id \in Shared \/ e.original = Null
  BY <1>1, RecordedEntries
<1> HIDE DEF q, m, S, B
<1>4. ASSUME NEW c \in ToSet(q), c.path \in Copy
      PROVE  c.before = s.fs[c.path] /\ c.after = Null
  <2>1. CASE \E e \in S : c = Change(e.id, s.fs[e.id], e.original)
    <3>1. PICK e \in S : c = Change(e.id, s.fs[e.id], e.original)
      BY <2>1
    <3>2. c.path = e.id /\ c.before = s.fs[e.id] /\ c.after = e.original
      BY <3>1 DEF Change
    <3> QED
      BY <1>3, <1>4, <3>2, SharedPaths DEF Copy
  <2>2. CASE \E e \in B : c = Change(BackupPath(e.id), e.original, Null)
    BY <1>4, <2>2 DEF Change, BackupPath, Copy
  <2>3. CASE c = Change("manifest", m, Null)
    BY <1>4, <2>3 DEF Change, Copy
  <2> QED
    BY <1>2, <2>1, <2>2, <2>3
<1> QED
  BY <1>4 DEF Records, q, m

\* What a plan is about: the hooksPath that the copies on disk record, or at a
\* first activation, when there are none, the one in force.
LEMMA PlanRecords ==
  ASSUME NEW s, NEW op \in Operations, SnapshotOK(s), ProtectionPlan(s, op).ok
  PROVE  LET P == ProtectionPlan(s, op)
         IN  \/ P.files = <<>> /\ P.external = <<>>
             \/ \E o \in Original :
                  /\ Records(P.files, s.fs, o) /\ Between(P.external, o)
                  /\ \/ o \in GitOriginals(s)
                     \/ o = s.git /\ s.fs["state"] = Null /\ s.fs["replica"] = Null
<1> DEFINE P == ProtectionPlan(s, op)
           m == s.fs["manifest"]
           installed == m # Null
           originals == IF installed THEN GitOriginals(s) ELSE {s.git}
           o == IF originals = {} THEN Null ELSE CHOOSE v \in originals : TRUE
           files == FilePlan(s, op, o)
           G == GitTransition(s, op, o)
           V == ServiceTransition(s, op)
<1>1. CASE ~installed /\ op # "activate"
  BY <1>1 DEF ProtectionPlan
<1>2. CASE installed \/ op = "activate"
  <2>1. /\ originals = {o} /\ files.ok /\ ~GitConflict(s, installed, o)
        /\ P.files = files.changes
        /\ P.external = IF op = "deactivate" THEN V \o G ELSE G \o V
    BY <1>2 DEF ProtectionPlan
  <2> HIDE DEF o, P
  <2>2. o \in Original
    <3>1. CASE installed
      <4>1. PICK c \in {"state", "replica"} : Kind(s.fs[c]) = "state" /\ o = s.fs[c].original
        BY <2>1, <3>1 DEF GitOriginals
      <4> QED
        BY <4>1 DEF SnapshotOK, StateOK
    <3>2. CASE ~installed
      BY <2>1, <3>2 DEF GitConflict, SnapshotOK
    <3> QED
      BY <3>1, <3>2
  <2>3. /\ G \in Seq(ToSet(G))
        /\ \A t \in ToSet(G) : t.kind = "git" => /\ t.before \in {o, "managed"}
                                                 /\ t.after \in {o, "managed"}
    <3>1. /\ G \in Seq(ToSet(G))
          /\ \A t \in ToSet(G) : /\ t.before = s.git
                                 /\ t.after = IF op = "deactivate" THEN o ELSE "managed"
      BY <2>2, GitTransitionFacts
    <3>2. s.git \in {o, "managed"}
      BY <2>1 DEF GitConflict
    <3> HIDE DEF G
    <3> QED
      BY <3>1, <3>2
  <2>4. V \in Seq(ToSet(V)) /\ \A t \in ToSet(V) : t.kind = "service"
    BY ServiceTransitionFacts
  <2> HIDE DEF G, V
  <2>5. ToSet(P.external) = ToSet(G) \cup ToSet(V)
    BY <2>1, <2>3, <2>4, ConcatSet
  <2>6. Between(P.external, o)
    BY <2>3, <2>4, <2>5 DEF Between
  <2>7. CASE installed
    <3>1. /\ Kind(m) = "manifest"
          /\ files = PlanDeactivation(s, m) \/ files = PlanInstalled(s, op, m, o)
      BY <1>2, <2>1, <2>7 DEF FilePlan, Refused
    <3>2. Records(P.files, s.fs, o)
      <4> HIDE DEF m, files
      <4> QED BY <2>1, <3>1, DeactivationRecords, InstalledRecords DEF m
    <3>3. o \in GitOriginals(s)
      BY <2>1, <2>7
    <3> QED
      BY <2>2, <2>6, <3>2, <3>3 DEF P
  <2>8. CASE ~installed
    <3>1. files = PlanFirstActivation(s, o)
      BY <1>2, <2>8 DEF FilePlan
    <3>2. /\ Records(P.files, s.fs, o)
          /\ s.fs["state"] = Null /\ s.fs["replica"] = Null
      <4>1. s.build \in Build
        BY DEF SnapshotOK
      <4> HIDE DEF files
      <4> QED BY <2>1, <3>1, <4>1, FirstRecords
    <3>3. o = s.git
      BY <2>1, <2>8
    <3> QED
      BY <2>2, <2>6, <3>2, <3>3 DEF P
  <2> QED
    BY <2>7, <2>8
<1> QED
  BY <1>1, <1>2
-----------------------------------------------------------------------------
(* The third inductive invariant: which hooksPath the copies record *)

\* Content of a copy that does not contradict o, if d was damaged from outside.
Tells(c, o, d) == IF Kind(c) = "state" THEN c.original = o ELSE c = Null \/ d \cap Copy # {}
PlanTells(q, o, d) ==
  \A c \in ToSet(q) : c.path \in Copy => Tells(c.before, o, d) /\ Tells(c.after, o, d)

\* Every copy, on disk and in the plans, agrees on o, and so do the transitions.
Told(o) ==
  /\ Tells(fs["state"], o, damaged) /\ Tells(fs["replica"], o, damaged)
  /\ PlanTells(cmd.files, o, damaged) /\ Between(cmd.external, o)
  /\ cmd.stage \in {"files", "invert"} => PlanTells(plan, o, damaged)

\* o is what the user had, once it matters.
Meant(o) == "git" \in contested \/ (git # "managed" /\ ~ClaimedGit) \/ o = hooksPath

HInv == /\ "git" \in contested \/ git \in {"managed", hooksPath}
        /\ \E o \in Original : Told(o) /\ Meant(o)
-----------------------------------------------------------------------------
LEMMA NothingTold ==
  ASSUME NEW o, NEW d
  PROVE  Tells(Null, o, d) /\ PlanTells(<<>>, o, d) /\ Between(<<>>, o)
<1>1. Tells(Null, o, d)
  BY DEF Tells, Kind
<1> QED
  BY <1>1, EmptyPlan DEF PlanTells, Between

LEMMA StillTells ==
  ASSUME NEW c, NEW o, NEW d, NEW e, d \subseteq e, Tells(c, o, d)
  PROVE  Tells(c, o, e)
  BY DEF Tells

LEMMA StillPlanned ==
  ASSUME NEW q, NEW o, NEW d, NEW e, d \subseteq e, PlanTells(q, o, d)
  PROVE  PlanTells(q, o, e)
  BY StillTells DEF PlanTells

\* What keeps the record.
LEMMA RecordKept ==
  ASSUME NEW o, Told(o), damaged \subseteq damaged',
         \A p \in Copy : fs'[p] = fs[p] \/ Tells(fs'[p], o, damaged'),
         \/ cmd'.files = cmd.files /\ cmd'.external = cmd.external
         \/ cmd'.files = <<>> /\ cmd'.external = <<>>,
         \/ cmd'.stage \notin {"files", "invert"}
         \/ cmd'.stage = cmd.stage /\ plan' = plan
         \/ PlanTells(plan', o, damaged')
  PROVE  Told(o)'
<1>1. Tells(fs'["state"], o, damaged') /\ Tells(fs'["replica"], o, damaged')
  BY StillTells DEF Told, Copy
<1>2. PlanTells(cmd'.files, o, damaged')
  BY StillPlanned, NothingTold DEF Told
<1>3. Between(cmd'.external, o)
  BY NothingTold DEF Told
<1>4. cmd'.stage \in {"files", "invert"} => PlanTells(plan', o, damaged')
  BY StillPlanned DEF Told
<1> QED
  BY <1>1, <1>2, <1>3, <1>4 DEF Told

\* A step that leaves core.hooksPath alone, and makes no new claim on it.
LEMMA HooksPathRests ==
  ASSUME HInv, UNCHANGED <<git, hooksPath, contested>>, ClaimedGit' => ClaimedGit,
         \A o \in Original : Told(o) => Told(o)'
  PROVE  HInv'
  BY DEF HInv, Meant

LEMMA NothingClaimed ==
  ASSUME cmd'.external = <<>> \/ cmd'.stage \notin Working \/ cmd'.stage \in {"confirm", "verify"}
  PROVE  ~ClaimedGit'
  BY DEF ClaimedGit, Working

LEMMA RecordsTell ==
  ASSUME NEW q, NEW f, NEW o \in Original, NEW d, Records(q, f, o),
         Tells(f["state"], o, d), Tells(f["replica"], o, d)
  PROVE  PlanTells(q, o, d)
<1>1. Tells(GitState(o), o, d)
  <2>1. OwnedContent("state", 1, o) # Null
    BY OwnedSet, OwnedContents DEF Build
  <2>2. OwnedContent("state", 1, o) = GitState(o)
    BY DEF OwnedContent
  <2> QED
    BY <2>1, <2>2 DEF Tells, Kind, GitState
<1>2. \A c \in Copy : Tells(f[c], o, d)
  BY DEF Copy
<1> QED
  BY <1>1, <1>2, NothingTold DEF Records, PlanTells

LEMMA FreshRecord ==
  ASSUME IInv, PInv, HInv, NEW op \in Operations, ProtectionPlan(Snapshot, op).ok,
         cmd'.stage \in {"confirm", "verify"},
         cmd'.files = ProtectionPlan(Snapshot, op).files,
         cmd'.external = ProtectionPlan(Snapshot, op).external,
         UNCHANGED <<fs, plan, git, damaged, hooksPath, contested>>
  PROVE  HInv'
<1> DEFINE P == ProtectionPlan(Snapshot, op)
<1>1. SnapshotOK(Snapshot) /\ Snapshot.fs = fs /\ Snapshot.git = git
  BY SnapshotIsOK DEF Snapshot
<1>2. \/ P.files = <<>> /\ P.external = <<>>
      \/ \E o \in Original :
           /\ Records(P.files, fs, o) /\ Between(P.external, o)
           /\ \/ o \in GitOriginals(Snapshot)
              \/ o = git /\ fs["state"] = Null /\ fs["replica"] = Null
  BY <1>1, PlanRecords
<1>3. P.files = cmd'.files /\ P.external = cmd'.external
  OBVIOUS
<1> HIDE DEF P
<1>4. PICK old \in Original : Told(old) /\ Meant(old)
  BY DEF HInv
<1>5. ~ClaimedGit'
  BY NothingClaimed
<1>6. ASSUME NEW o \in Original, Records(cmd'.files, fs, o), Between(cmd'.external, o),
             Tells(fs["state"], o, damaged), Tells(fs["replica"], o, damaged)
      PROVE  Told(o)'
  <2>1. PlanTells(cmd'.files, o, damaged)
    BY <1>6, RecordsTell
  <2> QED
    BY <1>6, <2>1 DEF Told
<1>7. CASE P.files = <<>> /\ P.external = <<>>
  <2>1. Told(old)'
    BY <1>3, <1>4, <1>7, RecordKept
  <2> QED
    BY <1>4, <1>5, <2>1 DEF HInv, Meant
<1>8. ASSUME NEW o \in Original, Records(P.files, fs, o), Between(P.external, o),
             o \in GitOriginals(Snapshot)
      PROVE  HInv'
  <2>1. PICK c \in Copy : Kind(fs[c]) = "state" /\ o = fs[c].original
    BY <1>1, <1>8 DEF GitOriginals, Copy
  <2>2. Tells(fs["state"], old, damaged) /\ Tells(fs["replica"], old, damaged)
    BY <1>4 DEF Told
  <2>3. o = old
    BY <2>1, <2>2 DEF Tells, Copy
  <2>4. Told(old)'
    BY <1>3, <1>6, <1>8, <2>2, <2>3
  <2> QED
    BY <1>4, <1>5, <2>4 DEF HInv, Meant
<1>9. ASSUME Records(P.files, fs, git), Between(P.external, git), git \in Original,
             fs["state"] = Null, fs["replica"] = Null
      PROVE  HInv'
  <2>1. Told(git)'
    BY <1>3, <1>6, <1>9, NothingTold DEF Told
  <2>2. git # "managed"
    BY <1>9, OwnHooksPaths DEF Original
  <2> QED
    BY <1>5, <1>9, <2>1, <2>2 DEF HInv, Meant
<1> QED
  BY <1>2, <1>7, <1>8, <1>9

LEMMA HooksPlanned ==
  ASSUME IInv, PInv, HInv, (\E op \in Operations : Plan(op)) \/ Confirm \/ Decline \/ Undo
  PROVE  HInv'
<1> USE DEF historyVars, fileVars, systemVars
<1>1. UNCHANGED <<fs, plan, git, damaged, hooksPath, contested>>
  BY DEF Plan, Confirm, Decline, Undo
<1>2. Fields(cmd)
  BY DEF IInv, CommandOK
<1>3. ASSUME \/ cmd'.files = cmd.files /\ cmd'.external = cmd.external
             \/ cmd'.files = <<>> /\ cmd'.external = <<>>,
             cmd'.stage \in {"idle", "verify", "restoreConfig"}
      PROVE  HInv'
  <2>1. ~ClaimedGit'
    BY <1>3, NothingClaimed DEF Working
  <2>2. \A o \in Original : Told(o) => Told(o)'
    BY <1>1, <1>3, RecordKept
  <2> QED
    BY <1>1, <2>1, <2>2, HooksPathRests
<1>4. CASE \E op \in Operations : Plan(op)
  <2>1. PICK op \in Operations : Plan(op)
    BY <1>4
  <2> DEFINE p == ProtectionPlan(Snapshot, op)
             found == [Idle(op, "none") EXCEPT !.stage = "confirm",
                           !.installed = p.installed, !.files = p.files,
                           !.external = p.external]
  <2>2. \/ cmd' = Idle(op, "refused") \/ cmd' = Idle(op, "nothing")
        \/ cmd' = found /\ p.ok
    BY <2>1 DEF Plan
  <2>3. ASSUME NEW r, cmd' = Idle(op, r) PROVE HInv'
    BY <1>3, <2>3, IdleFields
  <2>4. ASSUME cmd' = found, p.ok PROVE HInv'
    <3>1. /\ cmd'.stage = "confirm"
          /\ cmd'.files = p.files /\ cmd'.external = p.external
      <4> HIDE DEF p
      <4> QED BY <2>4 DEF Idle
    <3> QED
      BY <1>1, <2>4, <3>1, FreshRecord
  <2> QED
    BY <2>2, <2>3, <2>4
<1>5. CASE Decline
  <2>1. cmd' = Idle(cmd.op, "declined")
    BY <1>5 DEF Decline
  <2> QED
    BY <1>3, <2>1, IdleFields
<1>6. CASE Confirm
  <2>1. \E v : cmd' = [cmd EXCEPT !.stage = "verify", !.before = v]
    BY <1>6 DEF Confirm
  <2>2. cmd'.files = cmd.files /\ cmd'.external = cmd.external /\ cmd'.stage = "verify"
    BY <1>2, <2>1 DEF Fields
  <2> QED
    BY <1>3, <2>2
<1>7. CASE Undo
  <2> DEFINE p == ProtectionPlan(Snapshot, "deactivate")
             again == [cmd EXCEPT !.stage = "verify", !.op = "deactivate", !.undo = TRUE,
                                  !.at = 0, !.files = p.files, !.external = p.external]
  <2>1. \/ p.ok /\ cmd' = again
        \/ cmd' = [cmd EXCEPT !.stage = "restoreConfig"]
    BY <1>7 DEF Undo
  <2>2. ASSUME p.ok, cmd' = again PROVE HInv'
    <3>1. /\ cmd'.stage = "verify"
          /\ cmd'.files = p.files /\ cmd'.external = p.external
      <4> HIDE DEF p
      <4> QED BY <1>2, <2>2 DEF Fields
    <3>2. "deactivate" \in Operations
      BY DEF Operations
    <3> QED
      BY <1>1, <2>2, <3>1, <3>2, FreshRecord
  <2>3. ASSUME cmd' = [cmd EXCEPT !.stage = "restoreConfig"] PROVE HInv'
    BY <1>2, <1>3, <2>3, StageFields DEF SamePlan
  <2> QED
    BY <2>1, <2>2, <2>3
<1> QED
  BY <1>4, <1>5, <1>6, <1>7

\* A step that goes on with the plan, makes no new claim and starts no file plan.
LEMMA HooksGoOn ==
  ASSUME HInv, UNCHANGED <<git, hooksPath, contested, damaged, plan>>,
         \A p \in Copy : fs'[p] \in {fs[p], Null},
         \/ cmd'.files = cmd.files /\ cmd'.external = cmd.external
         \/ cmd'.files = <<>> /\ cmd'.external = <<>>,
         cmd'.stage \in {"files", "invert"} => cmd'.stage = cmd.stage,
         ClaimedGit' => ClaimedGit
  PROVE  HInv'
<1>1. \A o \in Original : Told(o) => Told(o)'
  <2> SUFFICES ASSUME NEW o \in Original, Told(o) PROVE Told(o)'
    OBVIOUS
  <2>1. \A p \in Copy : fs'[p] = fs[p] \/ Tells(fs'[p], o, damaged')
    BY NothingTold
  <2> QED
    BY <2>1, RecordKept
<1> QED
  BY <1>1, HooksPathRests

\* A step that ends or interrupts the work.
LEMMA HooksEnd ==
  ASSUME HInv, UNCHANGED <<git, hooksPath, contested, damaged, plan>>,
         \A p \in Copy : fs'[p] \in {fs[p], Null},
         \/ cmd'.files = cmd.files /\ cmd'.external = cmd.external
         \/ cmd'.files = <<>> /\ cmd'.external = <<>>,
         cmd'.stage \notin Working
  PROVE  HInv'
<1>1. ~ClaimedGit'
  BY NothingClaimed
<1>2. cmd'.stage \notin {"files", "invert"}
  BY DEF Working
<1> QED
  BY <1>1, <1>2, HooksGoOn

LEMMA HooksExit ==
  ASSUME IInv, HInv, NEW r, UNCHANGED <<fs, git, hooksPath, contested, damaged, plan>>,
         cmd' = IF cmd.undo THEN [cmd EXCEPT !.stage = "restoreConfig"] ELSE Idle(cmd.op, r)
  PROVE  HInv'
<1>1. CASE cmd.undo
  <2>1. SamePlan /\ cmd'.stage = "restoreConfig"
    BY <1>1, StageFields DEF IInv, CommandOK
  <2> QED
    BY <2>1, HooksEnd DEF SamePlan, Working
<1>2. CASE ~cmd.undo
  <2>1. /\ cmd'.stage = "idle"
        /\ cmd'.files = <<>> /\ cmd'.external = <<>>
    BY <1>2, IdleFields
  <2> QED
    BY <2>1, HooksEnd DEF Working
<1> QED
  BY <1>1, <1>2

LEMMA HooksFinished ==
  ASSUME IInv, HInv, Finish \/ RestoreControlPlane \/ Purge \/ RolledBack \/ Upgrade \/ Crash
  PROVE  HInv'
<1> USE DEF historyVars, fileVars, systemVars
<1>1. UNCHANGED <<plan, git, hooksPath, contested, damaged>> /\ Fields(cmd)
  BY DEF Finish, RestoreControlPlane, Purge, RolledBack, Upgrade, Crash, Files!Crash, IInv,
         CommandOK
<1>2. CASE Finish \/ RestoreControlPlane
  <2>1. \A p \in Copy : fs'[p] = fs[p]
    <3>1. fs' = fs \/ \E v : \E p \in {"config", "baseline"} : fs' = [fs EXCEPT ![p] = v]
      BY <1>2 DEF Finish, RestoreControlPlane
    <3> QED
      BY <3>1 DEF IInv, FilesOK, Paths, Copy
  <2>2. \/ \E stage \in {"writeBaseline", "undo", "restoreBaseline"} :
             cmd' = [cmd EXCEPT !.stage = stage]
        \/ \E op, r : cmd' = Idle(op, r)
    BY <1>2 DEF Finish, RestoreControlPlane, Goto
  <2>3. ASSUME NEW stage \in {"writeBaseline", "undo", "restoreBaseline"},
               cmd' = [cmd EXCEPT !.stage = stage]
        PROVE  HInv'
    <3>1. SamePlan /\ cmd'.stage = stage
      BY <1>1, <2>3, StageFields
    <3> QED
      BY <1>1, <2>1, <3>1, HooksEnd DEF SamePlan, Working
  <2>4. ASSUME NEW op, NEW r, cmd' = Idle(op, r) PROVE HInv'
    <3>1. cmd'.stage = "idle" /\ cmd'.files = <<>> /\ cmd'.external = <<>>
      BY <2>4, IdleFields
    <3> QED
      BY <1>1, <2>1, <3>1, HooksEnd DEF Working
  <2> QED
    BY <2>2, <2>3, <2>4
<1>3. CASE RolledBack
  <2>1. UNCHANGED fs
    BY <1>3 DEF RolledBack
  <2>2. cmd' = IF cmd.undo THEN [cmd EXCEPT !.stage = "restoreConfig"]
                           ELSE Idle(cmd.op, "failed")
    BY <1>3 DEF RolledBack
  <2> QED
    BY <1>1, <2>1, <2>2, HooksExit
<1>4. CASE Purge \/ Upgrade \/ Crash
  <2>1. \E op, r : cmd' = Idle(op, r)
    BY <1>4 DEF Purge, Upgrade, Crash
  <2>2. cmd'.stage = "idle" /\ cmd'.files = <<>> /\ cmd'.external = <<>>
    BY <2>1, IdleFields
  <2>3. fs' = fs \/ fs' = [p \in Paths |-> IF p \in StateDir THEN Null ELSE fs[p]]
    BY <1>4 DEF Purge, Upgrade, Crash, Files!Crash
  <2>4. \A p \in Copy : fs'[p] \in {fs[p], Null}
    BY <2>3 DEF Copy, Paths
  <2> QED
    BY <1>1, <2>2, <2>4, HooksEnd DEF Working
<1> QED
  BY <1>2, <1>3, <1>4

LEMMA HooksExecuted ==
  ASSUME IInv, PInv, HInv, Verify \/ BeginFiles \/ FilesDone \/ FilesFailed
  PROVE  HInv'
<1> USE DEF historyVars, fileVars, systemVars
<1>1. UNCHANGED <<fs, git, hooksPath, contested, damaged>>
  BY DEF Verify, BeginFiles, FilesDone, FilesFailed, Throw, Files!Execute
<1>2. /\ Fields(cmd) /\ Len(cmd.external) \in Nat
      /\ DOMAIN cmd.external = 1..Len(cmd.external)
  <2>1. Fields(cmd) /\ Len(cmd.external) \in Nat
    BY Transitions DEF IInv, CommandOK
  <2>2. cmd.external \in Seq(ToSet(cmd.external))
    BY DEF PInv, RecordsOK, ExternalOK
  <2> QED
    BY <2>1, <2>2
<1>3. CASE BeginFiles
  <2>1. cmd.stage = "execute" /\ cmd' = [cmd EXCEPT !.stage = "files"] /\ plan' = cmd.files
    BY <1>3 DEF BeginFiles, Files!Execute, Goto
  <2>2. SamePlan /\ cmd'.stage = "files"
    BY <1>2, <2>1, StageFields
  <2>3. ClaimedGit' => ClaimedGit
    BY <2>1, <2>2 DEF ClaimedGit, SamePlan
  <2>4. \A o \in Original : Told(o) => Told(o)'
    BY <1>1, <2>1, <2>2, RecordKept DEF SamePlan, Told
  <2> QED
    BY <1>1, <2>3, <2>4, HooksPathRests
<1>4. ASSUME NEW r, UNCHANGED plan,
             cmd' = IF cmd.undo THEN [cmd EXCEPT !.stage = "restoreConfig"] ELSE Idle(cmd.op, r)
      PROVE  HInv'
  BY <1>1, <1>4, HooksExit
<1>5. ASSUME UNCHANGED plan, SamePlan, cmd'.stage \notin {"files", "invert"},
             ClaimedGit' => ClaimedGit
      PROVE  HInv'
  BY <1>1, <1>5, HooksGoOn DEF SamePlan
<1>6. CASE Verify
  <2>1. \/ Throw
        \/ cmd.op = "deactivate" /\ cmd' = [cmd EXCEPT !.stage = "external", !.at = 1]
        \/ cmd.op # "deactivate" /\ cmd' = [cmd EXCEPT !.stage = "execute"]
    BY <1>6 DEF Verify, Goto, GotoAt
  <2>2. UNCHANGED plan
    BY <1>6 DEF Verify
  <2>3. CASE Throw
    BY <1>4, <2>2, <2>3 DEF Throw
  <2>4. ASSUME cmd.op = "deactivate", cmd' = [cmd EXCEPT !.stage = "external", !.at = 1]
        PROVE  HInv'
    <3>1. SamePlan /\ cmd'.stage = "external" /\ cmd'.at = 1
      BY <1>2, <2>4, StageAtFields
    <3>2. ~ClaimedGit'
      BY <1>2, <3>1 DEF ClaimedGit, SamePlan
    <3> QED
      BY <1>5, <2>2, <3>1, <3>2
  <2>5. ASSUME cmd.op # "deactivate", cmd' = [cmd EXCEPT !.stage = "execute"] PROVE HInv'
    <3>1. SamePlan /\ cmd'.stage = "execute"
      BY <1>2, <2>5, StageFields
    <3>2. ~ClaimedGit'
      BY <2>5, <3>1 DEF ClaimedGit, SamePlan
    <3> QED
      BY <1>5, <2>2, <3>1, <3>2
  <2> QED
    BY <2>1, <2>3, <2>4, <2>5
<1>7. CASE FilesDone
  <2>1. Return \/ cmd' = [cmd EXCEPT !.stage = "external", !.at = 1]
    BY <1>7 DEF FilesDone, GotoAt
  <2>2. UNCHANGED plan
    BY <1>7 DEF FilesDone
  <2>3. CASE Return
    BY <1>4, <2>2, <2>3 DEF Return
  <2>4. ASSUME cmd' = [cmd EXCEPT !.stage = "external", !.at = 1] PROVE HInv'
    <3>1. SamePlan /\ cmd'.stage = "external" /\ cmd'.at = 1
      BY <1>2, <2>4, StageAtFields
    <3>2. ~ClaimedGit'
      BY <1>2, <3>1 DEF ClaimedGit, SamePlan
    <3> QED
      BY <1>5, <2>2, <3>1, <3>2
  <2> QED
    BY <2>1, <2>3, <2>4
<1>8. CASE FilesFailed
  <2>1. /\ cmd.stage = "files"
        /\ \/ Throw
           \/ /\ cmd.op = "deactivate"
              /\ cmd' = [cmd EXCEPT !.stage = "rollback", !.at = Len(cmd.external)]
    BY <1>8 DEF FilesFailed, GotoAt
  <2>2. UNCHANGED plan
    BY <1>8 DEF FilesFailed
  <2>3. CASE Throw
    BY <1>4, <2>2, <2>3 DEF Throw
  <2>4. ASSUME cmd.op = "deactivate",
               cmd' = [cmd EXCEPT !.stage = "rollback", !.at = Len(cmd.external)]
        PROVE  HInv'
    <3>1. SamePlan /\ cmd'.stage = "rollback"
      BY <1>2, <2>4, StageAtFields
    <3>2. ClaimedGit' => ClaimedGit
      BY <2>1, <2>4, <3>1 DEF ClaimedGit, SamePlan
    <3> QED
      BY <1>5, <2>2, <3>1, <3>2
  <2> QED
    BY <2>1, <2>3, <2>4
<1> QED
  BY <1>3, <1>6, <1>7, <1>8

\* Where a claim on core.hooksPath comes from.
LEMMA ClaimFacts ==
  ASSUME PInv
  PROVE  /\ Len(cmd.external) \in Nat /\ DOMAIN cmd.external = 1..Len(cmd.external)
         /\ \A k \in DOMAIN cmd.external : cmd.external[k] \in ToSet(cmd.external)
<1>1. cmd.external \in Seq(ToSet(cmd.external)) /\ Len(cmd.external) \in Nat
  BY Transitions DEF PInv, RecordsOK, ExternalOK
<1> QED
  BY <1>1

LEMMA HooksServed ==
  ASSUME IInv, PInv, HInv, ApplyService \/ RestoreQuietly \/ ExternalDone
  PROVE  HInv'
<1> USE DEF historyVars, fileVars, systemVars
<1>1. UNCHANGED <<fs, plan, git, hooksPath, contested, damaged>>
  BY DEF ApplyService, RestoreQuietly, ExternalDone
<1>2. Fields(cmd) /\ Len(cmd.external) \in Nat /\ DOMAIN cmd.external = 1..Len(cmd.external)
  BY ClaimFacts DEF IInv, CommandOK
<1>3. ASSUME SamePlan, cmd'.stage \notin {"files", "invert"}, ClaimedGit' => ClaimedGit
      PROVE  HInv'
  BY <1>1, <1>3, HooksGoOn DEF SamePlan
<1>4. CASE ApplyService \/ RestoreQuietly
  <2>1. cmd.stage \in {"apply", "restoreQuietly"} /\ cmd.at \in Nat
    <3>1. cmd.stage \in {"apply", "restoreQuietly"}
      BY <1>4 DEF ApplyService, RestoreQuietly
    <3>2. cmd.at \in 1..Len(cmd.external)
      BY <3>1 DEF PInv, StageOK
    <3> QED
      BY <1>2, <3>1, <3>2
  <2>2. \/ cmd' = [cmd EXCEPT !.stage = "external", !.at = cmd.at + 1]
        \/ cmd' = [cmd EXCEPT !.stage = "external", !.at = cmd.at + 1, !.degraded = TRUE]
        \/ \E stage \in {"rollback", "restoreQuietly"} : cmd' = [cmd EXCEPT !.stage = stage]
    BY <1>4 DEF ApplyService, RestoreQuietly, Goto, GotoAt
  <2>3. SamePlan /\ \/ cmd'.stage = "external" /\ cmd'.at = cmd.at + 1
                    \/ cmd'.stage \in {"rollback", "restoreQuietly"} /\ cmd'.at = cmd.at
    BY <1>2, <2>2 DEF Fields, SamePlan
  <2>4. ClaimedGit' => ClaimedGit
    BY <1>2, <2>1, <2>3 DEF ClaimedGit, SamePlan
  <2> QED
    BY <1>3, <2>3, <2>4
<1>5. CASE ExternalDone
  <2>1. cmd.stage = "external" /\ cmd.at > Len(cmd.external) /\ cmd.at \in Nat
    BY <1>5 DEF ExternalDone, PInv, StageOK
  <2>2. \/ Return
        \/ cmd' = [cmd EXCEPT !.stage = "execute"]
        \/ cmd' = [cmd EXCEPT !.stage = "writeConfig"]
    BY <1>5 DEF ExternalDone, Goto, FirstActivation
  <2>3. CASE Return
    BY <1>1, <2>3, HooksExit DEF Return
  <2>4. ASSUME NEW stage \in {"execute", "writeConfig"}, cmd' = [cmd EXCEPT !.stage = stage]
        PROVE  HInv'
    <3>1. SamePlan /\ cmd'.stage = stage
      BY <1>2, <2>4, StageFields
    <3>2. ClaimedGit' => ClaimedGit
      BY <1>2, <2>1, <3>1 DEF ClaimedGit, SamePlan
    <3> QED
      BY <1>3, <3>1, <3>2
  <2> QED
    BY <2>2, <2>3, <2>4
<1> QED
  BY <1>4, <1>5

\* The last check before core.hooksPath is set is what makes the record the
\* user's own: what was planned from is still there.
LEMMA HooksClaimed ==
  ASSUME IInv, PInv, HInv, VerifyTransition
  PROVE  HInv'
<1> USE DEF historyVars, fileVars, systemVars
<1>1. /\ UNCHANGED <<fs, plan, git, hooksPath, contested, damaged>>
      /\ cmd.stage = "external" /\ cmd.at <= Len(cmd.external)
      /\ \/ Current(Pending) = Pending.before /\ cmd' = [cmd EXCEPT !.stage = "apply"]
         \/ cmd' = [cmd EXCEPT !.stage = "rollback", !.at = cmd.at - 1]
  BY DEF VerifyTransition, Goto, GotoAt
<1>2. Fields(cmd) /\ Len(cmd.external) \in Nat /\ DOMAIN cmd.external = 1..Len(cmd.external)
  BY ClaimFacts DEF IInv, CommandOK
<1>3. cmd.at \in 1..Len(cmd.external) /\ Pending \in ToSet(cmd.external)
  <2>1. cmd.at \in Nat \ {0}
    BY <1>1 DEF PInv, StageOK
  <2>2. cmd.at \in 1..Len(cmd.external)
    BY <1>1, <1>2, <2>1
  <2> QED
    BY <1>2, <2>2, ClaimFacts DEF Pending
<1>4. \/ /\ SamePlan /\ cmd'.stage = "apply" /\ cmd'.at = cmd.at
         /\ Current(Pending) = Pending.before
      \/ SamePlan /\ cmd'.stage = "rollback" /\ cmd'.at = cmd.at - 1
  BY <1>1, <1>2, StageFields, StageAtFields
<1>5. CASE ClaimedGit' => ClaimedGit
  BY <1>1, <1>4, <1>5, HooksGoOn DEF SamePlan
<1>6. CASE ClaimedGit' /\ ~ClaimedGit
  <2>1. Pending.kind = "git" /\ git = Pending.before
    <3>1. PICK k \in DOMAIN cmd.external :
            /\ cmd.external[k].kind = "git"
            /\ k <= cmd'.at /\ ~(k < cmd.at)
      BY <1>1, <1>2, <1>3, <1>4, <1>6 DEF ClaimedGit, SamePlan
    <3>2. k = cmd.at /\ cmd'.at = cmd.at /\ cmd'.stage = "apply"
      BY <1>2, <1>3, <1>4, <3>1
    <3> QED
      BY <1>4, <3>1, <3>2 DEF Pending, Current
  <2>2. PICK o \in Original : Told(o) /\ Meant(o)
    BY DEF HInv
  <2>3. git \in {o, "managed"}
    BY <1>3, <2>1, <2>2 DEF Told, Between
  <2>4. "git" \in contested \/ o = hooksPath
    BY <2>2, <2>3, OwnHooksPaths DEF HInv, Meant, Original
  <2>5. Told(o)'
    BY <1>1, <1>4, <2>2, RecordKept DEF SamePlan
  <2> QED
    BY <1>1, <2>4, <2>5 DEF HInv, Meant
<1> QED
  BY <1>5, <1>6

\* Setting core.hooksPath, and taking it back.
LEMMA HooksMoved ==
  ASSUME IInv, PInv, HInv, ApplyGit \/ RollbackExternal
  PROVE  HInv'
<1> USE DEF historyVars, fileVars
<1>1. UNCHANGED <<fs, plan, hooksPath, contested, damaged>>
  BY DEF ApplyGit, RollbackExternal
<1>2. Fields(cmd) /\ Len(cmd.external) \in Nat /\ DOMAIN cmd.external = 1..Len(cmd.external)
  BY ClaimFacts DEF IInv, CommandOK
<1>3. cmd.stage \in {"apply", "rollback"} /\ cmd.at \in 1..Len(cmd.external)
  <2>1. CASE ApplyGit
    BY <2>1 DEF ApplyGit, PInv, StageOK
  <2>2. CASE RollbackExternal
    <3>1. cmd.stage = "rollback" /\ cmd.at > 0
      BY <2>2 DEF RollbackExternal
    <3>2. cmd.at \in 0..Len(cmd.external)
      BY <3>1 DEF PInv, StageOK
    <3> QED
      BY <1>2, <3>1, <3>2
  <2> QED
    BY <2>1, <2>2
<1>4. Pending \in ToSet(cmd.external)
  BY <1>2, <1>3, ClaimFacts DEF Pending
<1>5. git' = git \/ (Pending.kind = "git" /\ git' \in {Pending.before, Pending.after})
  BY DEF ApplyGit, RollbackExternal
<1>6. \/ cmd' = [cmd EXCEPT !.stage = "external", !.at = cmd.at + 1]
      \/ cmd' = [cmd EXCEPT !.stage = "rollback"]
      \/ cmd' = [cmd EXCEPT !.stage = "rollback", !.at = cmd.at - 1]
  BY DEF ApplyGit, RollbackExternal, Goto, GotoAt
<1>7. SamePlan /\ \/ cmd'.stage = "external" /\ cmd'.at = cmd.at + 1
                  \/ cmd'.stage = "rollback" /\ cmd'.at = cmd.at
                  \/ cmd'.stage = "rollback" /\ cmd'.at = cmd.at - 1
  BY <1>2, <1>6, StageFields, StageAtFields
<1>8. ClaimedGit' => ClaimedGit
  <2> SUFFICES ASSUME ClaimedGit' PROVE ClaimedGit
    OBVIOUS
  <2>1. PICK k \in DOMAIN cmd.external :
          /\ cmd.external[k].kind = "git"
          /\ \/ cmd'.stage = "rollback" /\ k <= cmd'.at
             \/ cmd'.stage = "external" /\ k < cmd'.at
    BY <1>7 DEF ClaimedGit, SamePlan
  <2>2. k <= cmd.at
    BY <1>2, <1>3, <1>7, <2>1
  <2> QED
    BY <1>3, <2>1, <2>2 DEF ClaimedGit
<1>9. CASE git' = git
  BY <1>1, <1>7, <1>8, <1>9, HooksGoOn DEF SamePlan
<1>10. CASE git' # git
  <2>1. Pending.kind = "git" /\ git' \in {Pending.before, Pending.after}
    BY <1>5, <1>10
  <2>2. ClaimedGit
    BY <1>2, <1>3, <2>1 DEF ClaimedGit, Pending
  <2>3. PICK o \in Original : Told(o) /\ Meant(o)
    BY DEF HInv
  <2>4. "git" \in contested \/ o = hooksPath
    BY <2>2, <2>3 DEF Meant
  <2>5. git' \in {o, "managed"}
    BY <1>4, <2>1, <2>3 DEF Told, Between
  <2>6. Told(o)'
    BY <1>1, <1>7, <2>3, RecordKept DEF SamePlan
  <2> QED
    BY <1>1, <2>4, <2>5, <2>6 DEF HInv, Meant
<1> QED
  BY <1>9, <1>10

LEMMA HooksInverted ==
  ASSUME IInv, PInv, HInv, InvertFiles
  PROVE  HInv'
<1> USE DEF historyVars, systemVars
<1>1. /\ UNCHANGED <<fs, git, hooksPath, contested, damaged>>
      /\ plan' = Invert(cmd.files)
      /\ cmd' = [cmd EXCEPT !.stage = "invert"]
  BY DEF InvertFiles, Files!Execute, Goto
<1>2. SamePlan /\ cmd'.stage = "invert"
  BY <1>1, StageFields DEF IInv, CommandOK
<1>3. ~ClaimedGit'
  BY <1>2 DEF ClaimedGit
<1>4. ASSUME NEW o \in Original, Told(o) PROVE Told(o)'
  <2>1. ASSUME NEW d \in ToSet(plan'), d.path \in Copy
        PROVE  Tells(d.before, o, damaged) /\ Tells(d.after, o, damaged)
    <3>1. PICK c \in ToSet(cmd.files) : d = Change(c.path, c.after, c.before)
      BY <1>1, InverseChanges DEF PlanOK, IInv, CommandOK
    <3>2. d.path = c.path /\ d.before = c.after /\ d.after = c.before
      BY <3>1 DEF Change
    <3> QED
      BY <1>4, <2>1, <3>2 DEF Told, PlanTells
  <2>2. PlanTells(plan', o, damaged')
    BY <1>1, <2>1 DEF PlanTells
  <2> QED
    BY <1>1, <1>2, <1>4, <2>2, RecordKept DEF SamePlan
<1> QED
  BY <1>1, <1>3, <1>4, HooksPathRests

LEMMA HooksFileStep ==
  ASSUME IInv, PInv, HInv, FileStep
  PROVE  HInv'
<1>1. /\ UNCHANGED <<plan, cmd, git, damaged>>
      /\ Len(plan) \in Nat /\ DOMAIN plan = 1..Len(plan)
      /\ \/ fs' = fs
         \/ /\ pc \in {"apply", "rollback"} /\ cursor \in 1..attempted
            /\ \E v \in {plan[cursor].before, plan[cursor].after} :
                  fs' = [fs EXCEPT ![plan[cursor].path] = v]
  BY FileStepFacts
<1>2. UNCHANGED <<hooksPath, contested>> /\ cmd.stage \in {"files", "invert"}
  BY DEF FileStep
<1>3. ClaimedGit' => ClaimedGit
  BY <1>1 DEF ClaimedGit
<1>4. ASSUME NEW o \in Original, Told(o) PROVE Told(o)'
  <2>1. \A p \in Copy : fs'[p] = fs[p] \/ Tells(fs'[p], o, damaged')
    <3>1. CASE fs' = fs
      BY <3>1
    <3>2. CASE fs' # fs
      <4>1. PICK v \in {plan[cursor].before, plan[cursor].after} :
                fs' = [fs EXCEPT ![plan[cursor].path] = v]
        BY <1>1, <3>2
      <4> DEFINE c == plan[cursor]
      <4>2. c \in ToSet(plan)
        <5>1. cursor \in DOMAIN plan
          BY <1>1, <3>2 DEF IInv, CursorOK
        <5> QED
          BY <5>1 DEF ToSet
      <4> HIDE DEF c
      <4>3. v \in {c.before, c.after}
        BY DEF c
      <4>4. \A p \in Paths : fs'[p] = IF p = c.path THEN v ELSE fs[p]
        BY <4>1 DEF IInv, FilesOK, c
      <4>5. c.path \in Copy => Tells(v, o, damaged')
        BY <1>1, <1>2, <1>4, <4>2, <4>3 DEF Told, PlanTells
      <4>6. Copy \subseteq Paths
        BY DEF Copy, Paths
      <4> QED
        BY <4>4, <4>5, <4>6
    <3> QED
      BY <3>1, <3>2
  <2> QED
    BY <1>1, <1>4, <2>1, RecordKept
<1> QED
  BY <1>1, <1>2, <1>3, <1>4, HooksPathRests

LEMMA SameClaim ==
  ASSUME Stands
  PROVE  ClaimedGit' <=> ClaimedGit
  BY DEF Stands, SamePlan, ClaimedGit

LEMMA HooksOutside ==
  ASSUME IInv, PInv, HInv,
         \/ \E p \in Shared, c \in UserContents : EditShared(p, c)
         \/ \E p \in Fragile, c \in UserContents \cup {Null} : Damage(p, c)
         \/ ServiceStops
  PROVE  HInv'
<1> USE DEF historyVars, fileVars, systemVars
<1>1. UNCHANGED <<git, hooksPath>> /\ \E y : Harm(y)
  BY DEF EditShared, Damage, ServiceStops
<1>2. Stands /\ (ClaimedGit' <=> ClaimedGit)
  <2>1. Stands
    BY <1>1, HarmStands
  <2> QED
    BY <2>1, SameClaim
<1>3. "git" \in contested' <=> "git" \in contested
  <2>1. ASSUME NEW p \in Shared, contested' = contested \/ contested' = contested \cup {p}
        PROVE  "git" \in contested' <=> "git" \in contested
    BY <2>1, SharedPaths
  <2>2. CASE \E p \in Shared, c \in UserContents : EditShared(p, c)
    BY <2>1, <2>2 DEF EditShared
  <2>3. CASE ServiceStops \/ \E p \in Fragile, c \in UserContents \cup {Null} : Damage(p, c)
    BY <2>3 DEF ServiceStops, Damage
  <2> QED
    BY <2>2, <2>3
<1>4. damaged \subseteq damaged' /\ plan' = plan
  <2>1. ASSUME NEW p \in Paths, NEW v, Write(p, v) PROVE plan' = plan
    BY <2>1, WriteFrame
  <2>2. Shared \subseteq Paths /\ Fragile \subseteq Paths
    BY SharedPaths, FragileAssumption DEF Paths, Artifacts, Backups
  <2> QED
    BY <2>1, <2>2 DEF EditShared, Damage, ServiceStops
<1>5. ASSUME NEW p \in Copy, NEW o PROVE fs'[p] = fs[p] \/ Tells(fs'[p], o, damaged')
  <2>1. p \in Paths /\ p \notin Shared
    BY SharedPaths DEF Copy, Paths
  <2>2. ASSUME NEW q \in Shared, NEW c \in UserContents, EditShared(q, c) PROVE fs'[p] = fs[p]
    <3>1. q \in Paths
      BY SharedPaths DEF Paths
    <3>2. PICK v : Write(q, v)
      BY <2>2 DEF EditShared
    <3>3. fs' = [fs EXCEPT ![q] = v]
      BY <3>1, <3>2, WriteFrame
    <3> QED
      BY <2>1, <3>3
  <2>3. ASSUME NEW q \in Fragile, NEW c \in UserContents \cup {Null}, Damage(q, c)
        PROVE  fs'[p] = fs[p] \/ Tells(fs'[p], o, damaged')
    <3>1. q \in Paths /\ c \in Plain
      BY FragileAssumption DEF Paths, Artifacts, Backups, Plain
    <3>2. Write(q, c) /\ q \in damaged'
      BY <2>3 DEF Damage
    <3>3. fs' = [fs EXCEPT ![q] = c]
      BY <3>1, <3>2, WriteFrame
    <3>4. Kind(c) # "state"
      BY <3>1, OwnPart
    <3>5. fs'[p] = IF p = q THEN c ELSE fs[p]
      BY <2>1, <3>3 DEF IInv, FilesOK
    <3>6. p = q => damaged' \cap Copy # {}
      BY <3>2
    <3> QED
      BY <3>4, <3>5, <3>6 DEF Tells
  <2>4. CASE ServiceStops
    BY <2>4 DEF ServiceStops
  <2> QED
    BY <2>2, <2>3, <2>4
<1>6. \A o \in Original : Told(o) => Told(o)'
  BY <1>2, <1>4, <1>5, RecordKept DEF Stands, SamePlan
<1> QED
  BY <1>1, <1>2, <1>3, <1>6 DEF HInv, Meant

\* The user sets core.hooksPath: in the executor's hands it is contested, else
\* nothing is at stake yet.
LEMMA HooksSet ==
  ASSUME IInv, PInv, HInv, NEW h \in HooksPaths \cup {Null}, SetHooksPath(h)
  PROVE  HInv'
<1> USE DEF historyVars, fileVars
<1>1. /\ UNCHANGED <<fs, plan, damaged>> /\ git' = h /\ hooksPath' = h
      /\ contested' = IF ClaimedGit THEN contested \cup {"git"} ELSE contested
      /\ Harm("git")
  BY DEF SetHooksPath
<1>2. Stands /\ (ClaimedGit' <=> ClaimedGit)
  <2>1. Stands
    BY <1>1, HarmStands
  <2> QED
    BY <2>1, SameClaim
<1>3. PICK o \in Original : Told(o) /\ Meant(o)
  BY DEF HInv
<1>4. Told(o)'
  BY <1>1, <1>2, <1>3, RecordKept DEF Stands, SamePlan
<1>5. h # "managed"
  BY OwnHooksPaths
<1> QED
  BY <1>1, <1>2, <1>4, <1>5 DEF HInv, Meant

LEMMA HooksHeard ==
  ASSUME IInv, HInv, Announce \/ HandOver
  PROVE  HInv'
<1>1. UNCHANGED <<fs, plan, git, damaged, hooksPath, contested>> /\ Stands
  BY DaemonFrame, DaemonStands DEF fileVars, historyVars
<1>2. \A o \in Original : Told(o) => Told(o)'
  BY <1>1, RecordKept DEF Stands, SamePlan
<1> QED
  BY <1>1, <1>2, SameClaim, HooksPathRests

LEMMA InitHInv == Init => HInv
<1> SUFFICES ASSUME Init PROVE HInv
  OBVIOUS
<1>1. PICK s, q \in Originals :
        fs = [p \in Paths |-> CASE p = "settings" -> s [] p = "profile" -> q [] OTHER -> Null]
  BY DEF Init
<1>2. \A p \in Copy : fs[p] = Null
  BY <1>1 DEF Paths, Copy
<1>3. /\ git \in Original /\ hooksPath = git
      /\ cmd = Idle("none", "none")
  BY DEF Init, Original
<1>4. cmd.stage = "idle" /\ cmd.files = <<>> /\ cmd.external = <<>>
  BY <1>3 DEF Idle
<1>5. Told(git)
  BY <1>2, <1>4, NothingTold DEF Told, Copy
<1> QED
  BY <1>3, <1>5 DEF HInv, Meant

LEMMA NextHInv == IInv /\ PInv /\ HInv /\ [Next]_vars => HInv'
<1> SUFFICES ASSUME IInv, PInv, HInv, [Next]_vars PROVE HInv'
  OBVIOUS
<1>1. CASE (\E op \in Operations : Plan(op)) \/ Confirm \/ Decline
  BY <1>1, HooksPlanned
<1>2. CASE Step
  <2>1. CASE Verify \/ BeginFiles \/ FilesDone \/ FilesFailed
    BY <2>1, HooksExecuted
  <2>2. CASE FileStep
    BY <2>2, HooksFileStep
  <2>3. CASE VerifyTransition \/ ApplyGit \/ ApplyService \/ RestoreQuietly \/ ExternalDone
    BY <2>3, HooksClaimed, HooksMoved, HooksServed
  <2>4. CASE RollbackExternal \/ InvertFiles \/ RolledBack
    BY <2>4, HooksMoved, HooksInverted, HooksFinished
  <2>5. CASE Finish \/ Undo \/ RestoreControlPlane
    BY <2>5, HooksFinished, HooksPlanned
  <2> QED
    BY <1>2, <2>1, <2>2, <2>3, <2>4, <2>5 DEF Step
<1>3. CASE Purge \/ Upgrade \/ Crash
  BY <1>3, HooksFinished
<1>4. CASE \/ \E p \in ToSet(SharedIds), c \in UserContents : EditShared(p, c)
           \/ \E p \in Fragile, c \in UserContents \cup {Null} : Damage(p, c)
           \/ ServiceStops
  BY <1>4, HooksOutside DEF Shared
<1>5. CASE \E h \in HooksPaths \cup {Null} : SetHooksPath(h)
  BY <1>5, HooksSet
<1>6. CASE UNCHANGED vars
  <2>1. UNCHANGED <<fs, plan, cmd, git, damaged, hooksPath, contested>>
    BY <1>6 DEF vars, fileVars, systemVars, historyVars
  <2>2. \A o \in Original : Told(o) => Told(o)'
    BY <2>1, RecordKept
  <2>3. ClaimedGit' => ClaimedGit
    BY <2>1 DEF ClaimedGit
  <2> QED
    BY <2>1, <2>2, <2>3, HooksPathRests
<1>7. CASE Announce \/ HandOver
  BY <1>7, HooksHeard
<1> QED
  BY <1>1, <1>2, <1>3, <1>4, <1>5, <1>6, <1>7 DEF Next

\* While Git runs the managed hooks, at any point of any command, the copies of
\* the Git state on disk name exactly the hooksPath the user had: none of them is
\* lost, and none holds another, whatever fails, dies or is rolled back.  Excused
\* are a hooksPath the user changes in the executor's hands, a failed rollback
\* step, and damage to the copies themselves.
THEOREM TheHooksPathIsRecoverable == Spec => []HooksPathRecoverable
<1>1. PInv /\ HInv => HooksPathRecoverable
  <2> SUFFICES ASSUME PInv, HInv PROVE HooksPathRecoverable
    OBVIOUS
  <2>1. ASSUME git = "managed", "git" \notin contested, ~incomplete,
               damaged \cap {"state", "replica"} = {}
        PROVE  GitOriginals(Snapshot) = {hooksPath}
    <3>1. PICK o \in Original : Told(o) /\ Meant(o)
      BY DEF HInv
    <3>2. o = hooksPath
      BY <2>1, <3>1 DEF Meant
    <3>3. fs["state"] # Null
      <4>1. PointerOK("state")
        BY <2>1 DEF PInv, Targets, Excused, File
      <4> QED
        BY <2>1, <4>1 DEF PointerOK, Off, Now, Via, File
    <3>4. /\ Kind(fs["state"]) = "state" /\ fs["state"].original = hooksPath
          /\ Kind(fs["replica"]) = "state" => fs["replica"].original = hooksPath
      BY <2>1, <3>1, <3>2, <3>3 DEF Told, Tells, Copy
    <3>5. Snapshot.fs = fs
      BY DEF Snapshot
    <3> QED
      BY <3>4, <3>5 DEF GitOriginals
  <2>2. "git" \notin contested => git \in {"managed", hooksPath}
    BY DEF HInv
  <2>3. CASE incomplete
    BY <2>2, <2>3 DEF HooksPathRecoverable
  <2>4. CASE ~incomplete
    BY <2>1, <2>2, <2>4 DEF HooksPathRecoverable
  <2> QED
    BY <2>3, <2>4
<1>2. Init => IInv /\ PInv /\ HInv
  BY InitIInv, InitPInv, InitHInv
<1>3. (IInv /\ PInv /\ HInv) /\ [Next]_vars => (IInv /\ PInv /\ HInv)'
  BY NextIInv, NextPInv, NextHInv
<1> QED
  BY <1>1, <1>2, <1>3, PTL DEF Spec
-----------------------------------------------------------------------------
(* What the manifest says of the files *)

\* What the manifest m says that x holds: an owned file as installed, a backup
\* of what it was taken from.
Named(m, x) == {e \in ToSet(m.entries) : e.id = x}
BackedUp(m, x) ==
  {e \in ToSet(m.entries) : e.id \in Shared /\ BackupPath(e.id) = x /\ e.original # Null}
Wants(m, x) ==
  IF Kind(m) # "manifest" THEN {}
  ELSE IF x \in Backups THEN {e.original : e \in BackedUp(m, x)}
  ELSE {e.installed : e \in Named(m, x)}

\* Content v of x is what the manifest m says, or nothing if it says nothing.  A
\* shared file may be edited at any time: what counts is that the managed block
\* is only in a file that the manifest names.
Fits(m, x, v) ==
  IF x = "manifest" THEN v = m /\ (m = Null \/ Kind(m) = "manifest")
  ELSE IF x \in Shared THEN Kind(v) = "merged" => Wants(m, x) # {}
  ELSE IF Wants(m, x) = {} THEN v = Null
  ELSE Wants(m, x) = {v}

Covered == Artifacts \cup Shared
OwnFiles == {"init", "state", "replica", "hook", "desc", "extra"}

\* All files are as m says, apart from d, the damaged ones.
Settled(f, m, d) == \A x \in Covered \ d : Fits(m, x, f[x])

\* The plan q takes a machine that is as m says to one that is as n says.
Same(m, n, x) == IF x = "manifest" THEN m = n ELSE Wants(m, x) = Wants(n, x)
Leads(q, m, n, d) ==
  \A x \in Covered \ d :
    /\ \A c \in ToSet(q) : c.path = x => Fits(m, x, c.before) /\ Fits(n, x, c.after)
    /\ (\A c \in ToSet(q) : c.path # x) => Same(m, n, x)

LEMMA CoveredPaths ==
  /\ Covered = OwnFiles \cup {"manifest"} \cup Backups \cup Shared
  /\ "manifest" \notin OwnFiles \cup Backups \cup Shared
  /\ OwnFiles \cap Backups = {} /\ OwnFiles \cap Shared = {} /\ Backups \cap Shared = {}
  /\ \A p \in Shared : BackupPath(p) \in Backups
  /\ \A p, r \in Shared : BackupPath(p) = BackupPath(r) => p = r
  /\ Covered \subseteq Paths
BY SharedPaths DEF Covered, OwnFiles, Artifacts, Backups, BackupPath, Paths

LEMMA NothingWanted ==
  ASSUME NEW x
  PROVE  Wants(Null, x) = {} /\ Fits(Null, x, Null)
BY DEF Wants, Kind, Fits

LEMMA UserContentFits ==
  ASSUME NEW m, NEW x \in Shared, NEW v \in Plain
  PROVE  Fits(m, x, v)
BY OwnPart, SharedPaths DEF Fits

LEMMA ChangesInverted ==
  ASSUME NEW q, q \in Seq(ToSet(q)), NEW c \in ToSet(q)
  PROVE  Change(c.path, c.after, c.before) \in ToSet(Invert(q))
<1> DEFINE S == ToSet(q)
           r == Reverse(q)
<1>1. q \in Seq(S)
  OBVIOUS
<1>2. ToSet(r) = S
  <2> HIDE DEF S
  <2> QED BY <1>1, ReverseSet DEF S
<1>3. PICK k \in DOMAIN r : c = r[k]
  <2> HIDE DEF r
  <2> QED BY <1>2 DEF ToSet
<1>4. Invert(q) = [j \in DOMAIN r |-> Change(r[j].path, r[j].after, r[j].before)]
  BY DEF Invert, MapSeq
<1> HIDE DEF r
<1> QED
  BY <1>3, <1>4 DEF ToSet

\* The inverse of a plan leads back.
LEMMA LeadsBack ==
  ASSUME NEW q, q \in Seq(ToSet(q)), NEW m, NEW n, NEW d, Leads(q, m, n, d)
  PROVE  Leads(Invert(q), n, m, d)
<1> SUFFICES ASSUME NEW x \in Covered \ d
             PROVE  /\ \A c \in ToSet(Invert(q)) : c.path = x =>
                           Fits(n, x, c.before) /\ Fits(m, x, c.after)
                    /\ (\A c \in ToSet(Invert(q)) : c.path # x) => Same(n, m, x)
  BY DEF Leads
<1>1. ASSUME NEW c \in ToSet(Invert(q)), c.path = x
      PROVE  Fits(n, x, c.before) /\ Fits(m, x, c.after)
  <2>1. PICK b \in ToSet(q) : c = Change(b.path, b.after, b.before)
    BY InverseChanges
  <2>2. c.path = b.path /\ c.before = b.after /\ c.after = b.before
    BY <2>1 DEF Change
  <2> QED
    BY <1>1, <2>2 DEF Leads
<1>2. ASSUME \A c \in ToSet(Invert(q)) : c.path # x PROVE Same(n, m, x)
  <2>1. ASSUME NEW b \in ToSet(q) PROVE b.path # x
    <3> DEFINE c == Change(b.path, b.after, b.before)
    <3>1. c \in ToSet(Invert(q)) /\ c.path = b.path
      BY ChangesInverted DEF Change
    <3> QED
      BY <1>2, <3>1
  <2> QED
    BY <2>1 DEF Leads, Same
<1> QED
  BY <1>1, <1>2

\* Damage only excuses more.
LEMMA LeadsStill ==
  ASSUME NEW q, NEW m, NEW n, NEW d, NEW e, d \subseteq e, Leads(q, m, n, d)
  PROVE  Leads(q, m, n, e)
BY DEF Leads

LEMMA LeadsNowhere ==
  ASSUME NEW q, ToSet(q) = {}, NEW m, NEW d
  PROVE  Leads(q, m, m, d)
BY DEF Leads, Same

\* What the manifest of a first activation says.
LEMMA FirstWants ==
  ASSUME NEW f, NEW b \in Build, NEW o \in Original, NEW n, n # Null, n.kind = "manifest",
         ToSet(n.entries) = OwnedEntries(b, o) \cup SharedEntries(f)
  PROVE  /\ \A x \in Shared : x \in Touched(f) <=> Wants(n, x) # {}
         /\ \A x \in OwnFiles :
              Wants(n, x) = IF x \in ToSet(OwnedIds(b)) THEN {OwnedContent(x, b, o)} ELSE {}
         /\ \A p \in Shared : Wants(n, BackupPath(p)) = IF f[p] = Null THEN {} ELSE {f[p]}
<1> DEFINE OwnE(id) == Entry(id, "owned", OwnedContent(id, b, o), Null)
           ShE(p) == Entry(p, "shared", Merged(f[p]), f[p])
<1>1. /\ \A id : OwnE(id).id = id /\ OwnE(id).installed = OwnedContent(id, b, o)
                 /\ OwnE(id).original = Null
      /\ \A p : ShE(p).id = p /\ ShE(p).installed = Merged(f[p]) /\ ShE(p).original = f[p]
  BY DEF Entry
<1>2. /\ \A id \in ToSet(OwnedIds(b)) : OwnE(id) \in ToSet(n.entries)
      /\ \A p \in Touched(f) : ShE(p) \in ToSet(n.entries)
  BY DEF OwnedEntries, SharedEntries
<1>3. \A e \in ToSet(n.entries) :
         \/ \E id \in ToSet(OwnedIds(b)) : e = OwnE(id)
         \/ \E p \in Touched(f) : e = ShE(p)
  BY DEF OwnedEntries, SharedEntries
<1>4. ToSet(OwnedIds(b)) \subseteq OwnFiles /\ Touched(f) \subseteq Shared
  BY OwnedSet, SharedPaths DEF OwnFiles, Touched, Existing
<1>5. Kind(n) = "manifest"
  BY DEF Kind
<1> HIDE DEF OwnE, ShE
<1>6. ASSUME NEW x \in Shared PROVE x \in Touched(f) <=> Wants(n, x) # {}
  <2>1. x \notin Backups /\ x \notin OwnFiles
    BY CoveredPaths
  <2>2. Wants(n, x) = {e.installed : e \in Named(n, x)}
    BY <1>5, <2>1 DEF Wants
  <2>3. ASSUME x \in Touched(f) PROVE Wants(n, x) # {}
    <3>1. ShE(x) \in Named(n, x)
      BY <1>1, <1>2, <2>3 DEF Named
    <3> QED
      BY <2>2, <3>1
  <2>4. ASSUME NEW e \in Named(n, x) PROVE x \in Touched(f)
    BY <1>1, <1>3, <1>4, <2>1, <2>4 DEF Named
  <2> QED
    BY <2>2, <2>3, <2>4
<1>7. ASSUME NEW x \in OwnFiles
      PROVE  Wants(n, x) = IF x \in ToSet(OwnedIds(b)) THEN {OwnedContent(x, b, o)} ELSE {}
  <2>1. x \notin Backups /\ x \notin Shared
    BY CoveredPaths
  <2>2. Wants(n, x) = {e.installed : e \in Named(n, x)}
    BY <1>5, <2>1 DEF Wants
  <2>3. ASSUME NEW e \in Named(n, x) PROVE e = OwnE(x) /\ x \in ToSet(OwnedIds(b))
    BY <1>1, <1>3, <1>4, <2>1, <2>3 DEF Named
  <2>4. ASSUME x \in ToSet(OwnedIds(b)) PROVE OwnE(x) \in Named(n, x)
    BY <1>1, <1>2, <2>4 DEF Named
  <2>5. OwnE(x).installed = OwnedContent(x, b, o)
    BY <1>1
  <2>6. CASE x \in ToSet(OwnedIds(b))
    BY <2>2, <2>3, <2>4, <2>5, <2>6
  <2>7. CASE x \notin ToSet(OwnedIds(b))
    BY <2>2, <2>3, <2>7
  <2> QED
    BY <2>6, <2>7
<1>8. ASSUME NEW p \in Shared
      PROVE  Wants(n, BackupPath(p)) = IF f[p] = Null THEN {} ELSE {f[p]}
  <2> DEFINE x == BackupPath(p)
  <2>1. x \in Backups
    BY CoveredPaths
  <2>2. Wants(n, x) = {e.original : e \in BackedUp(n, x)}
    BY <1>5, <2>1 DEF Wants
  <2>3. ASSUME NEW e \in BackedUp(n, x) PROVE e = ShE(p) /\ f[p] # Null
    <3>1. e.id \in Shared /\ BackupPath(e.id) = BackupPath(p) /\ e.original # Null
      BY <2>3 DEF BackedUp
    <3>2. e.id = p
      BY <3>1, CoveredPaths
    <3> QED
      BY <1>1, <1>3, <2>3, <3>1, <3>2 DEF BackedUp
  <2>4. ASSUME f[p] # Null PROVE ShE(p) \in BackedUp(n, x)
    <3>1. p \in Touched(f)
      BY <2>4 DEF Touched, Existing
    <3> QED
      BY <1>1, <1>2, <2>4, <3>1 DEF BackedUp
  <2>5. ShE(p).original = f[p]
    BY <1>1
  <2> HIDE DEF x
  <2>6. CASE f[p] # Null
    BY <2>2, <2>3, <2>4, <2>5, <2>6 DEF x
  <2>7. CASE f[p] = Null
    BY <2>2, <2>3, <2>7 DEF x
  <2> QED
    BY <2>6, <2>7
<1> QED
  BY <1>6, <1>7, <1>8

\* planFirstActivation: from no manifest to the one it writes.
LEMMA FirstLeads ==
  ASSUME NEW s, NEW o \in Original, NEW d, SnapshotOK(s), s.fs["manifest"] = Null,
         Settled(s.fs, Null, d), PlanFirstActivation(s, o).ok
  PROVE  \E n : Leads(PlanFirstActivation(s, o).changes, Null, n, d)
<1> DEFINE b == s.build
           f == s.fs
           q == PlanFirstActivation(s, o).changes
<1>1. PICK es :
        /\ ToSet(es) = OwnedEntries(b, o) \cup SharedEntries(f)
        /\ es \in Seq(ToSet(es))
        /\ ToSet(q) = FirstChanges(f, b, o, Manifest(Configuration(b, o), es))
        /\ \A p \in Touched(f) : Kind(f[p]) # "merged"
  BY FirstShape
<1> DEFINE n == Manifest(Configuration(b, o), es)
<1>2. b \in Build /\ \A p \in Shared : f[p] \in SharedContent
  BY DEF SnapshotOK
<1> HIDE DEF q, b, f
<1>3. n # Null
  BY <1>1, <1>2, FirstManifest
<1>4. n.kind = "manifest" /\ ToSet(n.entries) = OwnedEntries(b, o) \cup SharedEntries(f)
  <2>1. n.kind = "manifest" /\ n.entries = es
    BY DEF Manifest
  <2> QED
    BY <1>1, <2>1
<1> HIDE DEF n
<1>5. /\ \A x \in Shared : x \in Touched(f) <=> Wants(n, x) # {}
      /\ \A x \in OwnFiles :
           Wants(n, x) = IF x \in ToSet(OwnedIds(b)) THEN {OwnedContent(x, b, o)} ELSE {}
      /\ \A p \in Shared : Wants(n, BackupPath(p)) = IF f[p] = Null THEN {} ELSE {f[p]}
  BY <1>2, <1>3, <1>4, FirstWants
<1>6. /\ Touched(f) \subseteq Shared /\ Existing(f) = {p \in Shared : f[p] # Null}
      /\ Existing(f) \subseteq Touched(f)
      /\ ToSet(OwnedIds(b)) \subseteq OwnFiles
  BY <1>2, OwnedSet, SharedPaths DEF OwnFiles, Touched, Existing
<1>7. ASSUME NEW x \in Covered \ d, NEW c \in ToSet(q), c.path = x
      PROVE  Fits(Null, x, c.before) /\ Fits(n, x, c.after)
  <2>1. CASE \E p \in Existing(f) : c = Change(BackupPath(p), Null, f[p])
    <3>1. PICK p \in Existing(f) : c = Change(BackupPath(p), Null, f[p])
      BY <2>1
    <3>2. /\ x = BackupPath(p) /\ c.before = Null /\ c.after = f[p]
          /\ p \in Shared /\ f[p] # Null
      BY <1>6, <1>7, <3>1 DEF Change
    <3>3. x # "manifest" /\ x \notin Shared
      BY <3>2, CoveredPaths
    <3>4. Wants(n, x) = {f[p]}
      BY <1>5, <3>2
    <3> QED
      BY <3>2, <3>3, <3>4, NothingWanted DEF Fits
  <2>2. CASE \E id \in ToSet(OwnedIds(b)) : c = Change(id, Null, OwnedContent(id, b, o))
    <3>1. c.path \in ToSet(OwnedIds(b)) /\ c.before = Null /\ c.after = OwnedContent(x, b, o)
      BY <1>7, <2>2 DEF Change
    <3>2. x \in OwnFiles /\ x # "manifest" /\ x \notin Shared
      BY <1>6, <1>7, <3>1, CoveredPaths
    <3>3. Wants(n, x) = {c.after}
      BY <1>5, <1>7, <3>1, <3>2
    <3> QED
      BY <3>1, <3>2, <3>3, NothingWanted DEF Fits
  <2>3. CASE \E p \in Touched(f) : c = Change(p, f[p], Merged(f[p]))
    <3>1. x \in Touched(f) /\ c.before = f[x]
      BY <1>7, <2>3 DEF Change
    <3>2. x \in Shared /\ x # "manifest" /\ Kind(c.before) # "merged" /\ Wants(n, x) # {}
      BY <1>1, <1>5, <1>6, <3>1, CoveredPaths
    <3> QED
      BY <3>2 DEF Fits
  <2>4. CASE c = Change("manifest", Null, n)
    <3>1. x = "manifest" /\ c.before = Null /\ c.after = n
      BY <1>7, <2>4 DEF Change
    <3> QED
      BY <1>3, <1>4, <3>1 DEF Fits, Kind
  <2> QED
    BY <1>1, <2>1, <2>2, <2>3, <2>4 DEF FirstChanges, n
<1>8. ASSUME NEW x \in Covered \ d, \A c \in ToSet(q) : c.path # x PROVE Same(Null, n, x)
  <2>1. x # "manifest"
    <3> DEFINE c == Change("manifest", Null, n)
    <3>1. c \in ToSet(q) /\ c.path = "manifest"
      BY <1>1 DEF FirstChanges, Change, n
    <3> QED
      BY <1>8, <3>1
  <2>2. Wants(n, x) = {}
    <3>1. CASE x \in OwnFiles
      <4>1. x \notin ToSet(OwnedIds(b))
        <5> DEFINE c == Change(x, Null, OwnedContent(x, b, o))
        <5>1. c.path = x /\ (x \in ToSet(OwnedIds(b)) => c \in ToSet(q))
          BY <1>1 DEF FirstChanges, Change
        <5> QED
          BY <1>8, <5>1
      <4> QED
        BY <1>5, <3>1, <4>1
    <3>2. CASE x \in Shared
      <4> DEFINE c == Change(x, f[x], Merged(f[x]))
      <4>1. c.path = x /\ (x \in Touched(f) => c \in ToSet(q))
        BY <1>1 DEF FirstChanges, Change
      <4> QED
        BY <1>5, <1>8, <3>2, <4>1
    <3>3. CASE x \in Backups
      <4>1. PICK p \in Shared : x = BackupPath(p)
        BY <3>3, SharedPaths DEF Backups, BackupPath
      <4> DEFINE c == Change(BackupPath(p), Null, f[p])
      <4>2. c.path = x /\ (f[p] # Null => c \in ToSet(q))
        BY <1>1, <1>6, <4>1 DEF FirstChanges, Change
      <4> QED
        BY <1>5, <1>8, <4>1, <4>2
    <3> QED
      BY <2>1, <3>1, <3>2, <3>3, CoveredPaths
  <2> QED
    BY <2>1, <2>2, NothingWanted DEF Same
<1>9. Leads(q, Null, n, d)
  BY <1>7, <1>8 DEF Leads
<1> QED
  BY <1>9 DEF q

\* planInstalled: a repair rewrites only what was damaged.
LEMMA InstalledLeads ==
  ASSUME NEW s, NEW op, NEW o, NEW d, SnapshotOK(s), Settled(s.fs, s.fs["manifest"], d),
         Kind(s.fs["manifest"]) = "manifest", PlanInstalled(s, op, s.fs["manifest"], o).ok
  PROVE  LET m == s.fs["manifest"] IN Leads(PlanInstalled(s, op, m, o).changes, m, m, d)
<1> DEFINE m == s.fs["manifest"]
           f == s.fs
           q == PlanInstalled(s, op, m, o).changes
<1>1. /\ m.entries \in Seq(ToSet(m.entries)) /\ Recorded(m)
      /\ \A e \in ToSet(m.entries) : EntryOK(e)
  BY DEF SnapshotOK, ManifestOK
<1>2. /\ ToSet(q) = Repairs(f, m)
      /\ \A e \in Drifted(f, m) : e.ownership = "owned"
  BY <1>1, InstalledShape
<1>3. \A e \in ToSet(m.entries) : e.id \in Shared \/ e.id \in OwnFiles
  BY <1>1, RecordedEntries DEF OwnFiles
<1> HIDE DEF q, m, f
<1>4. ASSUME NEW c \in ToSet(q), c.path \in Covered \ d PROVE FALSE
  <2>1. PICK e \in Drifted(f, m) : c = Change(e.id, f[e.id], e.installed)
    BY <1>2 DEF Repairs
  <2>2. /\ c.path = e.id /\ e \in ToSet(m.entries) /\ f[e.id] # e.installed
        /\ e.ownership = "owned"
    BY <1>2, <2>1 DEF Drifted, Change
  <2>3. e.id \in OwnFiles /\ e.id \notin Shared \cup Backups \cup {"manifest"}
    BY <1>1, <1>3, <2>2, CoveredPaths DEF EntryOK
  <2>4. Fits(m, e.id, f[e.id])
    BY <1>4, <2>2 DEF Settled, m, f
  <2>5. Wants(m, e.id) = {a.installed : a \in Named(m, e.id)}
    BY <2>3 DEF Wants, m
  <2>6. e.installed \in Wants(m, e.id)
    BY <2>2, <2>5 DEF Named
  <2> QED
    BY <2>2, <2>3, <2>4, <2>6 DEF Fits
<1>5. Leads(q, m, m, d)
  BY <1>4 DEF Leads, Same
<1> QED
  BY <1>5 DEF q, m

\* planDeactivation: from what the manifest says to nothing.
LEMMA DeactivationLeads ==
  ASSUME NEW s, NEW d, SnapshotOK(s), Settled(s.fs, s.fs["manifest"], d),
         Kind(s.fs["manifest"]) = "manifest", PlanDeactivation(s, s.fs["manifest"]).ok
  PROVE  LET m == s.fs["manifest"] IN Leads(PlanDeactivation(s, m).changes, m, Null, d)
<1> DEFINE m == s.fs["manifest"]
           f == s.fs
           q == PlanDeactivation(s, m).changes
           S == ToSet(m.entries)
           B == {e \in S : e.original # Null}
<1>1. /\ m.entries \in Seq(ToSet(m.entries)) /\ Recorded(m)
      /\ \A e \in S : EntryOK(e)
  BY DEF SnapshotOK, ManifestOK
<1>2. /\ ToSet(q) = {Change(e.id, f[e.id], e.original) : e \in S}
                      \cup {Change(BackupPath(e.id), e.original, Null) : e \in B}
                      \cup {Change("manifest", m, Null)}
      /\ \A e \in B : f[BackupPath(e.id)] = e.original
  BY <1>1, DeactivationShape DEF BackupsIntact
<1>3. \A e \in S : \/ e.id \in Shared /\ e.original \in Plain
                   \/ e.id \in OwnFiles /\ e.original = Null
  <2>1. \A e \in S : e.id \in Shared \/ (e.id \in OwnFiles /\ e.original = Null)
    BY <1>1, RecordedEntries DEF OwnFiles
  <2>2. ASSUME NEW e \in S, e.id \in Shared PROVE e.original \in Plain
    BY <1>1, <2>2 DEF EntryOK
  <2> QED
    BY <2>1, <2>2
<1>4. ASSUME NEW x \in Covered \ d PROVE Fits(m, x, f[x])
  BY DEF Settled
<1>5. Kind(m) = "manifest" /\ m # Null
  BY DEF Kind
<1> HIDE DEF q, m, f, S, B
<1>6. ASSUME NEW x \in Covered \ d, NEW c \in ToSet(q), c.path = x
      PROVE  Fits(m, x, c.before) /\ Fits(Null, x, c.after)
  <2>1. CASE \E e \in S : c = Change(e.id, f[e.id], e.original)
    <3>1. PICK e \in S : c = Change(e.id, f[e.id], e.original)
      BY <2>1
    <3>2. x = e.id /\ c.before = f[x] /\ c.after = e.original
      BY <1>6, <3>1 DEF Change
    <3>3. CASE e.id \in Shared
      BY <1>3, <1>4, <3>2, <3>3, UserContentFits, CoveredPaths
    <3>4. CASE e.id \in OwnFiles
      BY <1>3, <1>4, <3>2, <3>4, NothingWanted, CoveredPaths
    <3> QED
      BY <1>3, <3>3, <3>4
  <2>2. CASE \E e \in B : c = Change(BackupPath(e.id), e.original, Null)
    <3>1. PICK e \in B : c = Change(BackupPath(e.id), e.original, Null)
      BY <2>2
    <3>2. x = BackupPath(e.id) /\ c.before = f[x] /\ c.after = Null
      BY <1>2, <1>6, <3>1 DEF Change
    <3> QED
      BY <1>4, <3>2, NothingWanted
  <2>3. CASE c = Change("manifest", m, Null)
    <3>1. x = "manifest" /\ c.before = m /\ c.after = Null
      BY <1>6, <2>3 DEF Change
    <3> QED
      BY <1>5, <3>1, NothingWanted DEF Fits
  <2> QED
    BY <1>2, <2>1, <2>2, <2>3
<1>7. ASSUME NEW x \in Covered \ d, \A c \in ToSet(q) : c.path # x PROVE Same(m, Null, x)
  <2>1. x # "manifest"
    <3> DEFINE c == Change("manifest", m, Null)
    <3>1. c \in ToSet(q) /\ c.path = "manifest"
      BY <1>2 DEF Change
    <3> QED
      BY <1>7, <3>1
  <2>2. ASSUME NEW e \in Named(m, x) PROVE FALSE
    <3> DEFINE c == Change(e.id, f[e.id], e.original)
    <3>1. e \in S /\ e.id = x
      BY <2>2 DEF Named, S
    <3>2. c \in ToSet(q) /\ c.path = x
      BY <1>2, <3>1 DEF Change
    <3> QED
      BY <1>7, <3>2
  <2>3. ASSUME NEW e \in BackedUp(m, x) PROVE FALSE
    <3> DEFINE c == Change(BackupPath(e.id), e.original, Null)
    <3>1. e \in B /\ BackupPath(e.id) = x
      BY <2>3 DEF BackedUp, B, S
    <3>2. c \in ToSet(q) /\ c.path = x
      BY <1>2, <3>1 DEF Change
    <3> QED
      BY <1>7, <3>2
  <2>4. Wants(m, x) = {}
    BY <2>2, <2>3 DEF Wants
  <2> QED
    BY <2>1, <2>4, NothingWanted DEF Same
<1>8. Leads(q, m, Null, d)
  BY <1>6, <1>7 DEF Leads
<1> QED
  BY <1>8 DEF q, m

\* The files of every plan lead from what is settled to what will be, and those
\* of a deactivation to nothing.
LEMMA ProtectionPlanLeads ==
  ASSUME NEW s, NEW op \in Operations, NEW d, SnapshotOK(s),
         Settled(s.fs, s.fs["manifest"], d), ProtectionPlan(s, op).ok
  PROVE  \E n : /\ Leads(ProtectionPlan(s, op).files, s.fs["manifest"], n, d)
                /\ op = "deactivate" => n = Null
<1> DEFINE P == ProtectionPlan(s, op)
           m == s.fs["manifest"]
           installed == m # Null
           originals == IF installed THEN GitOriginals(s) ELSE {s.git}
           o == IF originals = {} THEN Null ELSE CHOOSE v \in originals : TRUE
           files == FilePlan(s, op, o)
<1>1. CASE ~installed /\ op # "activate"
  <2>1. P.files = <<>> /\ m = Null
    BY <1>1 DEF ProtectionPlan
  <2>2. ToSet(<<>>) = {}
    BY DEF ToSet
  <2>3. Leads(P.files, m, Null, d)
    BY <2>1, <2>2, LeadsNowhere
  <2> QED
    BY <2>3
<1>2. CASE installed \/ op = "activate"
  <2>1. /\ originals = {o} /\ files.ok /\ ~GitConflict(s, installed, o)
        /\ P.files = files.changes
    BY <1>2 DEF ProtectionPlan
  <2>2. o \in Original
    <3> HIDE DEF o
    <3>1. CASE installed
      <4>1. PICK c \in {"state", "replica"} : Kind(s.fs[c]) = "state" /\ o = s.fs[c].original
        BY <2>1, <3>1 DEF GitOriginals
      <4> QED
        BY <4>1 DEF SnapshotOK, StateOK
    <3>2. CASE ~installed
      BY <2>1, <3>2 DEF GitConflict, SnapshotOK
    <3> QED
      BY <3>1, <3>2
  <2> HIDE DEF originals, o, P
  <2>3. CASE op = "deactivate"
    <3>1. Kind(m) = "manifest" /\ files = PlanDeactivation(s, m)
      BY <1>2, <2>1, <2>3 DEF FilePlan, Refused
    <3>2. Leads(P.files, m, Null, d)
      <4> HIDE DEF m, files
      <4> QED BY <2>1, <3>1, DeactivationLeads DEF m
    <3> QED
      BY <3>2 DEF P
  <2>4. CASE op # "deactivate"
    <3>1. \/ m = Null /\ files = PlanFirstActivation(s, o)
          \/ Kind(m) = "manifest" /\ files = PlanInstalled(s, op, m, o)
      BY <1>2, <2>1, <2>4 DEF FilePlan, Refused
    <3>2. \E n : Leads(P.files, m, n, d)
      <4> HIDE DEF m, files
      <4>1. CASE m = Null /\ files = PlanFirstActivation(s, o)
        BY <2>1, <2>2, <4>1, FirstLeads DEF m
      <4>2. CASE Kind(m) = "manifest" /\ files = PlanInstalled(s, op, m, o)
        BY <2>1, <4>2, InstalledLeads DEF m
      <4> QED
        BY <3>1, <4>1, <4>2
    <3> QED
      BY <2>4, <3>2 DEF P
  <2> QED
    BY <2>3, <2>4
<1> QED
  BY <1>1, <1>2
-----------------------------------------------------------------------------
(* A plan from one manifest to the next, step by step *)

\* One of the first j changes of q is to x.
Reached(q, x, j) == \E k \in 1..j : q[k].path = x

\* A file in the middle of a plan from m to n.
Passing(x, m, n) ==
  /\ pc = "validate" => Fits(m, x, fs[x])
  /\ pc = "check" => Fits(IF Reached(plan, x, attempted) THEN n ELSE m, x, fs[x])
  /\ pc = "apply" => Fits(IF plan[cursor].path # x /\ Reached(plan, x, attempted) THEN n ELSE m,
                          x, fs[x])
  /\ pc = "rollback" => Reached(plan, x, cursor) \/ Fits(m, x, fs[x])
  /\ pc = "failed" => Fits(m, x, fs[x])
  /\ pc = "done" => Fits(n, x, fs[x])

Underway(m, n) == \A x \in Covered \ damaged : Passing(x, m, n)

LEMMA SameFits ==
  ASSUME NEW m, NEW n, NEW x, NEW v, Same(m, n, x), Fits(m, x, v)
  PROVE  Fits(n, x, v)
BY DEF Same, Fits

\* One step of the file transaction, while no restore fails.
LEMMA PassingStep ==
  ASSUME IInv, FileStep, ~incomplete', NEW m, NEW n, Leads(plan, m, n, damaged),
         NEW x \in Covered \ damaged, Passing(x, m, n)
  PROVE  Passing(x, m, n)'
<1>1. /\ plan' = plan /\ Len(plan) \in Nat /\ DOMAIN plan = 1..Len(plan)
      /\ pc' = "done" => attempted' = Len(plan)
  BY FileStepFacts
<1>2. /\ cursor \in Nat /\ attempted \in 0..Len(plan)
      /\ pc = "validate" => attempted = 0
      /\ pc = "check" => cursor = attempted + 1
      /\ pc = "apply" => cursor \in 1..Len(plan) /\ attempted = cursor
      /\ pc = "rollback" => cursor <= attempted
      /\ DOMAIN fs = Paths /\ x \in Paths
  BY CoveredPaths DEF IInv, CursorOK, FilesOK
<1>3. \A k \in 1..Len(plan) :
         /\ plan[k] \in ToSet(plan)
         /\ plan[k].path = x => Fits(m, x, plan[k].before) /\ Fits(n, x, plan[k].after)
  <2>1. \A k \in 1..Len(plan) : plan[k] \in ToSet(plan)
    BY <1>1 DEF ToSet
  <2> QED
    BY <2>1 DEF Leads
<1>4. \/ Files!Validate \/ Files!BeginApplying \/ Files!CheckAgain \/ Files!Apply
      \/ Files!Complete \/ Files!Restore \/ Files!Throw
  BY DEF FileStep, Files!Step
<1>5. rollbackErrors' = FALSE \/ ~rollbackErrors'
  BY DEF FileStep
<1>6. CASE Files!Validate
  <2>1. pc = "validate" /\ pc' \in {"validate", "failed"} /\ fs' = fs
    BY <1>6 DEF Files!Validate
  <2> QED
    BY <2>1 DEF Passing
<1>7. CASE Files!BeginApplying
  <2>1. pc = "validate" /\ pc' = "check" /\ fs' = fs /\ attempted' = 0
    BY <1>2, <1>7 DEF Files!BeginApplying
  <2>2. ~Reached(plan, x, 0)
    BY DEF Reached
  <2> QED
    BY <1>1, <2>1, <2>2 DEF Passing
<1>8. CASE Files!CheckAgain
  <2>1. /\ pc = "check" /\ fs' = fs /\ cursor \in 1..Len(plan)
        /\ \/ /\ pc' = "apply" /\ attempted' = cursor /\ cursor' = cursor
              /\ fs[plan[cursor].path] = plan[cursor].before
           \/ pc' = "rollback" /\ attempted' = attempted /\ cursor' = attempted
    BY <1>1, <1>2, <1>8 DEF Files!CheckAgain
  <2>2. CASE pc' = "apply"
    <3>1. plan[cursor].path = x => Fits(m, x, fs[x])
      BY <1>3, <2>1, <2>2
    <3>2. plan[cursor].path # x => (Reached(plan, x, cursor) <=> Reached(plan, x, attempted))
      BY <1>2, <2>1 DEF Reached
    <3> QED
      BY <1>1, <2>1, <2>2, <3>1, <3>2 DEF Passing
  <2>3. CASE pc' = "rollback"
    BY <1>1, <2>1, <2>3 DEF Passing
  <2> QED
    BY <2>1, <2>2, <2>3
<1>9. CASE Files!Apply
  <2>1. /\ pc = "apply" /\ cursor \in 1..Len(plan) /\ attempted' = attempted
        /\ attempted = cursor
        /\ \/ /\ fs' = [fs EXCEPT ![plan[cursor].path] = plan[cursor].after]
              /\ pc' = "check"
           \/ /\ pc' = "rollback" /\ cursor' = attempted
              /\ fs' = fs \/ fs' = [fs EXCEPT ![plan[cursor].path] = plan[cursor].after]
    BY <1>2, <1>9 DEF Files!Apply
  <2>2. CASE plan[cursor].path = x
    <3>1. Reached(plan, x, attempted)
      BY <2>1, <2>2 DEF Reached
    <3>2. pc' = "check" => fs'[x] = plan[cursor].after
      BY <1>2, <2>1, <2>2
    <3>3. pc' = "check" => Fits(n, x, fs'[x])
      BY <1>3, <2>1, <2>2, <3>2
    <3> QED
      BY <1>1, <2>1, <3>1, <3>3 DEF Passing
  <2>3. CASE plan[cursor].path # x
    <3>1. fs'[x] = fs[x]
      BY <1>2, <2>1, <2>3
    <3> QED
      BY <1>1, <2>1, <2>3, <3>1 DEF Passing
  <2> QED
    BY <2>2, <2>3
<1>10. CASE Files!Complete
  <2>1. pc = "check" /\ pc' = "done" /\ fs' = fs /\ attempted' = attempted
    BY <1>10 DEF Files!Complete
  <2>2. attempted = Len(plan)
    BY <1>1, <2>1
  <2>3. CASE Reached(plan, x, attempted)
    BY <2>1, <2>3 DEF Passing
  <2>4. CASE ~Reached(plan, x, attempted)
    <3>1. \A c \in ToSet(plan) : c.path # x
      BY <1>1, <2>2, <2>4 DEF Reached, ToSet
    <3>2. Same(m, n, x) /\ Fits(m, x, fs[x])
      BY <2>1, <2>4, <3>1 DEF Leads, Passing
    <3> QED
      BY <2>1, <3>2, SameFits DEF Passing
  <2> QED
    BY <2>3, <2>4
<1>11. CASE Files!Restore
  <2>1. /\ pc = "rollback" /\ pc' = "rollback" /\ cursor \in 1..Len(plan) /\ cursor' = cursor - 1
        /\ fs' = [fs EXCEPT ![plan[cursor].path] = plan[cursor].before]
    BY <1>2, <1>5, <1>11 DEF Files!Restore
  <2>2. CASE plan[cursor].path = x
    <3>1. Fits(m, x, fs'[x])
      BY <1>2, <1>3, <2>1, <2>2
    <3> QED
      BY <2>1, <3>1 DEF Passing
  <2>3. CASE plan[cursor].path # x
    <3>1. fs'[x] = fs[x]
      BY <1>2, <2>1, <2>3
    <3>2. Reached(plan, x, cursor) => Reached(plan, x, cursor - 1)
      <4>1. \A k \in 1..cursor : k = cursor \/ k \in 1..(cursor - 1)
        BY <2>1
      <4> QED
        BY <2>3, <4>1 DEF Reached
    <3> QED
      BY <1>1, <2>1, <3>1, <3>2 DEF Passing
  <2> QED
    BY <2>2, <2>3
<1>12. CASE Files!Throw
  <2>1. pc = "rollback" /\ pc' = "failed" /\ fs' = fs /\ cursor = 0
    BY <1>12 DEF Files!Throw
  <2>2. ~Reached(plan, x, 0)
    BY DEF Reached
  <2> QED
    BY <2>1, <2>2 DEF Passing
<1> QED
  BY <1>4, <1>6, <1>7, <1>8, <1>9, <1>10, <1>11, <1>12
-----------------------------------------------------------------------------
(* The fourth inductive invariant: the files are as the manifest says *)

\* After this nothing is promised any more.
Lost == crashed \/ incomplete \/ "manifest" \in damaged

\* Stages in which the files are still, or again, as before the command.
Early(op, stage) == op = "deactivate" \/ stage \in {"confirm", "verify", "execute"}

\* A command that takes the machine from m to n.
Along(m, n) ==
  /\ Leads(cmd.files, m, n, damaged)
  /\ cmd.op = "deactivate" => n = Null
  /\ IF cmd.stage = "files" THEN Underway(m, n)
     ELSE Settled(fs, IF Early(cmd.op, cmd.stage) THEN m ELSE n, damaged)

Honest ==
  /\ cmd.stage \notin Working => Settled(fs, fs["manifest"], damaged)
  /\ cmd.stage \in Working \ {"invert"} => \E m, n : Along(m, n)
  /\ cmd.stage = "invert" => \E m, n : Leads(plan, m, n, damaged) /\ Underway(m, n)
  /\ cmd.stage = "idle" /\ cmd.op = "deactivate" /\ cmd.result = "ok" => fs["manifest"] = Null

MInv == Lost \/ Honest
-----------------------------------------------------------------------------
LEMMA SettledManifest ==
  ASSUME NEW f, NEW m, NEW d, Settled(f, m, d), "manifest" \notin d
  PROVE  f["manifest"] = m /\ (m = Null \/ Kind(m) = "manifest")
BY CoveredPaths DEF Settled, Fits

\* Steps that end or interrupt the work with the files settled.
LEMMA ComesToRest ==
  ASSUME cmd'.stage \notin Working, UNCHANGED <<fs, damaged>>, NEW m,
         Lost' \/ Settled(fs, m, damaged),
         \/ Lost' \/ m = Null
         \/ ~(cmd'.stage = "idle" /\ cmd'.op = "deactivate" /\ cmd'.result = "ok")
  PROVE  MInv'
<1>1. CASE Lost'
  BY <1>1 DEF MInv
<1>2. CASE ~Lost'
  <2>1. fs["manifest"] = m
    BY <1>2, SettledManifest DEF Lost
  <2>2. Honest'
    BY <1>2, <2>1 DEF Honest, Working
  <2> QED
    BY <2>2 DEF MInv
<1> QED
  BY <1>1, <1>2

\* Steps to another stage that knows the same of the files.
LEMMA WorksOn ==
  ASSUME MInv, UNCHANGED <<fs, damaged>>, Lost => Lost',
         cmd.stage \in Working \ {"files", "invert"},
         cmd'.stage \in Working \ {"files", "invert"},
         cmd'.op = cmd.op, cmd'.files = cmd.files,
         Early(cmd.op, cmd'.stage) <=> Early(cmd.op, cmd.stage)
  PROVE  MInv'
<1>1. CASE Lost'
  BY <1>1 DEF MInv
<1>2. CASE ~Lost'
  <2>1. PICK m, n : Along(m, n)
    BY <1>2 DEF MInv, Honest
  <2>2. Along(m, n)'
    BY <2>1 DEF Along
  <2>3. Honest'
    BY <2>2 DEF Honest, Working
  <2> QED
    BY <2>3 DEF MInv
<1> QED
  BY <1>1, <1>2

\* A plan that was just made.
LEMMA SetsOut ==
  ASSUME IInv, PInv, MInv, NEW op \in Operations, ProtectionPlan(Snapshot, op).ok,
         cmd.stage \notin Working, cmd'.stage \in {"confirm", "verify"}, cmd'.op = op,
         cmd'.files = ProtectionPlan(Snapshot, op).files,
         UNCHANGED <<fs, damaged>>, Lost => Lost'
  PROVE  MInv'
<1>1. CASE Lost'
  BY <1>1 DEF MInv
<1>2. CASE ~Lost'
  <2>1. SnapshotOK(Snapshot) /\ Snapshot.fs = fs
    BY SnapshotIsOK
  <2>2. Settled(fs, fs["manifest"], damaged)
    BY <1>2 DEF MInv, Honest
  <2>3. PICK n : /\ Leads(cmd'.files, fs["manifest"], n, damaged)
                 /\ op = "deactivate" => n = Null
    BY <2>1, <2>2, ProtectionPlanLeads
  <2>4. Early(cmd'.op, cmd'.stage)
    BY DEF Early
  <2>5. Along(fs["manifest"], n)'
    BY <2>2, <2>3, <2>4 DEF Along
  <2>6. Honest'
    BY <2>5 DEF Honest, Working
  <2> QED
    BY <2>6 DEF MInv
<1> QED
  BY <1>1, <1>2

LEMMA TruthPlanned ==
  ASSUME IInv, PInv, MInv, (\E op \in Operations : Plan(op)) \/ Confirm \/ Decline \/ Undo
  PROVE  MInv'
<1> USE DEF historyVars
<1>1. UNCHANGED <<fs, damaged, crashed>> /\ (incomplete => incomplete')
  BY DEF Plan, Confirm, Decline, Undo
<1>2. Lost => Lost'
  BY <1>1 DEF Lost
<1>3. Fields(cmd)
  BY DEF IInv, CommandOK
<1>4. CASE \E op \in Operations : Plan(op)
  <2>1. PICK op \in Operations : Plan(op)
    BY <1>4
  <2> DEFINE p == ProtectionPlan(Snapshot, op)
             found == [Idle(op, "none") EXCEPT !.stage = "confirm",
                           !.installed = p.installed, !.files = p.files,
                           !.external = p.external]
  <2>2. /\ cmd.stage = "idle" /\ cmd.stage \notin Working
        /\ \/ cmd' = Idle(op, "refused") \/ cmd' = Idle(op, "nothing")
           \/ cmd' = found /\ p.ok
    BY <2>1 DEF Plan, Working
  <2>3. ASSUME NEW r \in {"refused", "nothing"}, cmd' = Idle(op, r) PROVE MInv'
    <3>1. cmd'.stage = "idle" /\ cmd'.result = r
      BY <2>3, IdleFields
    <3>2. "idle" \notin Working /\ r # "ok"
      BY DEF Working
    <3>3. Lost \/ Settled(fs, fs["manifest"], damaged)
      BY <2>2 DEF MInv, Honest
    <3> QED
      BY <1>1, <1>2, <3>1, <3>2, <3>3, ComesToRest
  <2>4. ASSUME cmd' = found, p.ok PROVE MInv'
    <3>1. cmd'.stage = "confirm" /\ cmd'.op = op /\ cmd'.files = p.files
      <4> HIDE DEF p
      <4> QED BY <2>4 DEF Idle
    <3> QED
      BY <1>1, <1>2, <2>2, <2>4, <3>1, SetsOut
  <2> QED
    BY <2>2, <2>3, <2>4
<1>5. CASE Decline
  <2>1. cmd.stage = "confirm" /\ cmd' = Idle(cmd.op, "declined")
    BY <1>5 DEF Decline
  <2>2. cmd'.stage = "idle" /\ cmd'.result = "declined"
    BY <2>1, IdleFields
  <2>3. cmd'.stage \notin Working /\ cmd.stage \in Working \ {"invert"} /\ cmd'.result # "ok"
    BY <2>1, <2>2 DEF Working
  <2>4. Lost \/ \E m : Settled(fs, m, damaged)
    BY <2>1, <2>3 DEF MInv, Honest, Along
  <2> QED
    BY <1>1, <1>2, <2>3, <2>4, ComesToRest
<1>6. CASE Confirm
  <2>1. cmd.stage = "confirm" /\ \E v : cmd' = [cmd EXCEPT !.stage = "verify", !.before = v]
    BY <1>6 DEF Confirm
  <2>2. cmd'.op = cmd.op /\ cmd'.files = cmd.files /\ cmd'.stage = "verify"
    BY <1>3, <2>1 DEF Fields
  <2>3. /\ cmd.stage \in Working \ {"files", "invert"}
        /\ cmd'.stage \in Working \ {"files", "invert"}
        /\ Early(cmd.op, cmd'.stage) /\ Early(cmd.op, cmd.stage)
    BY <2>1, <2>2 DEF Working, Early
  <2> QED
    BY <1>1, <1>2, <2>2, <2>3, WorksOn
<1>7. CASE Undo
  <2> DEFINE p == ProtectionPlan(Snapshot, "deactivate")
             again == [cmd EXCEPT !.stage = "verify", !.op = "deactivate", !.undo = TRUE,
                                  !.at = 0, !.files = p.files, !.external = p.external]
  <2>1. /\ cmd.stage = "undo" /\ cmd.stage \notin Working
        /\ (p.ok /\ cmd' = again) \/ incomplete'
    BY <1>7 DEF Undo, Working
  <2>2. ASSUME p.ok, cmd' = again PROVE MInv'
    <3>1. cmd'.stage = "verify" /\ cmd'.op = "deactivate" /\ cmd'.files = p.files
      <4> HIDE DEF p
      <4> QED BY <1>3, <2>2 DEF Fields
    <3>2. "deactivate" \in Operations
      BY DEF Operations
    <3> QED
      BY <1>1, <1>2, <2>1, <2>2, <3>1, <3>2, SetsOut
  <2>3. ASSUME incomplete' PROVE MInv'
    BY <2>3 DEF MInv, Lost
  <2> QED
    BY <2>1, <2>2, <2>3
<1> QED
  BY <1>4, <1>5, <1>6, <1>7

\* The end of executor.execute(), with the files settled.
LEMMA Ended ==
  ASSUME IInv, NEW r, UNCHANGED <<fs, damaged>>, NEW m,
         cmd' = IF cmd.undo THEN [cmd EXCEPT !.stage = "restoreConfig"] ELSE Idle(cmd.op, r),
         Lost' \/ Settled(fs, m, damaged), Lost' \/ m = Null \/ cmd.op # "deactivate" \/ r # "ok"
  PROVE  MInv'
<1>1. cmd'.stage \in {"idle", "restoreConfig"}
  BY DEF IInv, CommandOK, Fields, Idle
<1>2. cmd'.stage = "idle" => cmd'.op = cmd.op /\ cmd'.result = r
  BY DEF IInv, CommandOK, Fields, Idle
<1>3. cmd'.stage \notin Working
  BY <1>1 DEF Working
<1> QED
  BY <1>2, <1>3, ComesToRest

LEMMA TruthVerified ==
  ASSUME IInv, MInv, Verify
  PROVE  MInv'
<1> USE DEF historyVars
<1>1. UNCHANGED <<fs, damaged, crashed>> /\ (incomplete => incomplete') /\ cmd.stage = "verify"
  <2>1. fs' = fs /\ cmd.stage = "verify" /\ (UNCHANGED historyVars \/ Throw)
    BY DEF Verify
  <2>2. CASE UNCHANGED historyVars
    BY <2>1, <2>2
  <2>3. CASE Throw
    BY <2>1, <2>3, Zenon DEF Throw
  <2> QED
    BY <2>1, <2>2, <2>3
<1>2. Lost => Lost'
  BY <1>1 DEF Lost
<1>3. Fields(cmd)
  BY DEF IInv, CommandOK
<1>4. CASE Throw
  <2>1. cmd' = IF cmd.undo THEN [cmd EXCEPT !.stage = "restoreConfig"] ELSE Idle(cmd.op, "failed")
    BY <1>4 DEF Throw
  <2>2. Lost \/ \E m : Settled(fs, m, damaged)
    BY <1>1 DEF MInv, Honest, Along, Working
  <2> QED
    BY <1>1, <1>2, <2>1, <2>2, Ended
<1>5. CASE IF cmd.op = "deactivate" THEN GotoAt("external", 1) ELSE Goto("execute")
  <2>1. /\ cmd'.op = cmd.op /\ cmd'.files = cmd.files
        /\ cmd'.stage = IF cmd.op = "deactivate" THEN "external" ELSE "execute"
    BY <1>3, <1>5 DEF Fields, Goto, GotoAt
  <2>2. /\ cmd.stage \in Working \ {"files", "invert"}
        /\ cmd'.stage \in Working \ {"files", "invert"}
        /\ Early(cmd.op, cmd'.stage) /\ Early(cmd.op, cmd.stage)
    BY <1>1, <2>1 DEF Working, Early
  <2> QED
    BY <1>1, <1>2, <2>1, <2>2, WorksOn
<1> QED
  BY <1>4, <1>5 DEF Verify

LEMMA TruthBegun ==
  ASSUME IInv, MInv, BeginFiles
  PROVE  MInv'
<1> USE DEF historyVars
<1>1. /\ UNCHANGED <<fs, damaged, crashed, incomplete>> /\ cmd.stage = "execute"
      /\ plan' = cmd.files /\ pc' = "validate" /\ cmd' = [cmd EXCEPT !.stage = "files"]
  BY DEF BeginFiles, Files!Execute, Goto
<1>2. Fields(cmd)
  BY DEF IInv, CommandOK
<1>3. SamePlan /\ cmd'.stage = "files"
  BY <1>1, <1>2, StageFields
<1>4. CASE Lost
  BY <1>1, <1>4 DEF Lost, MInv
<1>5. CASE ~Lost
  <2>1. PICK m, n : Along(m, n)
    BY <1>1, <1>5 DEF MInv, Honest, Working
  <2>2. Settled(fs, m, damaged)
    BY <1>1, <2>1 DEF Along, Early
  <2>3. Underway(m, n)'
    BY <1>1, <2>2 DEF Underway, Passing, Settled
  <2>4. Along(m, n)'
    BY <1>1, <1>3, <2>1, <2>3 DEF Along, SamePlan
  <2>5. Honest'
    BY <1>3, <2>4 DEF Honest, Working
  <2> QED
    BY <2>5 DEF MInv
<1> QED
  BY <1>4, <1>5

LEMMA TruthFilesDone ==
  ASSUME IInv, MInv, FilesDone \/ FilesFailed
  PROVE  MInv'
<1> USE DEF historyVars
<1>1. UNCHANGED <<fs, damaged, crashed>> /\ (incomplete => incomplete') /\ cmd.stage = "files"
  BY DEF FilesDone, FilesFailed, Throw
<1>2. Lost => Lost'
  BY <1>1 DEF Lost
<1>3. Fields(cmd)
  BY DEF IInv, CommandOK
<1>4. CASE Lost
  BY <1>2, <1>4 DEF MInv
<1>5. CASE ~Lost
  <2>1. PICK m, n : Along(m, n)
    BY <1>1, <1>5 DEF MInv, Honest, Working
  <2>2. /\ Leads(cmd.files, m, n, damaged) /\ (cmd.op = "deactivate" => n = Null)
        /\ pc = "done" => Settled(fs, n, damaged)
        /\ pc = "failed" => Settled(fs, m, damaged)
    BY <1>1, <2>1 DEF Along, Underway, Passing, Settled
  <2>3. CASE FilesDone
    <3>1. Settled(fs, n, damaged)
      BY <2>2, <2>3 DEF FilesDone
    <3>2. CASE cmd.op = "deactivate"
      <4>1. cmd' = IF cmd.undo THEN [cmd EXCEPT !.stage = "restoreConfig"] ELSE Idle(cmd.op, "ok")
        BY <2>3, <3>2 DEF FilesDone, Return
      <4> QED
        BY <1>1, <2>2, <3>1, <3>2, <4>1, Ended
    <3>3. CASE cmd.op # "deactivate"
      <4>1. cmd' = [cmd EXCEPT !.stage = "external", !.at = 1]
        BY <2>3, <3>3 DEF FilesDone, GotoAt
      <4>2. SamePlan /\ cmd'.stage = "external"
        BY <1>3, <4>1, StageAtFields
      <4>3. ~Early(cmd'.op, cmd'.stage)
        BY <3>3, <4>2 DEF Early, SamePlan
      <4>4. Along(m, n)'
        BY <1>1, <2>2, <3>1, <3>3, <4>2, <4>3 DEF Along, SamePlan
      <4>5. Honest'
        BY <4>2, <4>4 DEF Honest, Working
      <4> QED
        BY <4>5 DEF MInv
    <3> QED
      BY <3>2, <3>3
  <2>4. CASE FilesFailed
    <3>1. Settled(fs, m, damaged)
      BY <2>2, <2>4 DEF FilesFailed
    <3>2. CASE cmd.op = "deactivate"
      <4>1. cmd' = [cmd EXCEPT !.stage = "rollback", !.at = Len(cmd.external)]
        BY <2>4, <3>2 DEF FilesFailed, GotoAt
      <4>2. SamePlan /\ cmd'.stage = "rollback"
        BY <1>3, <4>1, StageAtFields
      <4>3. Early(cmd'.op, cmd'.stage)
        BY <3>2, <4>2 DEF Early, SamePlan
      <4>4. Along(m, n)'
        BY <1>1, <2>2, <3>1, <4>2, <4>3 DEF Along, SamePlan
      <4>5. Honest'
        BY <4>2, <4>4 DEF Honest, Working
      <4> QED
        BY <4>5 DEF MInv
    <3>3. CASE cmd.op # "deactivate"
      <4>1. cmd' = IF cmd.undo THEN [cmd EXCEPT !.stage = "restoreConfig"]
                               ELSE Idle(cmd.op, "failed")
        BY <2>4, <3>3 DEF FilesFailed, Throw
      <4> QED
        BY <1>1, <3>1, <3>3, <4>1, Ended
    <3> QED
      BY <3>2, <3>3
  <2> QED
    BY <2>3, <2>4
<1> QED
  BY <1>4, <1>5

\* Git and the service are moved while the files stay as they are.
LEMMA TruthExternal ==
  ASSUME IInv, PInv, MInv,
         VerifyTransition \/ ApplyGit \/ ApplyService \/ RestoreQuietly \/ RollbackExternal
  PROVE  MInv'
<1> USE DEF historyVars
<1> DEFINE Outside == {"external", "apply", "restoreQuietly", "rollback"}
<1>1. UNCHANGED <<fs, damaged, crashed>> /\ (incomplete => incomplete')
  BY DEF VerifyTransition, ApplyGit, ApplyService, RestoreQuietly, RollbackExternal
<1>2. Lost => Lost'
  BY <1>1 DEF Lost
<1>3. Fields(cmd)
  BY DEF IInv, CommandOK
<1>4. cmd.stage \in Outside
  BY DEF VerifyTransition, ApplyGit, ApplyService, RestoreQuietly, RollbackExternal
<1>5. \E stage \in Outside :
        \/ cmd' = [cmd EXCEPT !.stage = stage]
        \/ \E at : cmd' = [cmd EXCEPT !.stage = stage, !.at = at]
        \/ \E at : cmd' = [cmd EXCEPT !.stage = stage, !.at = at, !.degraded = TRUE]
  <2>1. CASE VerifyTransition
    BY <2>1 DEF VerifyTransition, Goto, GotoAt
  <2>2. CASE ApplyGit
    BY <2>2 DEF ApplyGit, Goto, GotoAt
  <2>3. CASE ApplyService
    <3>1. \/ cmd' = [cmd EXCEPT !.stage = "external", !.at = cmd.at + 1]
          \/ cmd' = [cmd EXCEPT !.stage = IF cmd.op = "deactivate" THEN "rollback"
                                                                   ELSE "restoreQuietly"]
      BY <2>3 DEF ApplyService, Goto, GotoAt
    <3> QED
      BY <3>1
  <2>4. CASE RestoreQuietly
    BY <2>4 DEF RestoreQuietly
  <2>5. CASE RollbackExternal
    BY <2>5 DEF RollbackExternal, GotoAt
  <2> QED
    BY <2>1, <2>2, <2>3, <2>4, <2>5
<1>6. cmd'.stage \in Outside /\ cmd'.op = cmd.op /\ cmd'.files = cmd.files
  BY <1>3, <1>5 DEF Fields
<1>7. /\ cmd.stage \in Working \ {"files", "invert"}
      /\ cmd'.stage \in Working \ {"files", "invert"}
      /\ Early(cmd.op, cmd'.stage) <=> Early(cmd.op, cmd.stage)
  BY <1>4, <1>6 DEF Working, Early
<1> QED
  BY <1>1, <1>2, <1>6, <1>7, WorksOn

LEMMA TruthExternalDone ==
  ASSUME IInv, MInv, ExternalDone
  PROVE  MInv'
<1> USE DEF historyVars
<1>1. UNCHANGED <<fs, damaged, crashed, incomplete>> /\ cmd.stage = "external"
  BY DEF ExternalDone
<1>2. Lost' <=> Lost
  BY <1>1 DEF Lost
<1>3. Fields(cmd)
  BY DEF IInv, CommandOK
<1>4. CASE cmd.op = "deactivate"
  <2>1. cmd' = [cmd EXCEPT !.stage = "execute"]
    BY <1>4 DEF ExternalDone, FirstActivation, Goto
  <2>2. SamePlan /\ cmd'.stage = "execute"
    BY <1>3, <2>1, StageFields
  <2>3. /\ cmd.stage \in Working \ {"files", "invert"}
        /\ cmd'.stage \in Working \ {"files", "invert"}
        /\ Early(cmd.op, cmd'.stage) /\ Early(cmd.op, cmd.stage)
    BY <1>1, <1>4, <2>2 DEF Working, Early
  <2> QED
    BY <1>1, <1>2, <2>2, <2>3, WorksOn DEF SamePlan
<1>5. CASE cmd.op # "deactivate"
  <2>1. Lost \/ \E n : Settled(fs, n, damaged)
    BY <1>1 DEF MInv, Honest, Along, Working
  <2>2. CASE FirstActivation
    <3>1. cmd' = [cmd EXCEPT !.stage = "writeConfig"]
      BY <1>5, <2>2 DEF ExternalDone, Goto
    <3>2. cmd'.stage = "writeConfig"
      BY <1>3, <3>1, StageFields
    <3>3. cmd'.stage \notin Working
      BY <3>2 DEF Working
    <3> QED
      BY <1>1, <1>2, <2>1, <3>2, <3>3, ComesToRest
  <2>3. CASE ~FirstActivation
    <3>1. cmd' = IF cmd.undo THEN [cmd EXCEPT !.stage = "restoreConfig"] ELSE Idle(cmd.op, "ok")
      BY <1>5, <2>3 DEF ExternalDone, Return
    <3> QED
      BY <1>1, <1>2, <1>5, <2>1, <3>1, Ended
  <2> QED
    BY <2>2, <2>3
<1> QED
  BY <1>4, <1>5

LEMMA TruthInverted ==
  ASSUME IInv, MInv, InvertFiles
  PROVE  MInv'
<1> USE DEF historyVars
<1>1. /\ UNCHANGED <<fs, damaged, crashed, incomplete>>
      /\ cmd.stage = "rollback" /\ cmd.op # "deactivate"
      /\ plan' = Invert(cmd.files) /\ pc' = "validate" /\ cmd' = [cmd EXCEPT !.stage = "invert"]
  BY DEF InvertFiles, Files!Execute, Goto
<1>2. cmd'.stage = "invert"
  BY <1>1, StageFields DEF IInv, CommandOK
<1>3. CASE Lost
  BY <1>1, <1>3 DEF Lost, MInv
<1>4. CASE ~Lost
  <2>1. PICK m, n : Along(m, n)
    BY <1>1, <1>4 DEF MInv, Honest, Working
  <2>2. Leads(cmd.files, m, n, damaged) /\ Settled(fs, n, damaged)
    BY <1>1, <2>1 DEF Along, Early
  <2>3. cmd.files \in Seq(ToSet(cmd.files))
    BY DEF IInv, CommandOK, PlanOK
  <2>4. Leads(Invert(cmd.files), n, m, damaged)
    BY <2>2, <2>3, LeadsBack
  <2>5. Underway(n, m)'
    BY <1>1, <2>2 DEF Underway, Passing, Settled
  <2>6. Leads(plan, n, m, damaged)'
    BY <1>1, <2>4
  <2>7. Honest'
    BY <1>2, <2>5, <2>6 DEF Honest, Working
  <2> QED
    BY <2>7 DEF MInv
<1> QED
  BY <1>3, <1>4

LEMMA TruthRolledBack ==
  ASSUME IInv, MInv, RolledBack
  PROVE  MInv'
<1>1. /\ UNCHANGED <<fs, damaged, crashed>>
      /\ cmd' = IF cmd.undo THEN [cmd EXCEPT !.stage = "restoreConfig"]
                            ELSE Idle(cmd.op, "failed")
  BY DEF RolledBack
<1>2. incomplete => incomplete'
  BY Zenon DEF RolledBack
<1>3. cmd.stage = "invert" /\ pc = "failed" => incomplete'
  BY Zenon DEF RolledBack
<1>4. Lost => Lost'
  BY <1>1, <1>2 DEF Lost
<1>5. Lost' \/ \E m : Settled(fs, m, damaged)
  <2> SUFFICES ASSUME ~Lost' PROVE \E m : Settled(fs, m, damaged)
    OBVIOUS
  <2>1. Honest /\ ~(cmd.stage = "invert" /\ pc = "failed")
    BY <1>3, <1>4 DEF MInv, Lost
  <2>2. CASE cmd.stage = "rollback"
    BY <2>1, <2>2 DEF Honest, Along, Working
  <2>3. CASE cmd.stage = "invert" /\ pc = "done"
    <3>1. PICK m, n : Underway(m, n)
      BY <2>1, <2>3 DEF Honest
    <3>2. Settled(fs, n, damaged)
      BY <2>3, <3>1 DEF Underway, Passing, Settled
    <3> QED
      BY <3>2
  <2> QED
    BY <2>1, <2>2, <2>3 DEF RolledBack
<1> QED
  BY <1>1, <1>5, Ended

LEMMA TruthFileStep ==
  ASSUME IInv, PInv, MInv, FileStep
  PROVE  MInv'
<1>1. /\ UNCHANGED <<cmd, damaged, crashed, plan>> /\ cmd.stage \in {"files", "invert"}
  BY FileStepFacts DEF FileStep
<1>2. incomplete => incomplete'
  BY Zenon DEF FileStep
<1>3. Lost => Lost'
  BY <1>1, <1>2 DEF Lost
<1>4. CASE Lost'
  BY <1>4 DEF MInv
<1>5. CASE ~Lost'
  <2>1. Honest /\ ~incomplete'
    BY <1>3, <1>5 DEF MInv, Lost
  <2>2. ASSUME NEW m, NEW n, Leads(plan, m, n, damaged), Underway(m, n) PROVE Underway(m, n)'
    <3>1. ASSUME NEW x \in Covered \ damaged PROVE Passing(x, m, n)'
      <4>1. Passing(x, m, n)
        BY <2>2 DEF Underway
      <4> QED
        BY <2>1, <2>2, <4>1, PassingStep
    <3> QED
      BY <1>1, <3>1 DEF Underway
  <2>3. CASE cmd.stage = "files"
    <3>1. PICK m, n : Along(m, n)
      BY <2>1, <2>3 DEF Honest, Working
    <3>2. plan = cmd.files
      BY <2>3 DEF PInv, StageOK
    <3>3. Leads(plan, m, n, damaged) /\ Underway(m, n) /\ (cmd.op = "deactivate" => n = Null)
      BY <2>3, <3>1, <3>2 DEF Along
    <3>4. Underway(m, n)'
      BY <2>2, <3>3
    <3>5. Along(m, n)'
      BY <1>1, <2>3, <3>2, <3>3, <3>4 DEF Along
    <3>6. Honest'
      BY <1>1, <2>3, <3>5 DEF Honest, Working
    <3> QED
      BY <3>6 DEF MInv
  <2>4. CASE cmd.stage = "invert"
    <3>1. PICK m, n : Leads(plan, m, n, damaged) /\ Underway(m, n)
      BY <2>1, <2>4 DEF Honest
    <3>2. Leads(plan, m, n, damaged)' /\ Underway(m, n)'
      BY <1>1, <2>2, <3>1
    <3>3. Honest'
      BY <1>1, <2>4, <3>2 DEF Honest, Working
    <3> QED
      BY <3>3 DEF MInv
  <2> QED
    BY <1>1, <2>3, <2>4
<1> QED
  BY <1>4, <1>5

\* Writes outside the files the manifest speaks of, after the work is done.
LEMMA TruthControlPlane ==
  ASSUME IInv, PInv, MInv, Finish \/ RestoreControlPlane
  PROVE  MInv'
<1> USE DEF historyVars
<1>1. UNCHANGED <<damaged, crashed>> /\ Fields(cmd)
  BY DEF Finish, RestoreControlPlane, IInv, CommandOK
<1>2. incomplete => incomplete'
  BY DEF Finish, RestoreControlPlane
<1>3. \A x \in Covered : fs'[x] = fs[x]
  <2>1. fs' = fs \/ \E v : \E p \in {"config", "baseline"} : fs' = [fs EXCEPT ![p] = v]
    BY DEF Finish, RestoreControlPlane
  <2>2. \A x \in Covered : x \in Paths /\ x \notin {"config", "baseline"}
    BY SharedPaths DEF Covered, Artifacts, Backups, Paths
  <2> QED
    BY <2>1, <2>2 DEF IInv, FilesOK
<1>4. \/ \E stage \in {"writeBaseline", "undo", "restoreBaseline"} :
            cmd' = [cmd EXCEPT !.stage = stage]
      \/ cmd' = Idle(cmd.op, "ok") /\ cmd.op # "deactivate"
      \/ cmd' = Idle("activate", "failed")
  BY DEF Finish, RestoreControlPlane, Goto, PInv, StageOK
<1>5. cmd'.stage \in {"writeBaseline", "undo", "restoreBaseline"} \/
      (cmd'.stage = "idle" /\ cmd'.op # "deactivate")
  <2>1. ASSUME NEW stage \in {"writeBaseline", "undo", "restoreBaseline"},
               cmd' = [cmd EXCEPT !.stage = stage]
        PROVE  cmd'.stage = stage
    BY <1>1, <2>1, StageFields
  <2>2. ASSUME NEW op, NEW r, cmd' = Idle(op, r) PROVE cmd'.stage = "idle" /\ cmd'.op = op
    BY <2>2, IdleFields
  <2> QED
    BY <1>4, <2>1, <2>2
<1>6. CASE Lost
  BY <1>1, <1>2, <1>6 DEF MInv, Lost
<1>7. CASE ~Lost
  <2>1. cmd.stage \notin Working
    BY DEF Finish, RestoreControlPlane, Working
  <2>2. Settled(fs, fs["manifest"], damaged) /\ fs'["manifest"] = fs["manifest"]
    BY <1>3, <1>7, <2>1, CoveredPaths DEF MInv, Honest
  <2>3. Settled(fs, fs["manifest"], damaged)'
    BY <1>1, <1>3, <2>2 DEF Settled
  <2>4. Honest'
    BY <1>5, <2>3 DEF Honest, Working
  <2> QED
    BY <2>4 DEF MInv
<1> QED
  BY <1>6, <1>7

LEMMA TruthPurged ==
  ASSUME IInv, MInv, Purge
  PROVE  MInv'
<1> USE DEF historyVars
<1>1. /\ UNCHANGED <<damaged, crashed, incomplete>>
      /\ cmd.stage = "idle" /\ cmd.op = "deactivate" /\ cmd.result = "ok"
      /\ cmd' = Idle("deactivate", "purged")
      /\ fs' = [p \in Paths |-> IF p \in StateDir THEN Null ELSE fs[p]]
  BY DEF Purge
<1>2. cmd'.stage = "idle" /\ cmd'.result = "purged"
  BY <1>1, IdleFields
<1>3. CASE Lost
  BY <1>1, <1>3 DEF MInv, Lost
<1>4. CASE ~Lost
  <2>1. Settled(fs, Null, damaged)
    BY <1>1, <1>4 DEF MInv, Honest, Working
  <2>2. /\ \A x \in Covered : fs'[x] \in {Null, fs[x]}
        /\ fs'["manifest"] = Null
    <3>1. Covered \subseteq Paths /\ "manifest" \in StateDir /\ "manifest" \in Paths
      BY CoveredPaths DEF StateDir, Paths
    <3> QED
      BY <1>1, <3>1
  <2>3. Settled(fs, fs["manifest"], damaged)'
    BY <1>1, <2>1, <2>2, NothingWanted DEF Settled
  <2>4. Honest'
    BY <1>2, <2>2, <2>3 DEF Honest, Working
  <2> QED
    BY <2>4 DEF MInv
<1> QED
  BY <1>3, <1>4

\* What happens outside: a file that is not counted as damaged fits no worse.
LEMMA TruthFromOutside ==
  ASSUME MInv, Stands, UNCHANGED <<plan, pc, cursor, attempted, crashed, incomplete>>,
         damaged \subseteq damaged',
         \A x \in Covered \ damaged' : \A m : Fits(m, x, fs[x]) => Fits(m, x, fs'[x])
  PROVE  MInv'
<1>1. CASE Lost'
  BY <1>1 DEF MInv
<1>2. CASE ~Lost'
  <2>1. Honest /\ "manifest" \notin damaged' /\ "manifest" \in Covered
    BY <1>2, CoveredPaths DEF MInv, Lost
  <2>2. ASSUME NEW m, Settled(fs, m, damaged)
        PROVE  Settled(fs', m, damaged') /\ fs'["manifest"] = m
    <3>1. Settled(fs', m, damaged')
      BY <2>2 DEF Settled
    <3> QED
      BY <2>1, <3>1, SettledManifest
  <2>3. ASSUME NEW m, NEW n, Underway(m, n) PROVE Underway(m, n)'
    <3>1. ASSUME NEW x \in Covered \ damaged' PROVE Passing(x, m, n)'
      <4>1. Passing(x, m, n)
        BY <2>3, <3>1 DEF Underway
      <4>2. \A k : Fits(k, x, fs[x]) => Fits(k, x, fs'[x])
        OBVIOUS
      <4> QED
        BY <4>1, <4>2 DEF Passing
    <3> QED
      BY <3>1 DEF Underway
  <2>4. ASSUME NEW m, NEW n, Along(m, n) PROVE Along(m, n)'
    <3>1. Leads(cmd.files, m, n, damaged')
      BY <2>4, LeadsStill DEF Along
    <3>2. CASE cmd.stage = "files"
      BY <2>3, <2>4, <3>1, <3>2 DEF Along, Stands, SamePlan
    <3>3. CASE cmd.stage # "files"
      <4> DEFINE w == IF Early(cmd.op, cmd.stage) THEN m ELSE n
      <4>1. Settled(fs, w, damaged)
        BY <2>4, <3>3 DEF Along
      <4>2. Settled(fs', w, damaged')
        BY <2>2, <4>1
      <4> QED
        BY <2>4, <3>1, <3>3, <4>2 DEF Along, Stands, SamePlan
    <3> QED
      BY <3>2, <3>3
  <2>5. ASSUME cmd.stage \notin Working PROVE Honest'
    <3>1. Settled(fs, fs["manifest"], damaged)
      BY <2>1, <2>5 DEF Honest
    <3>2. Settled(fs', fs'["manifest"], damaged') /\ fs'["manifest"] = fs["manifest"]
      BY <2>2, <3>1
    <3> QED
      BY <2>1, <2>5, <3>2 DEF Honest, Stands, SamePlan, Working
  <2>6. ASSUME cmd.stage \in Working \ {"invert"} PROVE Honest'
    <3>1. PICK m, n : Along(m, n)
      BY <2>1, <2>6 DEF Honest
    <3>2. Along(m, n)'
      BY <2>4, <3>1
    <3> QED
      BY <2>6, <3>2 DEF Honest, Stands, Working
  <2>7. ASSUME cmd.stage = "invert" PROVE Honest'
    <3>1. PICK m, n : Leads(plan, m, n, damaged) /\ Underway(m, n)
      BY <2>1, <2>7 DEF Honest
    <3>2. Leads(plan, m, n, damaged') /\ Underway(m, n)'
      BY <2>3, <3>1, LeadsStill
    <3> QED
      BY <2>7, <3>2 DEF Honest, Stands, Working
  <2>8. Honest'
    BY <2>5, <2>6, <2>7 DEF Working
  <2> QED
    BY <2>8 DEF MInv
<1> QED
  BY <1>1, <1>2

LEMMA TruthEdited ==
  ASSUME IInv, MInv, NEW p \in Shared, NEW content \in UserContents, EditShared(p, content)
  PROVE  MInv'
<1>1. p \in Paths /\ content \in Plain /\ Covered \subseteq Paths
  BY SharedPaths, CoveredPaths DEF Paths, Plain
<1>2. PICK v : Write(p, v) /\ (v = content \/ (v = Merged(content) /\ Kind(fs[p]) = "merged"))
  BY DEF EditShared
<1>3. fs' = [fs EXCEPT ![p] = v] /\ UNCHANGED <<plan, pc, cursor, attempted>>
  BY <1>1, <1>2, WriteFrame
<1>4. UNCHANGED <<damaged, crashed, incomplete>> /\ Harm(p)
  BY DEF EditShared
<1>5. \A x \in Covered : fs'[x] = IF x = p THEN v ELSE fs[x]
  BY <1>1, <1>3 DEF IInv, FilesOK
<1>6. \A m : Fits(m, p, fs[p]) => Fits(m, p, v)
  <2>1. CASE v = content
    BY <1>1, <2>1, UserContentFits
  <2>2. CASE Kind(fs[p]) = "merged"
    <3>1. p # "manifest"
      BY CoveredPaths
    <3> QED
      BY <2>2, <3>1 DEF Fits
  <2> QED
    BY <1>2, <2>1, <2>2
<1>7. \A x \in Covered \ damaged' : \A m : Fits(m, x, fs[x]) => Fits(m, x, fs'[x])
  BY <1>5, <1>6
<1>8. Stands
  BY <1>4, HarmStands
<1> QED
  BY <1>3, <1>4, <1>7, <1>8, TruthFromOutside

LEMMA TruthDamaged ==
  ASSUME IInv, MInv, NEW p \in Fragile, NEW content \in UserContents \cup {Null},
         Damage(p, content)
  PROVE  MInv'
<1>1. p \in Paths /\ Covered \subseteq Paths
  BY FragileAssumption, CoveredPaths DEF Covered
<1>2. /\ UNCHANGED <<crashed, incomplete>> /\ damaged' = damaged \cup {p}
      /\ Write(p, content) /\ Harm(p)
  BY DEF Damage
<1>3. fs' = [fs EXCEPT ![p] = content] /\ UNCHANGED <<plan, pc, cursor, attempted>>
  BY <1>1, <1>2, WriteFrame
<1>4. \A x \in Covered \ damaged' : fs'[x] = fs[x]
  BY <1>1, <1>2, <1>3 DEF IInv, FilesOK
<1>5. Stands
  BY <1>2, HarmStands
<1> QED
  BY <1>2, <1>3, <1>4, <1>5, TruthFromOutside

LEMMA TruthOutside ==
  ASSUME IInv, MInv, (\E h \in HooksPaths \cup {Null} : SetHooksPath(h)) \/ ServiceStops
  PROVE  MInv'
<1> USE DEF historyVars, fileVars
<1>1. /\ UNCHANGED <<fs, plan, pc, cursor, attempted, damaged, crashed, incomplete>>
      /\ \E y : Harm(y)
  BY DEF SetHooksPath, ServiceStops
<1>2. Stands
  BY <1>1, HarmStands
<1> QED
  BY <1>1, <1>2, TruthFromOutside

LEMMA TruthHeard ==
  ASSUME IInv, MInv, Announce \/ HandOver
  PROVE  MInv'
<1>1. /\ UNCHANGED <<fs, plan, pc, cursor, attempted, damaged, crashed, incomplete>>
      /\ Stands
  BY DaemonFrame, DaemonStands DEF fileVars, historyVars
<1> QED
  BY <1>1, TruthFromOutside

LEMMA TruthInterrupted ==
  ASSUME IInv, MInv, Upgrade \/ Crash
  PROVE  MInv'
<1> USE DEF historyVars
<1>1. CASE Crash
  BY <1>1 DEF Crash, MInv, Lost
<1>2. CASE Upgrade
  <2>1. /\ UNCHANGED <<fs, damaged, crashed, incomplete>> /\ cmd.stage = "idle"
        /\ cmd' = Idle("none", "none")
    BY <1>2 DEF Upgrade
  <2>2. cmd'.stage = "idle" /\ cmd'.op = "none"
    BY <2>1, IdleFields
  <2>3. cmd.stage \notin Working /\ cmd'.stage \notin Working
    BY <2>1, <2>2 DEF Working
  <2>4. Lost' \/ Settled(fs, fs["manifest"], damaged)
    BY <2>1, <2>3 DEF MInv, Honest, Lost
  <2> QED
    BY <2>1, <2>2, <2>3, <2>4, ComesToRest
<1> QED
  BY <1>1, <1>2

LEMMA InitMInv == Init => MInv
<1> SUFFICES ASSUME Init PROVE MInv
  OBVIOUS
<1>1. PICK s, q \in Originals :
        fs = [p \in Paths |-> CASE p = "settings" -> s [] p = "profile" -> q [] OTHER -> Null]
  BY DEF Init
<1>2. \A x \in Covered : fs[x] = Null \/ (x \in Shared /\ fs[x] \in Plain)
  BY <1>1, OriginalsAssumption, SharedPaths, CoveredPaths DEF Plain, OwnFiles, Backups
<1>3. fs["manifest"] = Null
  BY <1>1 DEF Paths
<1>4. cmd.stage = "idle" /\ cmd.op = "none"
  BY DEF Init, Idle
<1>5. Settled(fs, fs["manifest"], damaged)
  BY <1>2, <1>3, NothingWanted, UserContentFits DEF Settled
<1> QED
  BY <1>4, <1>5 DEF MInv, Honest, Working

LEMMA NextMInv == IInv /\ PInv /\ MInv /\ [Next]_vars => MInv'
<1> SUFFICES ASSUME IInv, PInv, MInv, [Next]_vars PROVE MInv'
  OBVIOUS
<1>1. CASE (\E op \in Operations : Plan(op)) \/ Confirm \/ Decline
  BY <1>1, TruthPlanned
<1>2. CASE Step
  <2>1. CASE Verify \/ BeginFiles \/ FilesDone \/ FilesFailed
    BY <2>1, TruthVerified, TruthBegun, TruthFilesDone
  <2>2. CASE FileStep
    BY <2>2, TruthFileStep
  <2>3. CASE VerifyTransition \/ ApplyGit \/ ApplyService \/ RestoreQuietly \/ ExternalDone
    BY <2>3, TruthExternal, TruthExternalDone
  <2>4. CASE RollbackExternal \/ InvertFiles \/ RolledBack
    BY <2>4, TruthExternal, TruthInverted, TruthRolledBack
  <2>5. CASE Finish \/ Undo \/ RestoreControlPlane
    BY <2>5, TruthControlPlane, TruthPlanned
  <2> QED
    BY <1>2, <2>1, <2>2, <2>3, <2>4, <2>5 DEF Step
<1>3. CASE Purge
  BY <1>3, TruthPurged
<1>4. ASSUME NEW p \in ToSet(SharedIds), NEW c \in UserContents, EditShared(p, c) PROVE MInv'
  BY <1>4, TruthEdited DEF Shared
<1>5. CASE (\E h \in HooksPaths \cup {Null} : SetHooksPath(h)) \/ ServiceStops
  BY <1>5, TruthOutside
<1>6. ASSUME NEW p \in Fragile, NEW c \in UserContents \cup {Null}, Damage(p, c) PROVE MInv'
  BY <1>6, TruthDamaged
<1>7. CASE Upgrade \/ Crash
  BY <1>7, TruthInterrupted
<1>8. CASE UNCHANGED vars
  <2>1. /\ UNCHANGED <<fs, plan, pc, cursor, attempted, damaged, crashed, incomplete>>
        /\ Stands
    BY <1>8 DEF vars, fileVars, historyVars, Stands, SamePlan
  <2> QED
    BY <2>1, TruthFromOutside
<1>9. CASE Announce \/ HandOver
  BY <1>9, TruthHeard
<1> QED
  BY <1>1, <1>2, <1>3, <1>4, <1>5, <1>6, <1>7, <1>8, <1>9 DEF Next

\* Only managed files are ever counted as damaged.
OnlyManaged == damaged \subseteq Artifacts

LEMMA OnlyManagedKept == OnlyManaged /\ [Next]_vars => OnlyManaged'
<1> SUFFICES ASSUME OnlyManaged, [Next]_vars PROVE OnlyManaged'
  OBVIOUS
<1> USE DEF historyVars
<1>1. damaged' = damaged \/ \E p \in Fragile : damaged' = damaged \cup {p}
  <2>1. CASE (\E op \in Operations : Plan(op)) \/ Confirm \/ Decline \/ Purge
    BY <2>1 DEF Plan, Confirm, Decline, Purge
  <2>2. CASE Verify \/ BeginFiles \/ FileStep \/ FilesDone \/ FilesFailed
    BY <2>2 DEF Verify, Throw, BeginFiles, FileStep, FilesDone, FilesFailed
  <2>3. CASE VerifyTransition \/ ApplyGit \/ ApplyService \/ RestoreQuietly \/ ExternalDone
    BY <2>3 DEF VerifyTransition, ApplyGit, ApplyService, RestoreQuietly, ExternalDone
  <2>4. CASE RollbackExternal \/ InvertFiles \/ RolledBack
    BY <2>4 DEF RollbackExternal, InvertFiles, RolledBack
  <2>5. CASE Finish \/ Undo \/ RestoreControlPlane
    BY <2>5 DEF Finish, Undo, RestoreControlPlane
  <2>6. ASSUME NEW p, NEW c, EditShared(p, c) PROVE damaged' = damaged
    BY <2>6 DEF EditShared
  <2>7. ASSUME NEW h, SetHooksPath(h) PROVE damaged' = damaged
    BY <2>7 DEF SetHooksPath
  <2>8. ASSUME NEW p, NEW c, Damage(p, c) PROVE damaged' = damaged \cup {p}
    BY <2>8 DEF Damage
  <2>9. CASE ServiceStops \/ Announce \/ HandOver \/ Upgrade \/ Crash \/ UNCHANGED vars
    BY <2>9 DEF ServiceStops, Announce, HandOver, Upgrade, Crash, vars
  <2> QED
    BY <2>1, <2>2, <2>3, <2>4, <2>5, <2>6, <2>7, <2>8, <2>9 DEF Next, Step
<1> QED
  BY <1>1, FragileAssumption DEF OnlyManaged

\* A machine without a manifest.
LEMMA NoManifestUntouched ==
  ASSUME IInv, PInv, HInv, OnlyManaged, ~Lost, fs["manifest"] = Null,
         Settled(fs, Null, damaged)
  PROVE  Untouched
<1>1. ASSUME NEW p \in Artifacts \ damaged PROVE fs[p] = Null
  <2>1. p \in Covered /\ p \notin Shared
    BY SharedPaths DEF Covered, Artifacts, Backups
  <2>2. Fits(Null, p, fs[p]) /\ Wants(Null, p) = {}
    BY <2>1, NothingWanted DEF Settled
  <2> QED
    BY <2>1, <2>2 DEF Fits
<1>2. ASSUME NEW p \in Shared \ contested PROVE fs[p] = user[p]
  <2>1. p \in Covered \ damaged /\ p # "manifest"
    BY SharedPaths DEF Covered, Artifacts, Backups, OnlyManaged
  <2>2. Fits(Null, p, fs[p]) /\ Wants(Null, p) = {}
    BY <2>1, NothingWanted DEF Settled
  <2>3. Kind(fs[p]) # "merged"
    BY <2>1, <2>2 DEF Fits
  <2>4. fs[p] \in Plain
    BY <2>3, PlainOrMerged DEF IInv, FilesOK
  <2>5. Own(fs[p]) = user[p]
    BY DEF IInv, UserBytesSurvive, Shared
  <2> QED
    BY <2>4, <2>5, OwnPart
<1>3. "git" \in contested \/ git = hooksPath
  <2>1. PointerOK("gitRecord")
    BY DEF PInv, Targets, Excused, File, Lost
  <2>2. git # "managed"
    BY <2>1 DEF PointerOK, Off, Now, Via, File
  <2> QED
    BY <2>2 DEF HInv
<1>4. svc = "absent"
  <2>1. PointerOK("serviceRecord")
    BY DEF PInv, Targets, Excused, File, Lost
  <2> QED
    BY <2>1 DEF PointerOK, Off, Now, Via, File
<1> QED
  BY <1>1, <1>2, <1>3, <1>4 DEF Untouched, Shared

\* A machine with one.
LEMMA ManifestVouched ==
  ASSUME IInv, PInv, ~Lost, fs["manifest"] # Null, Settled(fs, fs["manifest"], damaged)
  PROVE  Vouched
<1> DEFINE m == fs["manifest"]
<1>1. Kind(m) = "manifest"
  BY SettledManifest DEF Lost, Kind
<1>2. Recorded(m) /\ \A e \in ToSet(m.entries) : EntryOK(e)
  BY <1>1 DEF PInv, RecordsOK, IInv, FilesOK, ManifestOK
<1>3. \A e \in ToSet(m.entries) : e.id \in Shared \/ (e.original = Null /\ e.id \in OwnFiles)
  <2> HIDE DEF m
  <2> QED BY <1>1, <1>2, RecordedEntries DEF OwnFiles
<1> SUFFICES ASSUME NEW e \in ToSet(m.entries)
             PROVE  /\ e.ownership = "owned" => fs[e.id] = e.installed \/ e.id \in damaged
                    /\ e.original # Null => \/ fs[BackupPath(e.id)] = e.original
                                            \/ BackupPath(e.id) \in damaged
  BY DEF Vouched
<1> HIDE DEF m
<1>4. ASSUME e.ownership = "owned", e.id \notin damaged PROVE fs[e.id] = e.installed
  <2>1. e.id \in OwnFiles
    BY <1>2, <1>3, <1>4 DEF EntryOK
  <2>2. e.id \in Covered /\ e.id \notin Shared \cup Backups \cup {"manifest"}
    BY <2>1, CoveredPaths
  <2>3. e.installed \in Wants(m, e.id)
    BY <1>1, <2>2 DEF Wants, Named
  <2>4. Fits(m, e.id, fs[e.id])
    BY <1>4, <2>2 DEF Settled, m
  <2> QED
    BY <2>2, <2>3, <2>4 DEF Fits
<1>5. ASSUME e.original # Null, BackupPath(e.id) \notin damaged
      PROVE  fs[BackupPath(e.id)] = e.original
  <2> DEFINE x == BackupPath(e.id)
  <2>1. e.id \in Shared
    BY <1>3, <1>5
  <2>2. x \in Covered /\ x \in Backups /\ x \notin Shared \cup {"manifest"}
    BY <2>1, CoveredPaths
  <2>3. e.original \in Wants(m, x)
    BY <1>1, <1>5, <2>1, <2>2 DEF Wants, BackedUp
  <2>4. Fits(m, x, fs[x])
    BY <1>5, <2>2 DEF Settled, m
  <2> QED
    BY <2>2, <2>3, <2>4 DEF Fits
<1> QED
  BY <1>4, <1>5

\* Between commands, after any number of activations, repairs and deactivations,
\* failed and rolled back ones included, the manifest tells the truth: without
\* one nothing of agentkeeper is left and the files, core.hooksPath and the
\* service are as the user had them; with one every owned file it records and
\* every backup it counts on is in place.  Excused are a crash, a failed
\* rollback step, damage to the manifest, and the damaged files themselves.
THEOREM TheManifestIsTruth == Spec => []ManifestIsTruth
<1>1. IInv /\ PInv /\ HInv /\ MInv /\ OnlyManaged => ManifestIsTruth
  <2> SUFFICES ASSUME IInv, PInv, HInv, MInv, OnlyManaged, cmd.stage = "idle", ~Lost
               PROVE  IF fs["manifest"] = Null THEN Untouched ELSE Vouched
    BY DEF ManifestIsTruth, Lost
  <2>1. Settled(fs, fs["manifest"], damaged)
    BY DEF MInv, Honest, Working
  <2> QED
    BY <2>1, NoManifestUntouched, ManifestVouched
<1>2. Init => IInv /\ PInv /\ HInv /\ MInv /\ OnlyManaged
  <2>1. Init => OnlyManaged
    BY DEF Init, OnlyManaged
  <2> QED
    BY <2>1, InitIInv, InitPInv, InitHInv, InitMInv
<1>3. (IInv /\ PInv /\ HInv /\ MInv /\ OnlyManaged) /\ [Next]_vars
        => (IInv /\ PInv /\ HInv /\ MInv /\ OnlyManaged)'
  BY NextIInv, NextPInv, NextHInv, NextMInv, OnlyManagedKept
<1> QED
  BY <1>1, <1>2, <1>3, PTL DEF Spec
=============================================================================
