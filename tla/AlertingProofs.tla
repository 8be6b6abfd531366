---------------------------- MODULE AlertingProofs ----------------------------
(***************************************************************************)
(* The two ends of the daemon's monitor: the watch session that hears of a *)
(* change, and the notification budget that decides whether the user is    *)
(* told.  What both guarantee, for every tree, every set of targets and    *)
(* every order of events; for every policy, every number of keys and every *)
(* clock that is not set back.                                             *)
(***************************************************************************)
EXTENDS NotificationBudget, WatchSession, FiniteSetTheorems, WellFoundedInduction, TLAPS

-----------------------------------------------------------------------------
(* The notification budget.                                                *)

USE PolicyAssumption, BoundAssumption, NullAssumption

\* What claim() does when it grants: the next number, the current instant.
Granting(key) ==
    /\ ~ \E g \in Prune(recentlySent) : granted[g].key = key
    /\ granted' = Append(granted, [key |-> key, at |-> now])
    /\ recentlySent' = EnforceRecentBound(Prune(recentlySent) \cup {Len(granted) + 1})
    /\ answer' = [key |-> key, at |-> now, verdict |-> "granted"]
    /\ IF WindowIsOver
       THEN windowStartedAt' = now /\ sentInWindow' = 1
       ELSE /\ sentInWindow < MaxPerWindow
            /\ windowStartedAt' = windowStartedAt /\ sentInWindow' = sentInWindow + 1
    /\ UNCHANGED <<now, stepped>>

\* What claim() does when it refuses: only expired keys are forgotten.
Refusing(key) ==
    /\ recentlySent' = Prune(recentlySent)
    /\ UNCHANGED <<now, stepped, granted, windowStartedAt, sentInWindow>>
    /\ \/ /\ \E g \in Prune(recentlySent) : granted[g].key = key
          /\ answer' = [key |-> key, at |-> now, verdict |-> "duplicate"]
       \/ /\ ~WindowIsOver /\ sentInWindow >= MaxPerWindow
          /\ answer' = [key |-> key, at |-> now, verdict |-> "rate-limit"]

\* claim() either grants or refuses; a refusal never opens a window.
LEMMA ClaimCases ==
    ASSUME TypeOK, NEW key \in Key, Claim(key)
    PROVE  Granting(key) \/ Refusing(key)
<1>1. CASE \E g \in Prune(recentlySent) : granted[g].key = key
  BY <1>1 DEF Claim, Refusing, Respond
<1>2. CASE ~ \E g \in Prune(recentlySent) : granted[g].key = key
  <2>1. CASE WindowIsOver
    <3>1. ~(0 >= MaxPerWindow)
      OBVIOUS
    <3>2. sentInWindow' = 1 /\ windowStartedAt' = now
      BY <1>2, <2>1, <3>1 DEF Claim
    <3> QED BY <1>2, <2>1, <3>1, <3>2 DEF Claim, Granting, Respond
  <2>2. CASE ~WindowIsOver /\ sentInWindow >= MaxPerWindow
    BY <1>2, <2>2 DEF Claim, Refusing, Respond
  <2>3. CASE ~WindowIsOver /\ ~(sentInWindow >= MaxPerWindow)
    <3>1. sentInWindow < MaxPerWindow
      BY <2>3 DEF TypeOK
    <3> QED BY <1>2, <2>3, <3>1 DEF Claim, Granting, Respond
  <2> QED BY <2>1, <2>2, <2>3
<1> QED BY <1>1, <1>2

\* The oldest of a finite, nonempty set of grant numbers is well defined, and
\* all the others come after it.
LEMMA OldestIsLeast ==
    ASSUME NEW n \in Nat, NEW S \in SUBSET (1..n), S # {}
    PROVE  Oldest(S) \in S /\ \A h \in S : Oldest(S) <= h
<1>1. PICK g \in S : \A h \in S : g <= h
  <2> DEFINE R == OpToRel(<, Nat)
  <2>1. S \subseteq Nat
    OBVIOUS
  <2>2. PICK g \in S : \A h \in S : ~(<<h, g>> \in R)
    <3> HIDE DEF R
    <3>1. IsWellFoundedOn(R, Nat)
      BY NatLessThanWellFounded DEF R
    <3> QED BY <2>1, <3>1, WFMin
  <2>3. \A h \in S : ~(h < g)
    BY <2>1, <2>2 DEF OpToRel
  <2> QED BY <2>1, <2>3
<1> QED BY <1>1 DEF Oldest

\* enforceRecentBound keeps the bound, and forgets a grant only if RecentBound
\* others follow it.
LEMMA EnforcedBound ==
    ASSUME NEW n \in Nat \ {0}, NEW R \in SUBSET (1..(n - 1)), Cardinality(R) <= RecentBound
    PROVE  LET S == EnforceRecentBound(R \cup {n}) IN
           /\ S \subseteq 1..n
           /\ Cardinality(S) <= RecentBound
           /\ \A i \in (R \cup {n}) \ S : n - i >= RecentBound
<1> DEFINE T == R \cup {n}
<1>1. /\ IsFiniteSet(T) /\ Cardinality(T) = Cardinality(R) + 1
      /\ Cardinality(R) \in Nat
  <2>1. IsFiniteSet(1..(n - 1))
    BY FS_Interval
  <2>2. IsFiniteSet(R)
    BY <2>1, FS_Subset
  <2>3. n \notin R
    OBVIOUS
  <2> QED BY <2>2, <2>3, FS_AddElement, FS_CardinalityType
<1>2. T \in SUBSET (1..n) /\ n \in T
  OBVIOUS
<1> HIDE DEF T
<1>3. CASE ~(Cardinality(T) > RecentBound)
  <2>1. EnforceRecentBound(T) = T
    BY <1>3 DEF EnforceRecentBound
  <2>2. Cardinality(T) <= RecentBound
    BY <1>1, <1>3
  <2> QED BY <1>2, <2>1, <2>2 DEF T
<1>4. CASE Cardinality(T) > RecentBound
  <2> DEFINE o == Oldest(T)
  <2>1. EnforceRecentBound(T) = T \ {o}
    BY <1>4 DEF EnforceRecentBound
  <2>2. o \in T /\ \A h \in T : o <= h
    BY <1>2, OldestIsLeast
  <2> HIDE DEF o
  <2>3. Cardinality(T \ {o}) = Cardinality(T) - 1
    BY <1>1, <2>2, FS_RemoveElement
  <2>4. o \in 1..n
    BY <1>2, <2>2
  <2>5. Cardinality(T) <= n - o + 1
    <3>1. T \subseteq o..n
      BY <1>2, <2>2, <2>4
    <3>2. IsFiniteSet(o..n) /\ Cardinality(o..n) = n - o + 1
      BY <2>4, FS_Interval
    <3> QED BY <3>1, <3>2, FS_Subset
  <2>6. n - o >= RecentBound
    BY <1>1, <1>4, <2>4, <2>5
  <2>7. \A i \in T \ (T \ {o}) : i = o
    OBVIOUS
  <2>8. Cardinality(T \ {o}) <= RecentBound
    BY <1>1, <2>3
  <2> QED BY <1>2, <2>1, <2>6, <2>7, <2>8 DEF T
<1> QED BY <1>3, <1>4

\* prune only forgets, so it keeps the bound.
LEMMA PruneShrinks ==
    ASSUME TypeOK
    PROVE  /\ Prune(recentlySent) \subseteq recentlySent
           /\ Prune(recentlySent) \in SUBSET (1..Len(granted))
           /\ Cardinality(Prune(recentlySent)) <= RecentBound
<1> DEFINE R == Prune(recentlySent)
<1>1. R \subseteq recentlySent /\ recentlySent \subseteq 1..Len(granted)
  BY DEF Prune, TypeOK
<1> HIDE DEF R
<1>2. IsFiniteSet(1..Len(granted))
  BY FS_Interval DEF TypeOK
<1>3. IsFiniteSet(recentlySent)
  BY <1>1, <1>2, FS_Subset
<1>4. Cardinality(R) <= Cardinality(recentlySent) /\ IsFiniteSet(R)
  BY <1>1, <1>3, FS_Subset
<1>5. Cardinality(R) \in Nat /\ Cardinality(recentlySent) \in Nat
  BY <1>3, <1>4, FS_CardinalityType
<1>6. Cardinality(R) <= RecentBound
  BY <1>4, <1>5 DEF TypeOK
<1> QED BY <1>1, <1>6 DEF R

\* The history after a grant: the old one, and one more entry.
LEMMA Appended ==
    ASSUME TypeOK, NEW key \in Key, Granting(key)
    PROVE  /\ granted' \in Seq(Grant)
           /\ Len(granted') = Len(granted) + 1
           /\ \A i \in DOMAIN granted : granted'[i] = granted[i]
           /\ granted'[Len(granted) + 1].key = key
           /\ granted'[Len(granted) + 1].at = now
           /\ DOMAIN granted' = 1..(Len(granted) + 1)
           /\ DOMAIN granted = 1..Len(granted)
           /\ Len(granted) \in Nat
           /\ \A i \in DOMAIN granted : granted[i].at \in Nat
<1> DEFINE e == [key |-> key, at |-> now]
<1>1. granted \in Seq(Grant) /\ e \in Grant /\ granted' = Append(granted, e)
  BY DEF TypeOK, Granting, Grant
<1>2. /\ e.key = key /\ e.at = now
      /\ \A i \in DOMAIN granted : granted[i] \in Grant
  BY <1>1
<1> HIDE DEF e
<1>3. \A i \in DOMAIN granted : granted[i].at \in Nat
  BY <1>2 DEF Grant
<1> QED BY <1>1, <1>2, <1>3

-----------------------------------------------------------------------------

\* A grant keeps the types; its number is new, its instant the clock's.
LEMMA GrantKeepsType ==
    ASSUME TypeOK, NEW key \in Key, Granting(key)
    PROVE  TypeOK'
<1> DEFINE n == Len(granted) + 1
           R == Prune(recentlySent)
<1>1. n \in Nat \ {0} /\ n - 1 = Len(granted)
  BY DEF TypeOK
<1>2. recentlySent' = EnforceRecentBound(R \cup {n})
  BY DEF Granting
<1>3. recentlySent' \subseteq 1..n /\ Cardinality(recentlySent') <= RecentBound
  <2> HIDE DEF n
  <2>1. R \in SUBSET (1..(n - 1)) /\ Cardinality(R) <= RecentBound
    BY <1>1, PruneShrinks
  <2> HIDE DEF R
  <2> QED BY <1>1, <1>2, <2>1, EnforcedBound
<1>4. windowStartedAt' \in Nat \cup {Null} /\ sentInWindow' \in 0..MaxPerWindow
  BY DEF TypeOK, Granting
<1>5. answer' \in Answer
  BY DEF TypeOK, Granting, Answer
<1>6. stepped' \in BOOLEAN /\ now' \in Nat
  BY DEF TypeOK, Granting
<1> QED BY <1>3, <1>4, <1>5, <1>6, Appended DEF TypeOK

\* A refusal keeps the types.
LEMMA RefusalKeepsType ==
    ASSUME TypeOK, NEW key \in Key, Refusing(key)
    PROVE  TypeOK'
<1>1. recentlySent' = Prune(recentlySent)
  BY DEF Refusing
<1>2. recentlySent' \subseteq 1..Len(granted) /\ Cardinality(recentlySent') <= RecentBound
  BY <1>1, PruneShrinks
<1>3. answer' \in Answer
  BY DEF TypeOK, Refusing, Answer
<1>4. stepped' \in BOOLEAN
  BY DEF TypeOK, Refusing
<1> QED BY <1>1, <1>2, <1>3, <1>4 DEF TypeOK, Refusing

-----------------------------------------------------------------------------
(* What a grant does to the history-dependent parts of the invariant. *)

Timely == OrderInv /\ WindowInv /\ MemoryInv /\ NoEarlyRepeat /\ BurstIsBounded
            /\ RefusalsAreEarned

\* A grant is made now, so after all earlier ones.
LEMMA GrantKeepsOrder ==
    ASSUME TypeOK, OrderInv, NEW key \in Key, Granting(key)
    PROVE  OrderInv'
<1>1. now' = now /\ now \in Nat
  BY DEF Granting, TypeOK
<1>2. \A i \in DOMAIN granted' : granted'[i].at <= now
  BY <1>1, Appended DEF OrderInv
<1>3. \A i, j \in DOMAIN granted' : i <= j => granted'[i].at <= granted'[j].at
  BY <1>1, <1>2, Appended DEF OrderInv
<1> QED BY <1>1, <1>2, <1>3 DEF OrderInv

\* An open window grows by one grant; a new one leaves at most MaxPerWindow
\* grants between the old window's start and its own.
LEMMA GrantKeepsWindow ==
    ASSUME TypeOK, OrderInv, WindowInv, NEW key \in Key, Granting(key)
    PROVE  WindowInv'
<1> DEFINE n == Len(granted)
<1>0. /\ n \in Nat /\ now \in Nat /\ now' = now /\ sentInWindow \in 0..MaxPerWindow
      /\ granted' # <<>>
  BY Appended DEF TypeOK, Granting
<1>1. CASE WindowIsOver
  <2>1. windowStartedAt' = now /\ sentInWindow' = 1
    BY <1>1 DEF Granting
  <2>2. ASSUME NEW i \in DOMAIN granted', i <= n + 1 - 1 - MaxPerWindow + 1
        PROVE  granted'[i].at + Window <= now
    <3>1. i \in DOMAIN granted /\ granted # <<>>
      BY <1>0, <2>2, Appended
    <3>2. windowStartedAt \in Nat /\ now - windowStartedAt >= Window
      BY <1>1, <3>1 DEF WindowIsOver, WindowInv, TypeOK
    <3>3. /\ n - sentInWindow + 1 \in DOMAIN granted
          /\ windowStartedAt = granted[n - sentInWindow + 1].at
          /\ i <= n - sentInWindow + 1
      BY <1>0, <2>2, <3>1, Appended DEF WindowInv
    <3>4. granted[i].at <= windowStartedAt
      BY <3>1, <3>3 DEF OrderInv
    <3> QED BY <1>0, <3>1, <3>2, <3>4, Appended
  <2>3. Null # now
    BY <1>0
  <2> HIDE DEF n
  <2>4. windowStartedAt' = granted'[Len(granted') - sentInWindow' + 1].at
    BY <2>1, <1>0, Appended DEF n
  <2> QED BY <1>0, <2>1, <2>2, <2>3, <2>4, Appended DEF WindowInv, n
<1>2. CASE ~WindowIsOver
  <2>1. /\ windowStartedAt' = windowStartedAt /\ sentInWindow' = sentInWindow + 1
        /\ windowStartedAt # Null /\ granted # <<>>
    BY <1>2 DEF Granting, WindowIsOver, WindowInv
  <2>2. sentInWindow \in 1..n /\ windowStartedAt = granted[n - sentInWindow + 1].at
    BY <2>1 DEF WindowInv
  <2>3. Len(granted') - sentInWindow' = n - sentInWindow /\ sentInWindow' \in 1..Len(granted')
    BY <1>0, <2>1, <2>2, Appended
  <2>4. windowStartedAt' = granted'[Len(granted') - sentInWindow' + 1].at
    BY <1>0, <2>1, <2>2, <2>3, Appended
  <2>5. \A i \in DOMAIN granted' :
           i <= n - sentInWindow - MaxPerWindow + 1 =>
               granted'[i].at + Window <= windowStartedAt'
    BY <1>0, <2>1, <2>2, Appended DEF WindowInv
  <2> QED BY <1>0, <2>1, <2>3, <2>4, <2>5 DEF WindowInv
<1> QED BY <1>1, <1>2

\* What a grant pushes out of memory has RecentBound grants after it.
LEMMA GrantKeepsMemory ==
    ASSUME TypeOK, MemoryInv, NEW key \in Key, Granting(key)
    PROVE  MemoryInv'
<1> DEFINE n == Len(granted) + 1
           R == Prune(recentlySent)
<1>1. n \in Nat \ {0} /\ n - 1 = Len(granted) /\ now' = now /\ now \in Nat
  BY DEF TypeOK, Granting
<1>2. recentlySent' = EnforceRecentBound(R \cup {n})
  BY DEF Granting
<1>3. \A i \in R \cup {n} : i \in recentlySent' \/ n - i >= RecentBound
  <2> HIDE DEF n
  <2>1. R \in SUBSET (1..(n - 1)) /\ Cardinality(R) <= RecentBound
    BY <1>1, PruneShrinks
  <2> HIDE DEF R
  <2> QED BY <1>1, <1>2, <2>1, EnforcedBound
<1>4. SUFFICES ASSUME NEW i \in DOMAIN granted', now' - granted'[i].at < Cooldown
               PROVE  i \in recentlySent' \/ Len(granted') - i >= RecentBound
  BY DEF MemoryInv
<1>5. CASE i = n
  BY <1>3, <1>5, Appended
<1>6. CASE i # n
  <2>1. i \in DOMAIN granted /\ now - granted[i].at < Cooldown
    BY <1>1, <1>4, <1>6, Appended
  <2>2. CASE i \in recentlySent
    <3>1. i \in R
      BY <2>1, <2>2 DEF Prune
    <3> QED BY <1>3, <3>1, Appended
  <2>3. CASE i \notin recentlySent
    <3>1. Len(granted) - i >= RecentBound
      BY <2>1, <2>3 DEF MemoryInv
    <3> QED BY <2>1, <3>1, Appended
  <2> QED BY <2>2, <2>3
<1> QED BY <1>5, <1>6

\* A key inside its cooldown is granted again only if it was forgotten.
LEMMA GrantRepeatsLate ==
    ASSUME TypeOK, OrderInv, MemoryInv, ~stepped, NoEarlyRepeat, NEW key \in Key, Granting(key)
    PROVE  NoEarlyRepeat'
<1> DEFINE n == Len(granted) + 1
<1>1. SUFFICES ASSUME NEW i \in DOMAIN granted', NEW j \in DOMAIN granted', i < j,
                      granted'[i].key = granted'[j].key,
                      granted'[j].at - granted'[i].at < Cooldown
               PROVE  j - i > RecentBound
  BY DEF NoEarlyRepeat
<1>2. CASE j # n
  <2>1. i \in DOMAIN granted /\ j \in DOMAIN granted
    BY <1>1, <1>2, Appended
  <2> QED BY <1>1, <2>1, Appended DEF NoEarlyRepeat
<1>3. CASE j = n
  <2>1. i \in DOMAIN granted /\ granted[i].key = key /\ now - granted[i].at < Cooldown
    BY <1>1, <1>3, Appended
  <2>2. i \notin recentlySent
    BY <2>1 DEF Granting, Prune
  <2>3. Len(granted) - i >= RecentBound
    BY <2>1, <2>2 DEF MemoryInv
  <2> QED BY <1>3, <2>1, <2>3, Appended
<1> QED BY <1>2, <1>3

\* With the new grant in a window of at most MaxPerWindow, the grant
\* 2 * MaxPerWindow - 1 places before it lies a window before that window.
LEMMA GrantBounded ==
    ASSUME TypeOK, OrderInv, ~stepped, BurstIsBounded, NEW key \in Key, Granting(key),
           TypeOK', OrderInv', WindowInv'
    PROVE  BurstIsBounded'
<1> DEFINE n == Len(granted) + 1
<1>1. SUFFICES ASSUME NEW i \in DOMAIN granted', NEW j \in DOMAIN granted',
                      j - i >= 2 * MaxPerWindow - 1
               PROVE  granted'[j].at - granted'[i].at >= Window
  BY DEF BurstIsBounded
<1>2. CASE j # n
  <2>1. i \in DOMAIN granted /\ j \in DOMAIN granted
    BY <1>1, <1>2, Appended
  <2> QED BY <1>1, <2>1, Appended DEF BurstIsBounded
<1>3. CASE j = n
  <2>1. granted' # <<>> /\ Len(granted') = n /\ n \in Nat /\ i \in Nat
    BY Appended
  <2>2. /\ sentInWindow' \in 1..n /\ sentInWindow' <= MaxPerWindow
        /\ windowStartedAt' = granted'[n - sentInWindow' + 1].at
    BY <2>1 DEF WindowInv, TypeOK
  <2>3. i <= n - sentInWindow' - MaxPerWindow + 1
    BY <1>1, <1>3, <2>1, <2>2
  <2>4. granted'[i].at + Window <= windowStartedAt'
    BY <2>1, <2>3 DEF WindowInv
  <2>5. n - sentInWindow' + 1 \in DOMAIN granted' /\ n - sentInWindow' + 1 <= n
    BY <2>1, <2>2, Appended
  <2>6. windowStartedAt' <= granted'[n].at
    BY <1>3, <2>2, <2>5 DEF OrderInv
  <2>7. granted'[i].at \in Nat /\ granted'[n].at \in Nat /\ windowStartedAt' \in Nat
    <3>1. now \in Nat
      BY DEF TypeOK
    <3>2. \A k \in DOMAIN granted' : k \in DOMAIN granted \/ k = Len(granted) + 1
      BY Appended
    <3>3. \A k \in DOMAIN granted' : granted'[k].at \in Nat
      BY <3>1, <3>2, Appended
    <3> QED BY <1>3, <2>2, <2>5, <3>3
  <2> HIDE DEF n
  <2> QED BY <1>3, <2>4, <2>6, <2>7
<1> QED BY <1>2, <1>3

\* A granted claim is no refusal.
LEMMA GrantEarned ==
    ASSUME NEW key \in Key, Granting(key)
    PROVE  RefusalsAreEarned'
BY DEF Granting, RefusalsAreEarned

\* A refusal changes no history; the memory loses only what has expired.
LEMMA RefusalKeepsTimely ==
    ASSUME TypeOK, ~stepped, Timely, NEW key \in Key, Refusing(key)
    PROVE  Timely'
<1>0. /\ UNCHANGED <<now, stepped, granted, windowStartedAt, sentInWindow>>
      /\ recentlySent' = Prune(recentlySent)
  BY DEF Refusing
<1>1. OrderInv' /\ WindowInv' /\ NoEarlyRepeat' /\ BurstIsBounded'
  BY <1>0 DEF Timely, OrderInv, WindowInv, NoEarlyRepeat, BurstIsBounded
<1>2. MemoryInv'
  BY <1>0 DEF Timely, MemoryInv, Prune
<1>3. RefusalsAreEarned'
  <2>1. CASE /\ \E g \in Prune(recentlySent) : granted[g].key = key
             /\ answer' = [key |-> key, at |-> now, verdict |-> "duplicate"]
    <3>1. PICK g \in Prune(recentlySent) : granted[g].key = key
      BY <2>1
    <3>2. g \in DOMAIN granted' /\ now - granted'[g].at < Cooldown
      BY <1>0 DEF Prune, TypeOK
    <3> QED BY <1>0, <2>1, <3>1, <3>2 DEF RefusalsAreEarned
  <2>2. CASE /\ ~WindowIsOver /\ sentInWindow >= MaxPerWindow
             /\ answer' = [key |-> key, at |-> now, verdict |-> "rate-limit"]
    <3>1. windowStartedAt # Null /\ granted # <<>> /\ ~(now - windowStartedAt >= Window)
      BY <2>2 DEF WindowIsOver, Timely, WindowInv
    <3>2. sentInWindow = MaxPerWindow /\ Len(granted) >= MaxPerWindow
      BY <2>2, <3>1 DEF Timely, WindowInv, TypeOK
    <3>3. windowStartedAt = granted[Len(granted) - MaxPerWindow + 1].at
      BY <3>1, <3>2 DEF Timely, WindowInv
    <3>4. now - windowStartedAt < Window
      BY <3>1 DEF TypeOK
    <3> QED BY <1>0, <2>2, <3>2, <3>3, <3>4 DEF RefusalsAreEarned
  <2> QED BY <2>1, <2>2 DEF Refusing
<1> QED BY <1>1, <1>2, <1>3 DEF Timely

\* Time passing makes no grant more recent.
LEMMA AdvanceKeepsTimely ==
    ASSUME TypeOK, Timely, NEW t \in Time, Advance(t)
    PROVE  Timely'
<1>0. /\ now' \in Nat /\ now \in Nat /\ now' > now
      /\ UNCHANGED <<budgetVars, stepped>>
      /\ \A i \in DOMAIN granted : granted[i].at \in Nat
  <2>1. \A i \in DOMAIN granted : granted[i] \in Grant
    BY DEF TypeOK
  <2>2. \A i \in DOMAIN granted : granted[i].at \in Nat
    BY <2>1 DEF Grant
  <2>3. UNCHANGED <<budgetVars, stepped>>
    BY DEF Advance
  <2> QED BY <2>2, <2>3, TimeAssumption DEF Advance, TypeOK
<1>1. OrderInv'
  BY <1>0 DEF Timely, OrderInv, budgetVars
<1>2. WindowInv' /\ NoEarlyRepeat' /\ BurstIsBounded' /\ RefusalsAreEarned'
  BY <1>0 DEF Timely, WindowInv, NoEarlyRepeat, BurstIsBounded, RefusalsAreEarned, budgetVars
<1>3. MemoryInv'
  BY <1>0 DEF Timely, MemoryInv, budgetVars
<1> QED BY <1>1, <1>2, <1>3 DEF Timely

-----------------------------------------------------------------------------
(* Theorems *)

\* IInv is an inductive invariant of the budget.
THEOREM Invariance == Spec => []IInv
<1>1. Init => IInv
  <2> SUFFICES ASSUME Init PROVE IInv
    OBVIOUS
  <2>1. TypeOK
    <3>1. Cardinality({}) = 0
      BY FS_EmptySet
    <3>2. <<>> \in Seq(Grant)
      OBVIOUS
    <3>3. stepped \in BOOLEAN
      BY DEF Init
    <3>4. now \in Nat
      BY TimeAssumption DEF Init
    <3> QED BY <3>1, <3>2, <3>3, <3>4 DEF Init, TypeOK
  <2>2. OrderInv /\ WindowInv /\ MemoryInv /\ NoEarlyRepeat /\ BurstIsBounded
          /\ RefusalsAreEarned
    BY DEF Init, OrderInv, WindowInv, MemoryInv, NoEarlyRepeat, BurstIsBounded,
           RefusalsAreEarned
  <2> QED BY <2>1, <2>2 DEF IInv
<1>2. IInv /\ [Next]_vars => IInv'
  <2> SUFFICES ASSUME IInv, [Next]_vars PROVE IInv'
    OBVIOUS
  <2>0. TypeOK /\ (~stepped => Timely)
    BY DEF IInv, Timely
  <2>1. ASSUME NEW key \in Key, Claim(key) PROVE IInv'
    <3>1. CASE Granting(key)
      <4>1. TypeOK'
        BY <2>0, <3>1, GrantKeepsType
      <4>2. ASSUME ~stepped' PROVE Timely'
        <5>1. ~stepped /\ Timely
          BY <2>0, <3>1, <4>2 DEF Granting
        <5>2. OrderInv' /\ WindowInv' /\ MemoryInv'
          BY <2>0, <3>1, <5>1, GrantKeepsOrder, GrantKeepsWindow, GrantKeepsMemory DEF Timely
        <5>3. NoEarlyRepeat' /\ RefusalsAreEarned'
          BY <2>0, <3>1, <5>1, GrantRepeatsLate, GrantEarned DEF Timely
        <5>4. BurstIsBounded'
          BY <2>0, <3>1, <4>1, <5>1, <5>2, GrantBounded DEF Timely
        <5> QED BY <5>2, <5>3, <5>4 DEF Timely
      <4> QED BY <4>1, <4>2 DEF IInv, Timely
    <3>2. CASE Refusing(key)
      <4>1. TypeOK'
        BY <2>0, <3>2, RefusalKeepsType
      <4>2. ASSUME ~stepped' PROVE Timely'
        <5>1. ~stepped
          BY <3>2, <4>2 DEF Refusing
        <5> QED BY <2>0, <3>2, <5>1, RefusalKeepsTimely
      <4> QED BY <4>1, <4>2 DEF IInv, Timely
    <3> QED BY <2>0, <2>1, <3>1, <3>2, ClaimCases
  <2>2. ASSUME NEW t \in Time, Advance(t) PROVE IInv'
    <3>1. TypeOK'
      BY <2>0, <2>2, TimeAssumption DEF Advance, TypeOK, budgetVars
    <3>2. ASSUME ~stepped' PROVE Timely'
      <4>1. ~stepped
        BY <2>2, <3>2 DEF Advance
      <4> QED BY <2>0, <2>2, <4>1, AdvanceKeepsTimely
    <3> QED BY <3>1, <3>2 DEF IInv, Timely
  <2>3. ASSUME NEW t \in Time, SetBack(t) PROVE IInv'
    <3>1. TypeOK'
      BY <2>0, <2>3, TimeAssumption DEF SetBack, TypeOK, budgetVars
    <3>2. stepped'
      BY <2>3 DEF SetBack
    <3> QED BY <3>1, <3>2 DEF IInv
  <2>4. CASE UNCHANGED vars
    BY <2>0, <2>4 DEF IInv, TypeOK, OrderInv, WindowInv, MemoryInv, NoEarlyRepeat,
       BurstIsBounded, RefusalsAreEarned, vars, budgetVars, Timely
  <2> QED BY <2>1, <2>2, <2>3, <2>4 DEF Next
<1> QED BY <1>1, <1>2, PTL DEF Spec

\* recentlySent never outgrows its bound, and every value keeps its type.
THEOREM TypeCorrect == Spec => []TypeOK
<1>1. IInv => TypeOK
  BY DEF IInv
<1> QED BY <1>1, Invariance, PTL

\* suppressNotification never repeats a key inside the cooldown that fewer than
\* RecentBound other grants could have pushed out of memory.
THEOREM NoRepeatTheorem == Spec => []NoEarlyRepeat
<1>1. IInv => NoEarlyRepeat
  BY DEF IInv, NoEarlyRepeat
<1> QED BY <1>1, Invariance, PTL

\* Any 2 * MaxPerWindow consecutive notifications span at least a window.
THEOREM BurstTheorem == Spec => []BurstIsBounded
<1>1. IInv => BurstIsBounded
  BY DEF IInv, BurstIsBounded
<1> QED BY <1>1, Invariance, PTL

\* claim() refuses only what recent grants justify.
THEOREM RefusalTheorem == Spec => []RefusalsAreEarned
<1>1. IInv => RefusalsAreEarned
  BY DEF IInv, RefusalsAreEarned
<1> QED BY <1>1, Invariance, PTL

-----------------------------------------------------------------------------
(* The watch session.                                                      *)

HIDE NullAssumption
HIDE BoundAssumption
HIDE PolicyAssumption

Stages == {"idle", "target", "ancestor", "nearest", "register", "expand", "list", "settle",
           "check", "vanished"}

\* What a process holds at each stage.
ProgressOK(q) ==
    /\ DOMAIN q = {"stage", "at", "work", "here"}
    /\ q.stage \in Stages
    /\ q.stage \in {"target", "ancestor", "nearest", "register", "expand", "list"} =>
           q.at \in DOMAIN Targets
    /\ q.stage \in {"ancestor", "nearest", "register", "list"} => q.here \in Folder
    /\ q.stage \in {"expand", "list"} => q.work \subseteq Folder

RunOK(r) == DOMAIN r = Process /\ \A p \in Process : ProgressOK(r[p])

Known(map) == {d \in Folder : map[d] # None}
Watchers(map) == {map[d].watcher : d \in Known(map)}

\* The map of registrations: each directory under its own handle, within the limit.
MapOK(map) ==
    /\ map \in [Folder -> Registration \cup {None}]
    /\ \A d \in Known(map) : map[d].watcher.dir = d
    /\ IsFiniteSet(Known(map)) /\ Cardinality(Known(map)) <= MaxDirectories

\* A refresh under way checks only handles that are still registered.
StillRegistered(q, map) ==
    /\ q.stage \in {"check", "vanished"} => q.work \subseteq Watchers(map)
    /\ q.stage = "vanished" => q.here \in q.work

SessionTypes ==
    /\ present \subseteq Name /\ made \in [Dirs -> Nat]
    /\ opened \in [Folder -> Nat] /\ errors \in Nat
    /\ verdict \in {None, "failed", "degraded", "protected"}
    /\ RunOK(run) /\ MapOK(regs)

SessionStages ==
    /\ run["initialise"].stage # "idle" <=> verdict = None
    /\ run["initialise"].stage \notin {"check", "vanished"}
    /\ closed => verdict # None
    /\ late => closed
    /\ closed /\ ~late => run["refresh"].stage = "idle"
    /\ dirty => run["refresh"].stage # "idle"

NoHandleLost ==
    errors = 0 /\ ~late => open = Watchers(regs) /\ StillRegistered(run["refresh"], regs)

SInv == SessionTypes /\ SessionStages /\ NoHandleLost

USE Tree, WatchAssumption


LEMMA IdleProgress == ProgressOK(Idle) /\ ProgressOK(AtTarget(1))
BY DEF ProgressOK, Idle, AtTarget, Stages

LEMMA SessionInitSInv == SessionInit => SInv
<1> SUFFICES ASSUME SessionInit PROVE SInv
  OBVIOUS
<1>1. RunOK(run)
  BY IdleProgress DEF SessionInit, RunOK, Process
<1>2. Known(regs) = {} /\ regs \in [Folder -> Registration \cup {None}]
  BY DEF SessionInit, Known
<1>3. MapOK(regs)
  BY <1>2, FS_EmptySet DEF MapOK
<1>4. SessionTypes
  BY <1>1, <1>3 DEF SessionTypes, SessionInit
<1>5. SessionStages
  BY DEF SessionStages, SessionInit, Idle, AtTarget
<1>6. NoHandleLost
  BY <1>2 DEF NoHandleLost, SessionInit, Watchers, StillRegistered, Idle, AtTarget
<1> QED
  BY <1>4, <1>5, <1>6 DEF SInv

\* A registered handle is the one of its own directory.
LEMMA OwnHandle ==
    ASSUME NEW map, MapOK(map), NEW w \in Watchers(map)
    PROVE  w.dir \in Folder /\ map[w.dir] # None /\ map[w.dir].watcher = w
BY DEF MapOK, Watchers, Known

\* register() keeps every registration, adds at most one within the limit, and
\* with it its handle.
LEMMA RegisterFacts ==
    ASSUME SessionTypes, NEW d \in Folder, NEW scope \in Name \cup {Root}, NEW noted,
           NEW ok \in BOOLEAN, Register(d, scope, noted, ok)
    PROVE  /\ MapOK(regs') /\ opened' \in [Folder -> Nat] /\ errors' \in Nat
           /\ errors' = 0 => errors = 0
           /\ open = Watchers(regs) => open' = Watchers(regs')
           /\ Watchers(regs) \subseteq Watchers(regs')
<1> USE DEF SessionTypes
<1>1. CASE regs[d] # None /\ regs' = [regs EXCEPT ![d].scopes = @ \cup {scope}]
           /\ UNCHANGED <<open, opened, errors>>
  <2>1. /\ regs' \in [Folder -> Registration \cup {None}]
        /\ Known(regs') = Known(regs)
        /\ \A e \in Known(regs) : regs'[e].watcher = regs[e].watcher
    BY <1>1 DEF MapOK, Known, Registration
  <2>2. Watchers(regs') = Watchers(regs)
    BY <2>1 DEF Watchers
  <2>3. MapOK(regs')
    BY <2>1 DEF MapOK
  <2> QED
    BY <1>1, <2>2, <2>3
<1>2. CASE UNCHANGED <<regs, open, opened, errors>>
  BY <1>2
<1>3. CASE regs[d] = None /\ Fails(d) /\ UNCHANGED <<regs, open, opened>>
  BY <1>3 DEF Fails
<1>4. CASE /\ regs[d] = None /\ ~Full /\ Exists(d)
           /\ LET w == [dir |-> d, inode |-> Inode(d), id |-> opened[d]]
              IN  /\ open' = open \cup {w}
                  /\ regs' = [regs EXCEPT ![d] = [watcher |-> w, scopes |-> {scope}]]
           /\ opened' = [opened EXCEPT ![d] = @ + 1]
           /\ UNCHANGED errors
  <2> DEFINE w == [dir |-> d, inode |-> Inode(d), id |-> opened[d]]
             r == [watcher |-> w, scopes |-> {scope}]
  <2>1. w \in Handle /\ w.dir = d
    BY <1>4 DEF Handle, Inode, Exists, Folder, Name
  <2>2. r \in Registration /\ r # None /\ r.watcher = w
    BY <2>1 DEF Registration
  <2>3. /\ regs' = [regs EXCEPT ![d] = r] /\ open' = open \cup {w}
        /\ regs[d] = None /\ regs \in [Folder -> Registration \cup {None}]
        /\ opened' \in [Folder -> Nat] /\ errors' = errors
    BY <1>4 DEF MapOK
  <2> HIDE DEF r, w
  <2>4. /\ regs' \in [Folder -> Registration \cup {None}]
        /\ Known(regs') = Known(regs) \cup {d} /\ d \notin Known(regs)
        /\ \A e \in Known(regs) : regs'[e].watcher = regs[e].watcher
        /\ regs'[d].watcher = w
    BY <2>2, <2>3 DEF Known
  <2>5. Watchers(regs') = Watchers(regs) \cup {w}
    <3>1. \A x : x \in Watchers(regs') <=> \E e \in Known(regs) \cup {d} : x = regs'[e].watcher
      BY <2>4 DEF Watchers
    <3>2. \A x : x \in Watchers(regs) <=> \E e \in Known(regs) : x = regs[e].watcher
      BY DEF Watchers
    <3>3. \A x : x \in Watchers(regs') <=> x \in Watchers(regs) \/ x = w
      <4> SUFFICES ASSUME NEW x PROVE x \in Watchers(regs') <=> x \in Watchers(regs) \/ x = w
        OBVIOUS
      <4>1. x \in Watchers(regs') => x \in Watchers(regs) \/ x = w
        BY <2>4, <3>1, <3>2
      <4>2. ASSUME x \in Watchers(regs) PROVE x \in Watchers(regs')
        <5>1. PICK e \in Known(regs) : x = regs[e].watcher
          BY <3>2, <4>2
        <5>2. x = regs'[e].watcher
          BY <2>4, <5>1
        <5> QED
          BY <3>1, <5>2
      <4>3. x = w => x \in Watchers(regs')
        BY <2>4, <3>1
      <4> QED
        BY <4>1, <4>2, <4>3
    <3> QED
      BY <3>3
  <2>6. IsFiniteSet(Known(regs)) /\ Cardinality(Known(regs)) \in Nat
    BY FS_CardinalityType DEF MapOK
  <2>7. Cardinality(Known(regs)) < MaxDirectories
    BY <1>4, <2>6 DEF Full, Registered, Known
  <2>8. /\ IsFiniteSet(Known(regs) \cup {d})
        /\ Cardinality(Known(regs) \cup {d}) = Cardinality(Known(regs)) + 1
    BY <2>4, <2>6, FS_AddElement
  <2>9. IsFiniteSet(Known(regs')) /\ Cardinality(Known(regs')) <= MaxDirectories
    BY <2>4, <2>6, <2>7, <2>8
  <2>10. MapOK(regs')
    BY <2>1, <2>4, <2>9 DEF MapOK
  <2> QED
    BY <2>3, <2>5, <2>10
<1> QED
  BY <1>1, <1>2, <1>3, <1>4 DEF Register

CheckingOK(work) ==
    /\ ProgressOK(Checking(work)) /\ Checking(work).stage \in {"check", "target"}
    /\ Checking(work).stage = "check" => Checking(work).work = work

LEMMA CheckingFacts == ASSUME NEW work PROVE CheckingOK(work)
<1>1. CASE work = {}
  BY <1>1, IdleProgress DEF CheckingOK, Checking, Idle, AtTarget
<1>2. CASE work # {}
  <2>1. Checking(work) = [stage |-> "check", at |-> 0, work |-> work, here |-> None]
    BY <1>2 DEF Checking, Idle
  <2> QED
    BY <2>1 DEF CheckingOK, ProgressOK, Stages
<1> QED
  BY <1>1, <1>2

\* Forgetting registrations keeps the map in order.
LEMMA Forgetting ==
    ASSUME NEW map, MapOK(map), NEW new \in [Folder -> Registration \cup {None}],
           \A d \in Known(new) : d \in Known(map) /\ new[d] = map[d]
    PROVE  MapOK(new)
<1>1. /\ IsFiniteSet(Known(map)) /\ Known(new) \subseteq Known(map)
      /\ Cardinality(Known(map)) <= MaxDirectories
  BY DEF MapOK
<1>2. /\ IsFiniteSet(Known(new)) /\ Cardinality(Known(new)) <= Cardinality(Known(map))
      /\ Cardinality(Known(map)) \in Nat /\ Cardinality(Known(new)) \in Nat
  BY <1>1, FS_Subset, FS_CardinalityType
<1>3. Cardinality(Known(new)) <= MaxDirectories
  <2>1. \A a, b, c \in Nat : a <= b /\ b <= c => a <= c
    OBVIOUS
  <2>2. MaxDirectories \in Nat
    OBVIOUS
  <2> QED
    BY <1>1, <1>2, <2>1, <2>2
<1> QED
  BY <1>2, <1>3 DEF MapOK

\* A refresh begins with the handles that are registered.
LEMMA RefreshFacts ==
    ASSUME NEW map, MapOK(map)
    PROVE  /\ ProgressOK(Refresh(map)) /\ StillRegistered(Refresh(map), map)
           /\ Refresh(map).stage = "idle" => closed
<1>1. CheckingOK(Watchers(map)) /\ Checking(Watchers(map)).stage # "idle"
  BY CheckingFacts DEF CheckingOK
<1>2. CASE closed
  BY <1>2, IdleProgress DEF Refresh, Idle, StillRegistered
<1>3. CASE ~closed
  <2>1. Refresh(map) = Checking(Watchers(map))
    BY <1>3 DEF Refresh, Watchers, Known
  <2> HIDE DEF Checking
  <2> QED
    BY <1>1, <2>1 DEF CheckingOK, StillRegistered
<1> QED
  BY <1>2, <1>3

\* One process goes on and the other one stays.
LEMMA OneProcess ==
    ASSUME RunOK(run), NEW p \in Process, NEW q, ProgressOK(q), run' = [run EXCEPT ![p] = q]
    PROVE  /\ RunOK(run') /\ run'[p] = q
           /\ \A o \in Process \ {p} : run'[o] = run[o]
BY DEF RunOK

\* What is left of the invariant when a process that is not idle goes on to q.
LEMMA Onward ==
    ASSUME SInv, NEW p \in Process, run[p].stage # "idle", NEW q, ProgressOK(q),
           run' = [run EXCEPT ![p] = q],
           p = "initialise" => q.stage \notin {"idle", "check", "vanished"},
           p = "refresh" => (dirty' => q.stage # "idle"),
           p = "initialise" => dirty' = dirty,
           MapOK(regs'), errors' \in Nat, errors' = 0 => errors = 0,
           opened' \in [Folder -> Nat],
           open = Watchers(regs) => open' = Watchers(regs'),
           p = "initialise" => Watchers(regs) \subseteq Watchers(regs'),
           p = "refresh" => (errors = 0 /\ ~late => StillRegistered(q, regs')),
           UNCHANGED <<present, made, verdict, closed, late>>
    PROVE  SInv'
<1>1. RunOK(run') /\ run'[p] = q /\ \A o \in Process \ {p} : run'[o] = run[o]
  BY OneProcess DEF SInv, SessionTypes
<1>2. SessionTypes'
  BY <1>1 DEF SessionTypes, SInv
<1>3. SessionStages'
  <2>1. CASE p = "initialise"
    BY <1>1, <2>1 DEF SInv, SessionStages, Process
  <2>2. CASE p = "refresh"
    BY <1>1, <2>2 DEF SInv, SessionStages, Process
  <2> QED
    BY <2>1, <2>2 DEF Process
<1>4. NoHandleLost'
  <2>1. CASE p = "initialise"
    BY <1>1, <2>1 DEF SInv, NoHandleLost, StillRegistered, Process
  <2>2. CASE p = "refresh"
    BY <1>1, <2>2 DEF SInv, NoHandleLost, Process
  <2> QED
    BY <2>1, <2>2 DEF Process
<1> QED
  BY <1>2, <1>3, <1>4 DEF SInv

\* The stages in which a refresh holds no copy of the registrations.
LEMMA Onwards ==
    ASSUME SInv, NEW p \in Process, run[p].stage # "idle", NEW q, ProgressOK(q),
           run' = [run EXCEPT ![p] = q], q.stage \notin {"idle", "check", "vanished"},
           MapOK(regs'), errors' \in Nat, errors' = 0 => errors = 0,
           opened' \in [Folder -> Nat],
           open = Watchers(regs) => open' = Watchers(regs'),
           Watchers(regs) \subseteq Watchers(regs'),
           UNCHANGED <<present, made, dirty, verdict, closed, late>>
    PROVE  SInv'
<1>1. StillRegistered(q, regs')
  BY DEF StillRegistered
<1> QED
  BY <1>1, Onward

LEMMA NextTargetStep ==
    ASSUME SInv, NEW p \in Process, run[p].stage # "idle", run[p].at \in DOMAIN Targets,
           NextTarget(p),
           MapOK(regs'), errors' \in Nat, errors' = 0 => errors = 0,
           opened' \in [Folder -> Nat],
           open = Watchers(regs) => open' = Watchers(regs'),
           Watchers(regs) \subseteq Watchers(regs'),
           UNCHANGED <<present, made, verdict, closed, late>>
    PROVE  SInv'
<1>1. CASE run[p].at < Len(Targets)
  <2>1. run' = [run EXCEPT ![p] = AtTarget(run[p].at + 1)] /\ dirty' = dirty
    BY <1>1 DEF NextTarget
  <2>2. run[p].at + 1 \in DOMAIN Targets
    BY <1>1
  <2>3. /\ ProgressOK(AtTarget(run[p].at + 1))
        /\ AtTarget(run[p].at + 1).stage \notin {"idle", "check", "vanished"}
    BY <2>2 DEF ProgressOK, AtTarget, Idle, Stages
  <2> HIDE DEF AtTarget
  <2> QED
    BY <2>1, <2>3, Onwards
<1>2. CASE ~(run[p].at < Len(Targets)) /\ p = "initialise"
  <2> DEFINE q == [Idle EXCEPT !.stage = "settle"]
  <2>1. run' = [run EXCEPT ![p] = q] /\ dirty' = dirty
    BY <1>2 DEF NextTarget
  <2>2. ProgressOK(q) /\ q.stage \notin {"idle", "check", "vanished"}
    BY DEF ProgressOK, Idle, Stages
  <2> HIDE DEF q
  <2> QED
    BY <2>1, <2>2, Onwards
<1>3. CASE ~(run[p].at < Len(Targets)) /\ p = "refresh"
  <2> DEFINE q == IF dirty THEN Refresh(regs') ELSE Idle
  <2>1. run' = [run EXCEPT ![p] = q] /\ dirty' = FALSE
    BY <1>3 DEF NextTarget
  <2>2. ProgressOK(q) /\ StillRegistered(q, regs')
    BY IdleProgress, RefreshFacts DEF Idle, StillRegistered
  <2> HIDE DEF q
  <2> QED
    BY <1>3, <2>1, <2>2, Onward
<1> QED
  BY <1>1, <1>2, <1>3 DEF Process

LEMMA LookAtRegistrationStep ==
    ASSUME SInv, NEW w, LookAtRegistration(w)
    PROVE  SInv'
<1> DEFINE r == run["refresh"]
           q == IF Exists(w.dir) THEN Checking(r.work \ {w})
                ELSE [r EXCEPT !.stage = "vanished", !.here = w]
<1>1. /\ run' = [run EXCEPT !["refresh"] = q] /\ r.stage = "check" /\ w \in r.work
      /\ UNCHANGED <<tree, handles, events, dirty, verdict, closed, history>>
  BY DEF LookAtRegistration
<1>2. ProgressOK(r) /\ MapOK(regs) /\ errors \in Nat /\ opened \in [Folder -> Nat]
  BY DEF SInv, SessionTypes, RunOK, Process
<1>3. /\ ProgressOK(q) /\ q.stage # "idle"
      /\ errors = 0 /\ ~late => StillRegistered(q, regs)
  <2>1. errors = 0 /\ ~late => r.work \subseteq Watchers(regs)
    BY <1>1 DEF SInv, NoHandleLost, StillRegistered
  <2>2. CASE Exists(w.dir)
    <3>1. q = Checking(r.work \ {w})
      BY <2>2
    <3>2. CheckingOK(r.work \ {w})
      BY CheckingFacts
    <3> HIDE DEF q
    <3> QED
      BY <2>1, <3>1, <3>2 DEF CheckingOK, StillRegistered
  <2>4. CASE ~Exists(w.dir)
    <3>1. q = [r EXCEPT !.stage = "vanished", !.here = w]
      BY <2>4
    <3>2. /\ DOMAIN q = {"stage", "at", "work", "here"}
          /\ q.stage = "vanished" /\ q.here = w /\ q.work = r.work
      BY <1>2, <3>1 DEF ProgressOK
    <3> QED
      BY <1>1, <2>1, <3>2 DEF ProgressOK, Stages, StillRegistered
  <2> QED
    BY <2>2, <2>4
<1>4. /\ UNCHANGED <<present, made, verdict, closed, late, dirty>>
      /\ regs' = regs /\ errors' = errors /\ opened' = opened /\ open' = open
  BY <1>1 DEF tree, handles, history
<1>5. r.stage # "idle" /\ "refresh" \in Process /\ "refresh" # "initialise"
  BY <1>1 DEF Process
<1> HIDE DEF q
<1> QED
  BY <1>1, <1>2, <1>3, <1>4, <1>5, Onward

\* Without a failure the handle of a vanished directory is the registered one,
\* so that forgetting the path and closing the handle is one and the same.
LEMMA DropVanishedStep ==
    ASSUME SInv, DropVanished
    PROVE  SInv'
<1> DEFINE r == run["refresh"]
           q == Checking(r.work \ {r.here})
<1>1. /\ run' = [run EXCEPT !["refresh"] = q] /\ r.stage = "vanished"
      /\ regs' = [regs EXCEPT ![r.here.dir] = None]
      /\ open' = open \ {r.here}
      /\ UNCHANGED <<tree, opened, issues, errors, dirty, verdict, closed, history>>
  BY DEF DropVanished, CloseHandles
<1>2. ProgressOK(r) /\ MapOK(regs) /\ errors \in Nat /\ opened \in [Folder -> Nat]
  BY DEF SInv, SessionTypes, RunOK, Process
<1>3. MapOK(regs')
  <2>1. /\ regs' \in [Folder -> Registration \cup {None}]
        /\ Known(regs') \subseteq Known(regs)
        /\ \A d \in Known(regs') : regs'[d] = regs[d]
    BY <1>1, <1>2 DEF MapOK, Known
  <2> QED
    BY <1>2, <2>1, Forgetting
<1>4. ProgressOK(q) /\ q.stage # "idle" /\ CheckingOK(r.work \ {r.here})
  BY CheckingFacts DEF CheckingOK
<1>5. ASSUME errors = 0, ~late
      PROVE  open' = Watchers(regs') /\ StillRegistered(q, regs')
  <2>1. open = Watchers(regs) /\ r.work \subseteq Watchers(regs) /\ r.here \in r.work
    BY <1>1, <1>5 DEF SInv, NoHandleLost, StillRegistered
  <2>2. r.here.dir \in Folder /\ regs[r.here.dir] # None /\ regs[r.here.dir].watcher = r.here
    BY <1>2, <2>1, OwnHandle
  <2>3. Watchers(regs') = Watchers(regs) \ {r.here}
    <3>1. Known(regs') = Known(regs) \ {r.here.dir} /\ \A d \in Known(regs') : regs'[d] = regs[d]
      BY <1>1, <1>2, <2>2 DEF MapOK, Known
    <3>2. \A d \in Known(regs) : regs[d].watcher.dir = d
      BY <1>2 DEF MapOK
    <3>3. ASSUME NEW x PROVE x \in Watchers(regs') <=> x \in Watchers(regs) /\ x # r.here
      <4>1. ASSUME x \in Watchers(regs') PROVE x \in Watchers(regs) /\ x # r.here
        <5>1. PICK d \in Known(regs') : x = regs'[d].watcher
          BY <4>1 DEF Watchers
        <5>2. d \in Known(regs) /\ d # r.here.dir /\ x = regs[d].watcher
          BY <3>1, <5>1
        <5> QED
          BY <3>2, <5>2 DEF Watchers
      <4>2. ASSUME x \in Watchers(regs), x # r.here PROVE x \in Watchers(regs')
        <5>1. PICK d \in Known(regs) : x = regs[d].watcher
          BY <4>2 DEF Watchers
        <5>2. d # r.here.dir
          BY <2>2, <4>2, <5>1
        <5>3. d \in Known(regs') /\ x = regs'[d].watcher
          BY <3>1, <5>1, <5>2
        <5> QED
          BY <5>3 DEF Watchers
      <4> QED
        BY <4>1, <4>2
    <3> QED
      BY <3>3
  <2>4. StillRegistered(q, regs')
    <3> HIDE DEF Checking
    <3> QED
      BY <1>4, <2>1, <2>3 DEF CheckingOK, StillRegistered
  <2> QED
    BY <1>1, <2>1, <2>3, <2>4
<1>6. /\ UNCHANGED <<present, made, verdict, closed, late, dirty>>
      /\ errors' = errors /\ opened' = opened
  BY <1>1 DEF tree, history
<1>7. r.stage # "idle" /\ "refresh" \in Process /\ "refresh" # "initialise"
  BY <1>1 DEF Process
<1> HIDE DEF q
<1>8. RunOK(run') /\ run'["refresh"] = q /\ run'["initialise"] = run["initialise"]
  BY <1>1, <1>4, <1>7, OneProcess DEF SInv, SessionTypes, Process
<1>9. SessionTypes'
  BY <1>2, <1>3, <1>6, <1>8 DEF SInv, SessionTypes
<1>10. SessionStages'
  BY <1>4, <1>6, <1>7, <1>8 DEF SInv, SessionStages
<1>11. NoHandleLost'
  BY <1>5, <1>6, <1>8 DEF NoHandleLost
<1> QED
  BY <1>9, <1>10, <1>11 DEF SInv

\* The stages of expandTarget() and of expandDirectory().
Placed == {"target", "ancestor", "nearest", "register", "expand", "list"}

\* A process at such a stage, as a record.
LEMMA AtStage ==
    ASSUME RunOK(run), NEW p \in Process, run[p].stage \in Placed
    PROVE  /\ DOMAIN run[p] = {"stage", "at", "work", "here"}
           /\ run[p].stage # "idle" /\ run[p].at \in DOMAIN Targets
           /\ Target(p).path \in Name \cup {Root}
           /\ run[p].stage \in {"ancestor", "nearest", "register", "list"} => run[p].here \in Folder
           /\ run[p].stage \in {"expand", "list"} => run[p].work \subseteq Folder
BY DEF RunOK, ProgressOK, Placed, Target

\* A lookup: only the process itself goes on.
LEMMA Looking ==
    ASSUME SInv, NEW p \in Process, run[p].stage # "idle", NEW q, ProgressOK(q),
           run' = [run EXCEPT ![p] = q], q.stage \notin {"idle", "check", "vanished"},
           UNCHANGED <<tree, regs, open, opened, errors, dirty, verdict, closed, late>>
    PROVE  SInv'
<1>1. MapOK(regs) /\ errors \in Nat /\ opened \in [Folder -> Nat]
  BY DEF SInv, SessionTypes
<1>2. /\ UNCHANGED <<present, made, dirty, verdict, closed, late>>
      /\ regs' = regs /\ open' = open /\ opened' = opened /\ errors' = errors
  BY DEF tree
<1> QED
  BY <1>1, <1>2, Onwards

\* The record with three of its fields replaced.
LEMMA Fields ==
    ASSUME NEW q, DOMAIN q = {"stage", "at", "work", "here"}, NEW s, NEW h, NEW w,
           s \in Placed, q.at \in DOMAIN Targets,
           s \in {"ancestor", "nearest", "register", "list"} => h \in Folder,
           s \in {"expand", "list"} => w \subseteq Folder
    PROVE  /\ ProgressOK([q EXCEPT !.stage = s, !.here = h, !.work = w])
           /\ [q EXCEPT !.stage = s, !.here = h, !.work = w].stage \notin
                  {"idle", "check", "vanished"}
BY DEF ProgressOK, Stages, Placed

LEMMA LookAtTargetStep ==
    ASSUME SInv, NEW p \in Process, LookAtTarget(p)
    PROVE  SInv'
<1> DEFINE path == Target(p).path
           way == CASE Kind(path) = "missing" -> [stage |-> "ancestor", here |-> Parent[path]]
                    [] Kind(path) = "file" -> [stage |-> "register", here |-> Parent[path]]
                    [] Kind(path) = "directory" /\ Target(p).recursive ->
                           [stage |-> "expand", here |-> path]
                    [] OTHER -> [stage |-> "register", here |-> path]
           work == IF way.stage = "expand" THEN {path} ELSE {}
           q == [run[p] EXCEPT !.stage = way.stage, !.here = way.here, !.work = work]
<1>1. run[p].stage = "target" /\ RunOK(run) /\ present \subseteq Name
  BY DEF LookAtTarget, SInv, SessionTypes
<1>2. /\ run' = [run EXCEPT ![p].stage = way.stage, ![p].here = way.here, ![p].work = work]
      /\ UNCHANGED <<tree, handles, events, dirty, verdict, closed, late, changes>>
  BY DEF LookAtTarget
<1>3. /\ DOMAIN run[p] = {"stage", "at", "work", "here"}
      /\ run[p].stage # "idle" /\ run[p].at \in DOMAIN Targets /\ path \in Name \cup {Root}
  BY <1>1, AtStage DEF Placed
<1>4. /\ way.stage \in Placed /\ way.here \in Folder /\ way.stage # "list"
      /\ way.stage = "expand" => path \in Folder
  <2> HIDE DEF path
  <2>1. CASE Kind(path) = "missing"
    BY <1>1, <1>3, <2>1 DEF Kind, Exists, Placed, Name
  <2>2. CASE Kind(path) = "file"
    BY <1>1, <1>3, <2>2 DEF Kind, Exists, Placed, Name
  <2>3. CASE Kind(path) = "directory"
    <3>1. path \in Folder
      BY <1>1, <1>3, <2>3 DEF Kind, Exists, Name, Folder
    <3> QED
      BY <2>3, <3>1 DEF Placed
  <2> QED
    BY <2>1, <2>2, <2>3 DEF Kind
<1> HIDE DEF way
<1>5. work \subseteq Folder \/ way.stage # "expand"
  BY <1>4
<1>6. run' = [run EXCEPT ![p] = q]
  BY <1>1, <1>2, <1>3 DEF RunOK
<1> HIDE DEF work
<1>7. ProgressOK(q) /\ q.stage \notin {"idle", "check", "vanished"}
  BY <1>3, <1>4, <1>5, Fields
<1>8. UNCHANGED <<tree, regs, open, opened, errors, dirty, verdict, closed, late>>
  BY <1>2 DEF handles
<1> HIDE DEF q
<1> QED
  BY <1>3, <1>6, <1>7, <1>8, Looking

LEMMA LookAtAncestorStep ==
    ASSUME SInv, NEW p \in Process, LookAtAncestor(p)
    PROVE  SInv'
<1>1. run[p].stage = "ancestor" /\ RunOK(run) /\ present \subseteq Name
  BY DEF LookAtAncestor, SInv, SessionTypes
<1>2. UNCHANGED <<tree, regs, open, opened, errors, dirty, verdict, closed, late>>
  BY DEF LookAtAncestor, handles, history
<1>3. /\ DOMAIN run[p] = {"stage", "at", "work", "here"}
      /\ run[p].stage # "idle" /\ run[p].at \in DOMAIN Targets /\ run[p].here \in Folder
  BY <1>1, AtStage DEF Placed
<1>4. CASE Exists(run[p].here)
  <2> DEFINE q == [run[p] EXCEPT !.stage = "nearest"]
  <2>1. run' = [run EXCEPT ![p] = q]
    BY <1>1, <1>4 DEF LookAtAncestor, RunOK
  <2>2. ProgressOK(q) /\ q.stage \notin {"idle", "check", "vanished"}
    BY <1>3 DEF ProgressOK, Stages
  <2> HIDE DEF q
  <2> QED
    BY <1>2, <1>3, <2>1, <2>2, Looking
<1>5. CASE ~Exists(run[p].here)
  <2> DEFINE q == [run[p] EXCEPT !.here = Parent[run[p].here]]
  <2>1. run' = [run EXCEPT ![p] = q]
    BY <1>1, <1>5 DEF LookAtAncestor, RunOK
  <2>2. Parent[run[p].here] \in Folder
    BY <1>3, <1>5 DEF Exists, Folder, Name
  <2>3. ProgressOK(q) /\ q.stage \notin {"idle", "check", "vanished"}
    BY <1>1, <1>3, <2>2 DEF ProgressOK, Stages
  <2> HIDE DEF q
  <2> QED
    BY <1>2, <1>3, <2>1, <2>3, Looking
<1> QED
  BY <1>4, <1>5

LEMMA RegisterTargetStep ==
    ASSUME SInv, NEW p \in Process, RegisterTarget(p)
    PROVE  SInv'
<1>1. /\ run[p].stage \in {"register", "nearest"} /\ RunOK(run) /\ SessionTypes
      /\ NextTarget(p) /\ UNCHANGED <<tree, events, verdict, closed, history>>
  BY DEF RegisterTarget, SInv, SessionTypes
<1>2. /\ run[p].stage # "idle" /\ run[p].at \in DOMAIN Targets /\ run[p].here \in Folder
      /\ Target(p).path \in Name \cup {Root}
  BY <1>1, AtStage DEF Placed
<1>3. PICK ok \in BOOLEAN :
          Register(run[p].here, Target(p).path,
                   IF run[p].stage = "nearest" THEN Issue(Target(p).path, "missing") ELSE {}, ok)
  BY DEF RegisterTarget
<1>4. /\ MapOK(regs') /\ opened' \in [Folder -> Nat] /\ errors' \in Nat
      /\ errors' = 0 => errors = 0
      /\ open = Watchers(regs) => open' = Watchers(regs')
      /\ Watchers(regs) \subseteq Watchers(regs')
  BY <1>1, <1>2, <1>3, RegisterFacts
<1>5. UNCHANGED <<present, made, verdict, closed, late>>
  BY <1>1 DEF tree, history
<1> QED
  BY <1>1, <1>2, <1>4, <1>5, NextTargetStep

\* expandDirectory goes on with work.
LEMMA ExpandingStep ==
    ASSUME SInv, NEW p \in Process, run[p].stage \in {"expand", "list"},
           NEW work, work \subseteq Folder, Expanding(p, work),
           MapOK(regs'), errors' \in Nat, errors' = 0 => errors = 0,
           opened' \in [Folder -> Nat],
           open = Watchers(regs) => open' = Watchers(regs'),
           Watchers(regs) \subseteq Watchers(regs'),
           UNCHANGED <<present, made, verdict, closed, late>>
    PROVE  SInv'
<1>0. RunOK(run)
  BY DEF SInv, SessionTypes
<1>1. /\ DOMAIN run[p] = {"stage", "at", "work", "here"}
      /\ run[p].stage # "idle" /\ run[p].at \in DOMAIN Targets
  BY <1>0, AtStage DEF Placed
<1>2. CASE work = {}
  <2>1. NextTarget(p)
    BY <1>2 DEF Expanding
  <2> QED
    BY <1>1, <2>1, NextTargetStep
<1>3. CASE work # {}
  <2> DEFINE q == [run[p] EXCEPT !.stage = "expand", !.here = None, !.work = work]
  <2>1. /\ run' = [run EXCEPT ![p].stage = "expand", ![p].here = None, ![p].work = work]
        /\ dirty' = dirty
    BY <1>3 DEF Expanding
  <2>2. run' = [run EXCEPT ![p] = q]
    BY <1>0, <1>1, <2>1 DEF RunOK
  <2>3. ProgressOK(q) /\ q.stage \notin {"idle", "check", "vanished"}
    BY <1>1 DEF ProgressOK, Stages
  <2> HIDE DEF q
  <2> QED
    BY <1>1, <2>1, <2>2, <2>3, Onwards
<1> QED
  BY <1>2, <1>3

LEMMA ExpandDirectoryStep ==
    ASSUME SInv, NEW p \in Process, NEW d, ExpandDirectory(p, d)
    PROVE  SInv'
<1>1. /\ run[p].stage = "expand" /\ d \in run[p].work /\ RunOK(run) /\ SessionTypes
      /\ UNCHANGED <<tree, events, verdict, closed, history>>
  BY DEF ExpandDirectory, SInv, SessionTypes
<1>2. /\ DOMAIN run[p] = {"stage", "at", "work", "here"}
      /\ run[p].stage # "idle" /\ run[p].at \in DOMAIN Targets
      /\ run[p].work \subseteq Folder /\ d \in Folder /\ Target(p).path \in Name \cup {Root}
  BY <1>1, AtStage DEF Placed
<1>3. UNCHANGED <<present, made, verdict, closed, late>>
  BY <1>1 DEF tree, history
<1>4. CASE UNCHANGED <<regs, open, opened, errors>> /\ NextTarget(p)
  <2>1. /\ MapOK(regs') /\ opened' \in [Folder -> Nat] /\ errors' \in Nat
        /\ regs' = regs /\ open' = open /\ errors' = errors
    BY <1>1, <1>4 DEF SessionTypes
  <2> QED
    BY <1>2, <1>3, <1>4, <2>1, NextTargetStep
<1>5. CASE /\ Register(d, Target(p).path, {}, TRUE)
           /\ run' = [run EXCEPT ![p].stage = "list", ![p].here = d, ![p].work = @ \ {d}]
           /\ UNCHANGED dirty
  <2> DEFINE q == [run[p] EXCEPT !.stage = "list", !.here = d, !.work = run[p].work \ {d}]
  <2>1. /\ MapOK(regs') /\ opened' \in [Folder -> Nat] /\ errors' \in Nat
        /\ errors' = 0 => errors = 0
        /\ open = Watchers(regs) => open' = Watchers(regs')
        /\ Watchers(regs) \subseteq Watchers(regs')
    BY <1>1, <1>2, <1>5, RegisterFacts
  <2>2. run' = [run EXCEPT ![p] = q] /\ dirty' = dirty
    BY <1>1, <1>2, <1>5 DEF RunOK
  <2>3. ProgressOK(q) /\ q.stage \notin {"idle", "check", "vanished"}
    BY <1>2 DEF ProgressOK, Stages
  <2> HIDE DEF q
  <2> QED
    BY <1>2, <1>3, <2>1, <2>2, <2>3, Onwards
<1>6. CASE Register(d, Target(p).path, {}, FALSE) /\ Expanding(p, run[p].work \ {d})
  <2>1. /\ MapOK(regs') /\ opened' \in [Folder -> Nat] /\ errors' \in Nat
        /\ errors' = 0 => errors = 0
        /\ open = Watchers(regs) => open' = Watchers(regs')
        /\ Watchers(regs) \subseteq Watchers(regs')
    BY <1>1, <1>2, <1>6, RegisterFacts
  <2>2. run[p].work \ {d} \subseteq Folder
    BY <1>2
  <2> QED
    BY <1>1, <1>3, <1>6, <2>1, <2>2, ExpandingStep
<1> QED
  BY <1>4, <1>5, <1>6 DEF ExpandDirectory

LEMMA ListDirectoryStep ==
    ASSUME SInv, NEW p \in Process, ListDirectory(p)
    PROVE  SInv'
<1>1. /\ run[p].stage = "list" /\ RunOK(run) /\ SessionTypes
      /\ UNCHANGED <<regs, open, opened>> /\ UNCHANGED <<tree, events, verdict, closed, history>>
  BY DEF ListDirectory, SInv, SessionTypes
<1>2. run[p].work \subseteq Folder
  BY <1>1, AtStage DEF Placed
<1>3. UNCHANGED <<present, made, verdict, closed, late>>
  BY <1>1 DEF tree, history
<1>4. /\ MapOK(regs') /\ opened' \in [Folder -> Nat] /\ regs' = regs /\ open' = open
  BY <1>1 DEF SessionTypes
<1>5. CASE /\ Expanding(p, run[p].work \cup {c \in Dirs \cap present : Parent[c] = run[p].here})
           /\ UNCHANGED <<issues, errors>>
  <2>1. run[p].work \cup {c \in Dirs \cap present : Parent[c] = run[p].here} \subseteq Folder
    BY <1>2 DEF Folder
  <2>2. errors' \in Nat /\ errors' = errors
    BY <1>1, <1>5 DEF SessionTypes
  <2> QED
    BY <1>1, <1>3, <1>4, <1>5, <2>1, <2>2, ExpandingStep
<1>6. CASE Fails(run[p].here) /\ Expanding(p, run[p].work)
  <2>1. errors' \in Nat /\ (errors' = 0 => errors = 0)
    BY <1>1, <1>6 DEF Fails, SessionTypes
  <2> QED
    BY <1>1, <1>2, <1>3, <1>4, <1>6, <2>1, ExpandingStep
<1> QED
  BY <1>5, <1>6 DEF ListDirectory

LEMMA SettleStep ==
    ASSUME SInv, Settle
    PROVE  SInv'
<1>1. /\ run["initialise"].stage = "settle" /\ run' = [run EXCEPT !["initialise"] = Idle]
      /\ verdict' \in {"failed", "degraded", "protected"}
      /\ UNCHANGED <<tree, handles, events, dirty, closed, history>>
  BY DEF Settle
<1>2. /\ RunOK(run') /\ run'["initialise"] = Idle /\ run'["refresh"] = run["refresh"]
  BY <1>1, OneProcess, IdleProgress DEF Process, SInv, SessionTypes
<1>3. /\ UNCHANGED <<present, made, closed, late, dirty, regs, open, opened, errors>>
  BY <1>1 DEF tree, history, handles
<1>4. SessionTypes'
  BY <1>1, <1>2, <1>3 DEF SInv, SessionTypes
<1>5. Idle.stage = "idle" /\ verdict' # None
  BY <1>1 DEF Idle
<1>6. SessionStages'
  BY <1>2, <1>3, <1>5 DEF SInv, SessionStages
<1>7. NoHandleLost'
  BY <1>2, <1>3 DEF SInv, NoHandleLost
<1> QED
  BY <1>4, <1>6, <1>7 DEF SInv

LEMMA HandleEventStep ==
    ASSUME SInv, NEW e, HandleEvent(e)
    PROVE  SInv'
<1>1. UNCHANGED <<present, made, closed, late, verdict, regs, open, opened, errors>>
  BY DEF HandleEvent, tree, handles, history
<1>2. MapOK(regs) /\ RunOK(run)
  BY DEF SInv, SessionTypes
<1>3. CASE UNCHANGED <<run, dirty>>
  BY <1>1, <1>3 DEF SInv, SessionTypes, SessionStages, NoHandleLost
<1>4. CASE run["refresh"].stage # "idle" /\ dirty' = TRUE /\ run' = run
  BY <1>1, <1>4 DEF SInv, SessionTypes, SessionStages, NoHandleLost
<1>5. CASE /\ ~closed /\ run["refresh"].stage = "idle"
           /\ run' = [run EXCEPT !["refresh"] = Refresh(regs)] /\ dirty' = dirty
  <2>1. /\ ProgressOK(Refresh(regs)) /\ StillRegistered(Refresh(regs), regs)
        /\ Refresh(regs).stage # "idle"
    BY <1>2, <1>5, RefreshFacts
  <2> HIDE DEF Refresh
  <2>2. /\ RunOK(run') /\ run'["refresh"] = Refresh(regs) /\ run'["initialise"] = run["initialise"]
    BY <1>2, <1>5, <2>1, OneProcess DEF Process
  <2>3. SessionTypes'
    BY <1>1, <2>2 DEF SInv, SessionTypes
  <2>4. SessionStages'
    BY <1>1, <1>5, <2>1, <2>2 DEF SInv, SessionStages
  <2>5. NoHandleLost'
    BY <1>1, <2>1, <2>2 DEF SInv, NoHandleLost
  <2> QED
    BY <2>3, <2>4, <2>5 DEF SInv
<1> QED
  BY <1>3, <1>4, <1>5 DEF HandleEvent, Request

LEMMA WatcherFailsStep ==
    ASSUME SInv, NEW w, WatcherFails(w)
    PROVE  SInv'
<1>1. /\ regs' = [regs EXCEPT ![w.dir] = None] /\ errors' = errors + 1
      /\ UNCHANGED <<present, made, opened, run, dirty, verdict, closed, late>>
  BY DEF WatcherFails, tree, history
<1>2. MapOK(regs) /\ errors \in Nat
  BY DEF SInv, SessionTypes
<1>3. /\ regs' \in [Folder -> Registration \cup {None}]
      /\ \A d \in Known(regs') : d \in Known(regs) /\ regs'[d] = regs[d]
  BY <1>1, <1>2 DEF MapOK, Known
<1>4. MapOK(regs') /\ errors' \in Nat /\ errors' # 0
  <2>1. errors' \in Nat /\ errors' # 0
    BY <1>1, <1>2
  <2>2. MapOK(regs')
    BY <1>2, <1>3, Forgetting
  <2> QED
    BY <2>1, <2>2
<1>5. SessionTypes'
  BY <1>1, <1>4 DEF SInv, SessionTypes
<1>6. SessionStages'
  BY <1>1 DEF SInv, SessionStages
<1> QED
  BY <1>4, <1>5, <1>6 DEF SInv, NoHandleLost

\* close() gives back what the map holds, and no process is left that could
\* register again unless a refresh was in flight.
LEMMA CloseStep ==
    ASSUME SInv, Close
    PROVE  SInv'
<1>1. /\ verdict # None /\ closed' = TRUE /\ regs' = [d \in Folder |-> None]
      /\ open' = open \ {regs[d].watcher : d \in Registered}
      /\ late' = (run["refresh"].stage # "idle")
      /\ UNCHANGED <<tree, opened, issues, errors, run, dirty, verdict, unseen, changes>>
      /\ ~closed
  BY DEF Close, CloseHandles
<1>2. MapOK(regs)
  BY DEF SInv, SessionTypes
<1>3. Known(regs') = {} /\ regs' \in [Folder -> Registration \cup {None}]
  BY <1>1 DEF Known
<1>4. MapOK(regs') /\ Watchers(regs') = {}
  BY <1>2, <1>3, Forgetting DEF Watchers
<1>5. UNCHANGED <<present, made, opened, errors, run, dirty, verdict>>
  BY <1>1 DEF tree
<1>6. SessionTypes'
  BY <1>4, <1>5 DEF SInv, SessionTypes
<1>7. SessionStages'
  <2>1. ~late' => run["refresh"].stage = "idle"
    BY <1>1
  <2>2. closed' /\ verdict' # None
    BY <1>1, <1>5
  <2> QED
    BY <1>5, <2>1, <2>2 DEF SInv, SessionStages
<1>8. NoHandleLost'
  <2> SUFFICES ASSUME errors' = 0, ~late'
               PROVE  open' = Watchers(regs') /\ StillRegistered(run'["refresh"], regs')
    BY DEF NoHandleLost
  <2>1. run["refresh"].stage = "idle" /\ errors = 0
    BY <1>1, <1>5
  <2>2. open' = {}
    <3>1. CASE late
      BY <3>1, <1>1 DEF SInv, SessionStages
    <3>2. CASE ~late
      BY <1>1, <2>1, <3>2 DEF SInv, NoHandleLost, Watchers, Known, Registered
    <3> QED
      BY <3>1, <3>2
  <2> QED
    BY <1>4, <1>5, <2>1, <2>2 DEF StillRegistered
<1> QED
  BY <1>6, <1>7, <1>8 DEF SInv

LEMMA ChangeStep ==
    ASSUME SInv, NEW names, Change(names), present' \subseteq Name, made' \in [Dirs -> Nat]
    PROVE  SInv'
<1>1. UNCHANGED <<regs, open, opened, errors, run, dirty, verdict, closed, late>>
  BY DEF Change, handles
<1> QED
  BY <1>1 DEF SInv, SessionTypes, SessionStages, NoHandleLost

\* Every step keeps the invariant.
LEMMA SessionNextSInv == SInv /\ [SessionNext]_sessionVars => SInv'
<1> SUFFICES ASSUME SInv, [SessionNext]_sessionVars PROVE SInv'
  OBVIOUS
<1>1. CASE RefreshStep
  BY <1>1, LookAtRegistrationStep, DropVanishedStep DEF RefreshStep
<1>2. ASSUME NEW p \in Process, ExpandStep(p) PROVE SInv'
  BY <1>2, LookAtTargetStep, LookAtAncestorStep, RegisterTargetStep, ExpandDirectoryStep,
     ListDirectoryStep DEF ExpandStep
<1>3. CASE Settle
  BY <1>3, SettleStep
<1>4. ASSUME NEW e \in events, HandleEvent(e) PROVE SInv'
  BY <1>4, HandleEventStep
<1>5. ASSUME NEW w \in open, WatcherFails(w) PROVE SInv'
  BY <1>5, WatcherFailsStep
<1>6. CASE Close
  BY <1>6, CloseStep
<1>7. ASSUME NEW n \in Name, Make(n) PROVE SInv'
  <2>1. present' \subseteq Name /\ made' \in [Dirs -> Nat]
    BY <1>7 DEF Make, SInv, SessionTypes
  <2> QED
    BY <1>7, <2>1, ChangeStep DEF Make
<1>8. ASSUME NEW n \in Name, Remove(n) PROVE SInv'
  <2>1. /\ present' \subseteq Name /\ made' \in [Dirs -> Nat]
        /\ Change({m \in present : n \in Above[m]})
    BY <1>8 DEF Remove, SInv, SessionTypes
  <2> QED
    BY <2>1, ChangeStep
<1>9. CASE UNCHANGED sessionVars
  BY <1>9 DEF sessionVars, tree, handles, history, SInv, SessionTypes, SessionStages, NoHandleLost
<1> QED
  BY <1>1, <1>2, <1>3, <1>4, <1>5, <1>6, <1>7, <1>8, <1>9 DEF SessionNext

\* The types, and when there is a verdict.
THEOREM SessionTyped == SessionSpec => []SessionTypeOK
<1>1. SInv => SessionTypeOK
  BY DEF SInv, SessionTypes, SessionStages, SessionTypeOK, MapOK, Known, Registered
<1> QED
  BY <1>1, SessionInitSInv, SessionNextSInv, PTL DEF SessionSpec

\* For every tree, target list and limit: while no handle has failed and no
\* refresh has outlived close(), the handles open are exactly the registered
\* ones, within the directory limit, through every interleaving of initialise(),
\* refreshes, directories that come and go, and close().
THEOREM HandlesAreNotLost == SessionSpec => []NothingLeaks
<1>1. SInv => NothingLeaks
  BY DEF SInv, SessionTypes, NoHandleLost, NothingLeaks, MapOK, Watchers, Known, Registered
<1> QED
  BY <1>1, SessionInitSInv, SessionNextSInv, PTL DEF SessionSpec

===============================================================================
