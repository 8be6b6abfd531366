-------------------------- MODULE NotificationBudget --------------------------
(***************************************************************************)
(* NotificationBudget (NotificationPolicy.ts): which findings the resident *)
(* watcher may raise as a desktop notification.  A key is not repeated     *)
(* within a cooldown, and no more than MaxPerWindow notifications are      *)
(* granted per window.                                                     *)
(*                                                                         *)
(* Grants are numbered in the order they are made; recentlySent, a Map in  *)
(* insertion order, is then a set of grant numbers.                        *)
(***************************************************************************)
EXTENDS Integers, Sequences, FiniteSets

CONSTANTS Key,           \* decision keys
          Null,          \* no window yet
          MaxPerWindow, Window, Cooldown,   \* NotificationPolicySpec
          RecentBound,   \* 512 in enforceRecentBound
          Time,          \* the instants the wall clock may show
          MaxGrants      \* bound on the history, so on the claims

\* NotificationPolicy.create
ASSUME PolicyAssumption == /\ MaxPerWindow \in Nat \ {0}
                           /\ Window \in Nat \ {0}
                           /\ Cooldown \in Nat \ {0}
ASSUME BoundAssumption == RecentBound \in Nat \ {0} /\ MaxGrants \in Nat
ASSUME TimeAssumption == Time \subseteq Nat
ASSUME NullAssumption == Null \notin Nat

VARIABLES now,              \* the wall clock
          windowStartedAt,  \* start of the current window
          sentInWindow,     \* grants of the current window
          recentlySent,     \* the grants whose keys are remembered
          granted,          \* every grant so far, a sequence of [key, at]
          answer,           \* what the last claim returned, when, for which key
          stepped           \* history: the wall clock was set back

budgetVars == <<windowStartedAt, sentInWindow, recentlySent, granted, answer>>
vars == <<now, budgetVars, stepped>>

Grant == [key : Key, at : Nat]
Answer == [key : Key, at : Nat, verdict : {"granted", "duplicate", "rate-limit"}]

TypeOK == /\ now \in Nat
          /\ windowStartedAt \in Nat \cup {Null}
          /\ sentInWindow \in 0..MaxPerWindow
          /\ granted \in Seq(Grant)
          /\ recentlySent \subseteq 1..Len(granted)
          /\ Cardinality(recentlySent) <= RecentBound
          /\ answer \in Answer \cup {<<>>}
          /\ stepped \in BOOLEAN

\* new NotificationBudget(policy)
Init == /\ now \in Time
        /\ windowStartedAt = Null
        /\ sentInWindow = 0
        /\ recentlySent = {}
        /\ granted = <<>>
        /\ answer = <<>>
        /\ stepped = FALSE

-----------------------------------------------------------------------------
(* claim(key, at) *)

\* Mutant: a key is forgotten one instant early.
PruneEarly(recent) == {g \in recent : now - granted[g].at + 1 < Cooldown}

\* prune(now): what remains of recentlySent.
Prune(recent) == {g \in recent : now - granted[g].at < Cooldown}

\* enforceRecentBound: forget the oldest keys while there are too many.
Oldest(recent) == CHOOSE g \in recent : \A h \in recent : g <= h
EnforceRecentBound(recent) ==
    IF Cardinality(recent) > RecentBound THEN recent \ {Oldest(recent)} ELSE recent

Respond(key, verdict) == answer' = [key |-> key, at |-> now, verdict |-> verdict]

\* Mutant: the window ends one instant early.
WindowIsOverEarly == windowStartedAt = Null \/ now - windowStartedAt + 1 >= Window

WindowIsOver == windowStartedAt = Null \/ now - windowStartedAt >= Window

\* Mutant: every claim is charged to the window, refused ones too.
ClaimCharges(key) ==
    LET fresh == IF WindowIsOver THEN 0 ELSE sentInWindow IN
    /\ windowStartedAt' = IF WindowIsOver THEN now ELSE windowStartedAt
    /\ sentInWindow' = IF fresh < MaxPerWindow THEN fresh + 1 ELSE fresh
    /\ CASE \E g \in Prune(recentlySent) : granted[g].key = key ->
              /\ recentlySent' = Prune(recentlySent)
              /\ Respond(key, "duplicate")
              /\ UNCHANGED granted
         [] fresh >= MaxPerWindow ->
              /\ recentlySent' = Prune(recentlySent)
              /\ Respond(key, "rate-limit")
              /\ UNCHANGED granted
         [] OTHER ->
              /\ granted' = Append(granted, [key |-> key, at |-> now])
              /\ recentlySent' =
                     EnforceRecentBound(Prune(recentlySent) \cup {Len(granted) + 1})
              /\ Respond(key, "granted")
    /\ UNCHANGED <<now, stepped>>

Claim(key) ==
    LET recent == Prune(recentlySent)
        duplicate == \E g \in recent : granted[g].key = key
        sent == IF WindowIsOver THEN 0 ELSE sentInWindow
    IN  /\ IF duplicate
           THEN /\ recentlySent' = recent
                /\ Respond(key, "duplicate")
                /\ UNCHANGED <<windowStartedAt, sentInWindow, granted>>
           ELSE /\ windowStartedAt' = IF WindowIsOver THEN now ELSE windowStartedAt
                /\ IF sent >= MaxPerWindow
                   THEN /\ sentInWindow' = sent
                        /\ recentlySent' = recent
                        /\ Respond(key, "rate-limit")
                        /\ UNCHANGED granted
                   ELSE /\ sentInWindow' = sent + 1
                        /\ granted' = Append(granted, [key |-> key, at |-> now])
                        /\ recentlySent' = EnforceRecentBound(recent \cup {Len(granted) + 1})
                        /\ Respond(key, "granted")
        /\ UNCHANGED <<now, stepped>>

-----------------------------------------------------------------------------
(* The wall clock: Date, which an administrator or NTP may set back. *)

Advance(t) == now' = t /\ t > now /\ UNCHANGED <<budgetVars, stepped>>
SetBack(t) == now' = t /\ t < now /\ stepped' = TRUE /\ UNCHANGED budgetVars

Next == \/ \E k \in Key : Len(granted) < MaxGrants /\ Claim(k)
        \/ \E t \in Time : Advance(t) \/ SetBack(t)

Spec == Init /\ [][Next]_vars

-----------------------------------------------------------------------------
(* Properties.  They compare instants, so they assume a clock that was never *)
(* set back.                                                                 *)

\* "a repeat never inside 15 minutes": two grants of one key inside the
\* cooldown have so many others between them that the first was forgotten.
NoEarlyRepeat ==
    ~stepped => \A i, j \in DOMAIN granted :
        (i < j /\ granted[i].key = granted[j].key /\ granted[j].at - granted[i].at < Cooldown)
            => j - i > RecentBound

\* The code's "sliding-window budget" restarts its window with the first claim
\* after the old one ran out.  However claims are timed, 2 * MaxPerWindow
\* consecutive grants span at least a window: at most one full window's worth
\* fits on each side of a reset.
BurstIsBounded ==
    ~stepped => \A i, j \in DOMAIN granted :
        j - i >= 2 * MaxPerWindow - 1 => granted[j].at - granted[i].at >= Window

\* "A refused claim is not spent budget": a key is refused as a duplicate only
\* if it was granted within the cooldown, and for the rate only if the last
\* MaxPerWindow grants all lie within a window of the refusal.
RefusalsAreEarned ==
    ~stepped /\ answer # <<>> =>
        /\ answer.verdict = "duplicate" =>
               \E i \in DOMAIN granted : /\ granted[i].key = answer.key
                                         /\ answer.at - granted[i].at < Cooldown
        /\ answer.verdict = "rate-limit" =>
               LET n == Len(granted) IN
               n >= MaxPerWindow /\ answer.at - granted[n - MaxPerWindow + 1].at < Window

-----------------------------------------------------------------------------
(* The inductive invariant *)

\* Grants are made in the order of time.
OrderInv == /\ \A i \in DOMAIN granted : granted[i].at <= now
            /\ \A i, j \in DOMAIN granted : i <= j => granted[i].at <= granted[j].at

\* The current window opened with its first grant; whatever precedes the
\* previous MaxPerWindow - 1 grants lies a whole window before it.
WindowInv ==
    /\ windowStartedAt = Null <=> granted = <<>>
    /\ granted # <<>> =>
           /\ sentInWindow \in 1..Len(granted)
           /\ windowStartedAt = granted[Len(granted) - sentInWindow + 1].at
           /\ \A i \in DOMAIN granted :
                  i <= Len(granted) - sentInWindow - MaxPerWindow + 1 =>
                      granted[i].at + Window <= windowStartedAt

\* A grant inside the cooldown is remembered, unless RecentBound grants
\* have followed it.
MemoryInv == \A i \in DOMAIN granted :
    now - granted[i].at < Cooldown =>
        i \in recentlySent \/ Len(granted) - i >= RecentBound

IInv == TypeOK /\ (~stepped => /\ OrderInv /\ WindowInv /\ MemoryInv
                              /\ NoEarlyRepeat /\ BurstIsBounded /\ RefusalsAreEarned)

=============================================================================
