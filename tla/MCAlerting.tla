----------------------------- MODULE MCAlerting -----------------------------
(* What stands between a change and the user's desktop: the watch session,   *)
(* over a home with ~/.config/autostart/<sub>, watched as a tree, ~/.claude, *)
(* watched as a directory, and ~/.zshrc; and, in behaviours of its own, the  *)
(* notification budget.  They share no state; the one that does not run has  *)
(* nothing to do: a closed session of a file system that no longer changes.  *)
EXTENDS NotificationBudget, WatchSession

VARIABLE part   \* the one that runs

MCParent == [config |-> "home", autostart |-> "config", sub |-> "autostart",
             claude |-> "home", zshrc |-> "home"]
MCTargets == <<[path |-> "autostart", recursive |-> TRUE], [path |-> "claude", recursive |-> FALSE],
               [path |-> "zshrc", recursive |-> FALSE]>>

ClosedSession ==
  /\ present = {} /\ made = [d \in Dirs |-> 0] /\ regs = [d \in Folder |-> None]
  /\ open = {} /\ opened = [d \in Folder |-> 0] /\ events = {} /\ issues = {}
  /\ run = [initialise |-> Idle, refresh |-> Idle]
  /\ dirty = FALSE /\ verdict = "degraded" /\ closed = TRUE
  /\ unseen = {} /\ late = FALSE /\ changes = MaxChanges /\ errors = 0

MCInit ==
  \/ part = "session" /\ SessionInit /\ Init /\ now = 0
  \/ part = "budget" /\ ClosedSession /\ Init

MCNext ==
  \/ part = "session" /\ SessionNext /\ UNCHANGED <<part, vars>>
  \/ part = "budget" /\ Next /\ UNCHANGED <<part, sessionVars>>

MCSpec == MCInit /\ [][MCNext]_<<part, vars, sessionVars>> /\ SessionFairness
=============================================================================
