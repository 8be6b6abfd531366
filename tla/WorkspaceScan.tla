--------------------------- MODULE WorkspaceScan ---------------------------
(***************************************************************************)
(* agentkeeper scan (ScanCommand, ScanWorkspace, ReviewFindings) and the   *)
(* decision store it shares with every other scan of the same user: the    *)
(* git hook starts quiet scans while an interactive one waits for answers. *)
(* decisions.json is loaded and saved whole (JsonDocument), so a save      *)
(* writes back everything that was there when the scan loaded it.          *)
(***************************************************************************)
EXTENDS Rules

CONSTANTS
  Scans,        \* the scans that may run, each once
  Interactive,  \* those that review findings at a terminal
  File,         \* the files of the workspace, named by their kind
  Content,      \* the contents a file may have: sets of traits
  Huge,         \* a content above MAX_SCANNED_ARTIFACT_BYTES
  None,         \* no file, no record, no answer
  Disabled,     \* rules switched off in config.json
  MaxEdits      \* how often the repository changes

ASSUME ScanAssumption ==
  /\ Interactive \subseteq Scans
  /\ File \subseteq Interesting
  /\ Huge \notin Content /\ None \notin Content /\ Huge # None
  /\ None \notin {"allow", "deny", "allow-once", "allow-forever", "deny-forever"}
  /\ MaxEdits \in Nat

VARIABLES
  repo,       \* the files on disk
  edits,
  decisions,  \* decisions.json
  scans,      \* the state of every scan
  approved,   \* contents the user allowed forever
  once        \* findings answered allow-once, by scan

vars == <<repo, edits, decisions, scans, approved, once>>

Verdict == {None, "allow", "deny"}
Answer == {None, "allow-once", "deny", "allow-forever", "deny-forever"}

\* The two kinds of record in decisions.json: answers under a content hash,
\* and the hash last seen under drift:<workspace>:<path>.
Document == [answers : [Content -> Verdict], drift : [File -> Content \cup {None}]]

Idle ==
  [pc |-> "idle", snapshot |-> [answers |-> [c \in Content |-> None],
                                drift |-> [f \in File |-> None]],
   todo |-> {}, seen |-> <<>>, kept |-> {}, asking |-> {},
   loaded |-> None, answer |-> None]

Init ==
  /\ repo \in [File -> Content]
  /\ edits = 0
  /\ decisions = [answers |-> [c \in Content |-> None],
                  drift |-> [f \in File |-> None]]
  /\ scans = [s \in Scans |-> Idle]
  /\ approved = {}
  /\ once = {}

\* git pull, an editor or the agent replaces a file.
Edit(f, c) ==
  /\ edits < MaxEdits
  /\ c # repo[f]
  /\ edits' = edits + 1
  /\ repo' = [repo EXCEPT ![f] = c]
  /\ UNCHANGED <<decisions, scans, approved, once>>

\* execute: the listing and the snapshot of the decisions.
Begin(s) ==
  /\ scans[s].pc = "idle"
  /\ scans' = [scans EXCEPT ![s].pc = "reading", ![s].snapshot = decisions,
                            ![s].todo = {f \in File : repo[f] # None}]
  /\ UNCHANGED <<repo, edits, decisions, approved, once>>

\* One worker of mapWithConcurrency: stat, the size limit, read.  A file that
\* has gone is skipped; one that is too large fails the scan.
ReadFile(s, f) ==
  /\ scans[s].pc = "reading" /\ f \in scans[s].todo
  /\ scans' =
       CASE repo[f] = None -> [scans EXCEPT ![s].todo = @ \ {f}]
         [] repo[f] = Huge -> [scans EXCEPT ![s] = [Idle EXCEPT !.pc = "failed"]]
         [] OTHER -> [scans EXCEPT ![s].todo = @ \ {f},
                                   ![s].seen = [g \in DOMAIN @ \cup {f} |->
                                                  IF g = f THEN repo[f] ELSE @[g]]]
  /\ UNCHANGED <<repo, edits, decisions, approved, once>>

\* applyDecisions: a finding whose key was allowed is dropped, whatever its
\* rule and its disposition.
ApplyDecisions(findings, answers) == {f \in findings : answers[f.key] # "allow"}

\* recordArtifactHashes: the artifacts not last seen with this content.
Changed(scan) ==
  {f \in DOMAIN scan.seen : scan.snapshot.drift[f] # scan.seen[f]}

\* What the rules say of everything this scan has read.
Found(scan) == Scan(scan.seen, scan.snapshot.drift, None, Disabled)

\* Where a scan goes once the hashes are recorded.
Reviewing(s, scan) ==
  IF s \in Interactive
  THEN [scan EXCEPT !.pc = "review",
                    !.asking = {f \in scan.kept : f.disposition = "ask"},
                    !.kept = {f \in scan.kept : f.disposition # "ask"}]
  ELSE [scan EXCEPT !.pc = "report"]

\* The rules, the decisions, and whether there are hashes to record.
Evaluate(s) ==
  /\ scans[s].pc = "reading" /\ scans[s].todo = {}
  /\ LET scan == [scans[s] EXCEPT !.kept =
                    ApplyDecisions(Found(scans[s]), scans[s].snapshot.answers)]
     IN scans' = [scans EXCEPT ![s] =
                    IF Changed(scan) = {} THEN Reviewing(s, scan)
                    ELSE [scan EXCEPT !.pc = "load-drift"]]
  /\ UNCHANGED <<repo, edits, decisions, approved, once>>

\* recordMany: load ...
LoadDecisions(s) ==
  /\ scans[s].pc \in {"load-drift", "load-answer"}
  /\ scans' = [scans EXCEPT ![s].loaded = decisions,
                            ![s].pc = IF @ = "load-drift" THEN "save-drift"
                                                          ELSE "save-answer"]
  /\ UNCHANGED <<repo, edits, decisions, approved, once>>

\* Mutant: the hash that was seen is recorded under its own key.
SaveDriftAsAnswer(s) ==
  /\ scans[s].pc = "save-drift"
  /\ decisions' = [scans[s].loaded EXCEPT !.answers =
                     [c \in Content |-> IF \E f \in Changed(scans[s]) : scans[s].seen[f] = c
                                        THEN "allow" ELSE @[c]]]
  /\ scans' = [scans EXCEPT ![s] = Reviewing(s, [scans[s] EXCEPT !.loaded = None])]
  /\ UNCHANGED <<repo, edits, approved, once>>

\* ... and save: the drift records of a scan,
SaveDrift(s) ==
  /\ scans[s].pc = "save-drift"
  /\ decisions' = [scans[s].loaded EXCEPT !.drift =
                     [f \in File |-> IF f \in Changed(scans[s])
                                     THEN scans[s].seen[f] ELSE @[f]]]
  /\ scans' = [scans EXCEPT ![s] = Reviewing(s, [scans[s] EXCEPT !.loaded = None])]
  /\ UNCHANGED <<repo, edits, approved, once>>

\* The finding the review is at: the first of those left, in report order.
Current(scan) ==
  CHOOSE f \in scan.asking : \A g \in scan.asking \ {f} : ~Before(g, f)

Answered(scan, keep) ==
  [scan EXCEPT !.asking = @ \ {Current(scan)}, !.answer = None, !.loaded = None,
               !.kept = IF keep THEN @ \cup {Current(scan)} ELSE @,
               !.pc = "review"]

\* Mutant: whatever was decided forever ends the question in the user's favour.
PreviousDecisionDropped(s) ==
  /\ scans[s].pc = "review" /\ scans[s].asking # {}
  /\ LET previous == decisions.answers[Current(scans[s]).key] IN
     scans' = [scans EXCEPT ![s] =
                 IF previous = None THEN [scans[s] EXCEPT !.pc = "prompt"]
                 ELSE Answered(scans[s], FALSE)]
  /\ UNCHANGED <<repo, edits, decisions, approved, once>>

\* A finding somebody has decided forever is not asked about.
PreviousDecision(s) ==
  /\ scans[s].pc = "review" /\ scans[s].asking # {}
  /\ LET previous == decisions.answers[Current(scans[s]).key] IN
     scans' = [scans EXCEPT ![s] =
                 IF previous = None THEN [scans[s] EXCEPT !.pc = "prompt"]
                 ELSE Answered(scans[s], previous = "deny")]
  /\ UNCHANGED <<repo, edits, decisions, approved, once>>

\* The user answers, or there is nobody to ask (null).
Prompt(s, a) ==
  /\ scans[s].pc = "prompt"
  /\ scans' = [scans EXCEPT ![s] =
       CASE a = None -> Answered(scans[s], TRUE)
         [] a \in {"allow-once", "deny"} -> [scans[s] EXCEPT !.pc = "audit", !.answer = a]
         [] OTHER -> [scans[s] EXCEPT !.pc = "load-answer", !.answer = a]]
  /\ approved' = IF a = "allow-forever" THEN approved \cup {Current(scans[s]).key}
                                        ELSE approved
  /\ once' = IF a = "allow-once" THEN once \cup {<<s, Current(scans[s])>>} ELSE once
  /\ UNCHANGED <<repo, edits, decisions>>

\* decisions.record of a durable answer.
SaveAnswer(s) ==
  /\ scans[s].pc = "save-answer"
  /\ decisions' = [scans[s].loaded EXCEPT !.answers[Current(scans[s]).key] =
                     IF scans[s].answer = "allow-forever" THEN "allow" ELSE "deny"]
  /\ scans' = [scans EXCEPT ![s].pc = "audit", ![s].loaded = None]
  /\ UNCHANGED <<repo, edits, approved, once>>

\* recordAudit; its failure is not caught and ends the command.
Audit(s) ==
  /\ scans[s].pc = "audit"
  /\ scans' = [scans EXCEPT ![s] =
                 Answered(@, @.answer \in {"deny", "deny-forever"})]
  /\ UNCHANGED <<repo, edits, decisions, approved, once>>

\* The report is printed; blocking findings make the exit code 2.  Only what
\* was read and what was kept matter from here on.
Report(s) ==
  /\ \/ scans[s].pc = "report"
     \/ scans[s].pc = "review" /\ scans[s].asking = {}
  /\ scans' = [scans EXCEPT ![s].pc = "done"]
  /\ UNCHANGED <<repo, edits, decisions, approved, once>>

\* An I/O error or a kill ends a scan anywhere; nothing is undone.
Abort(s) ==
  /\ scans[s].pc \notin {"idle", "done", "failed"}
  /\ scans' = [scans EXCEPT ![s] = [Idle EXCEPT !.pc = "failed"]]
  /\ UNCHANGED <<repo, edits, decisions, approved, once>>

Work(s) ==
  \/ \E f \in File : ReadFile(s, f)
  \/ Evaluate(s) \/ LoadDecisions(s) \/ SaveDrift(s)
  \/ PreviousDecision(s) \/ (\E a \in Answer : Prompt(s, a))
  \/ SaveAnswer(s) \/ Audit(s) \/ Report(s)

ScanNext ==
  \/ \E f \in File, c \in Content \cup {None, Huge} : Edit(f, c)
  \/ \E s \in Scans : Begin(s) \/ Work(s) \/ Abort(s)

Spec == Init /\ [][ScanNext]_vars
-----------------------------------------------------------------------------
\* Types; a finding is never both settled and still to be asked about, and no
\* file is read twice by one scan.
TypeOK ==
  /\ repo \in [File -> Content \cup {None, Huge}]
  /\ edits \in 0..MaxEdits
  /\ decisions \in Document
  /\ approved \subseteq Content
  /\ \A s \in Scans :
       /\ scans[s].snapshot \in Document
       /\ scans[s].loaded \in Document \cup {None}
       /\ scans[s].answer \in Answer
       /\ scans[s].asking \cap scans[s].kept = {}
       /\ DOMAIN scans[s].seen \cap scans[s].todo = {}

\* Trust is only ever the user's: whatever scans overlap, and however stale
\* the document a scan writes back, decisions.json allows a content only if
\* somebody answered allow-forever to a finding of exactly that content.
ApprovalIsTheUsers ==
  \A c \in Content : decisions.answers[c] = "allow" => c \in approved

\* Nothing is hidden from the report of a finished scan: a finding about what
\* the scan read is in its report unless its content was allowed forever or
\* this very finding was allowed once during this scan.
NothingHidden ==
  \A s \in Scans : scans[s].pc = "done" =>
    \A f \in Found(scans[s]) :
      \/ f \in scans[s].kept
      \/ f.key \in approved
      \/ <<s, f>> \in once

\* Drift is never lost: when a scan replaces the recorded hash of an instruction
\* file by the content it read, the change is in its report, unless that
\* content is allowed or the scan began before the file had a record.
NoSilentDrift ==
  [][\A s \in Scans, f \in File \cap {"instructions"} :
       /\ scans[s].pc = "save-drift" /\ decisions' # decisions
       /\ f \in Changed(scans[s])
       /\ decisions.drift[f] \notin {None, decisions'.drift[f]}
       => \/ \E g \in scans[s].kept : g.rule = Drift /\ g.file = f
          \/ scans[s].seen[f] \in approved
          \/ scans[s].snapshot.drift[f] = None
          \/ scans'[s] = scans[s]]_vars

\* What RuleRegistry and ReviewFindings say of a refusal: an answer to another
\* question never removes it.
RefusalSurvives ==
  \A s \in Scans : scans[s].pc = "done" =>
    \A f \in Found(scans[s]) : f.disposition = "block" => f \in scans[s].kept
=============================================================================
