------------------------ MODULE WorkspaceScanProofs ------------------------
(***************************************************************************)
(* For any number of scans, files, contents and edits: decisions.json only *)
(* allows what the user allowed, no finding is missing from a report but   *)
(* for the user's own answers, a changed instruction file is reported, and *)
(* the tool-call hook never turns a refusal into consent.                  *)
(***************************************************************************)
EXTENDS WorkspaceScan, ToolCallHook, TLAPS

\* A document that allows nothing but the contents in trusted.
Honest(doc, trusted) ==
  /\ doc \in Document
  /\ \A c \in Content : doc.answers[c] = "allow" => c \in trusted

Fields(scan) ==
  scan = [pc |-> scan.pc, snapshot |-> scan.snapshot, todo |-> scan.todo,
          seen |-> scan.seen, kept |-> scan.kept, asking |-> scan.asking,
          loaded |-> scan.loaded, answer |-> scan.answer]

\* The stages before the rules have run, those before the review, and those
\* between a question and the next one.
Collecting == {"idle", "reading", "failed"}
Judged == {"load-drift", "save-drift"}
Asked == {"load-answer", "save-answer", "audit"}
Stage == Collecting \cup Judged \cup Asked \cup {"report", "review", "prompt", "done"}

\* A finding of the scan s is reported or still asked about, or the user has
\* answered for it: once, or forever for its content.
Settled(s, scan, trusted, single, f) ==
  \/ f \in scan.kept
  \/ f \in scan.asking
  \/ f.key \in trusted
  \/ scan.pc \notin Judged /\ <<s, f>> \in single

\* What the scan s knows at each of its stages.
Sound(s, scan, trusted, single) ==
  /\ Fields(scan)
  /\ scan.pc \in Stage
  /\ Honest(scan.snapshot, trusted)
  /\ scan.pc \in {"save-drift", "save-answer"} => Honest(scan.loaded, trusted)
  /\ \A f \in DOMAIN scan.seen : scan.seen[f] \in Content
  /\ scan.pc \in Collecting \cup Judged \cup {"report", "done"} => scan.asking = {}
  /\ scan.pc \notin Collecting =>
       \A f \in Found(scan) : Settled(s, scan, trusted, single, f)
  /\ scan.pc \in Asked =>
       /\ scan.answer \in {"allow-once", "deny", "allow-forever", "deny-forever"}
       /\ scan.answer = "allow-forever" => Current(scan).key \in trusted
       /\ scan.answer = "allow-once" => <<s, Current(scan)>> \in single

IInv ==
  /\ repo \in [File -> Content \cup {None, Huge}]
  /\ Honest(decisions, approved)
  /\ scans = [s \in Scans |-> scans[s]]
  /\ \A s \in Scans : Sound(s, scans[s], approved, once)
-----------------------------------------------------------------------------
\* ScanEngine.scan: a finding's key is the content of a file that was read.
LEMMA FindingKeys ==
  ASSUME NEW scan, \A f \in DOMAIN scan.seen : scan.seen[f] \in Content
  PROVE  \A g \in Found(scan) : g.key \in Content
  BY DEF Found, Scan, Finding

LEMMA IdleIsHonest ==
  ASSUME NEW trusted
  PROVE  Honest([answers |-> [c \in Content |-> None], drift |-> [f \in File |-> None]], trusted)
  BY ScanAssumption DEF Honest, Document, Verdict

\* A scan that has not begun, or has failed, knows nothing.
LEMMA BlankIsSound ==
  ASSUME NEW s, NEW trusted, NEW single
  PROVE  Sound(s, Idle, trusted, single) /\ Sound(s, [Idle EXCEPT !.pc = "failed"], trusted, single)
<1> DEFINE empty == [answers |-> [c \in Content |-> None], drift |-> [f \in File |-> None]]
           unread == <<>>
<1>1. Idle = [pc |-> "idle", snapshot |-> empty, todo |-> {}, seen |-> unread, kept |-> {},
              asking |-> {}, loaded |-> None, answer |-> None]
  BY DEF Idle
<1>2. DOMAIN unread = {} /\ Honest(empty, trusted)
  BY IdleIsHonest
<1> HIDE DEF empty, unread
<1>3. [Idle EXCEPT !.pc = "failed"] =
        [pc |-> "failed", snapshot |-> empty, todo |-> {}, seen |-> unread, kept |-> {},
         asking |-> {}, loaded |-> None, answer |-> None]
  BY <1>1
<1> QED BY <1>1, <1>2, <1>3 DEF Sound, Fields, Stage, Collecting, Judged, Asked

\* Answers only add to what is trusted.
LEMMA SoundGrows ==
  ASSUME NEW s, NEW scan, NEW trusted, NEW single, Sound(s, scan, trusted, single),
         NEW more, trusted \subseteq more, NEW others, single \subseteq others
  PROVE  Sound(s, scan, more, others)
  BY DEF Sound, Honest, Settled

\* What a step of the scan s has to show.
LEMMA OneScan ==
  ASSUME IInv, NEW s \in Scans, NEW scan, Sound(s, scan, approved', once'),
         scans' = [scans EXCEPT ![s] = scan], UNCHANGED repo,
         approved \subseteq approved', once \subseteq once', Honest(decisions', approved')
  PROVE  IInv'
<1>1. scans' = [t \in Scans |-> scans'[t]]
  BY DEF IInv
<1>2. \A t \in Scans : scans'[t] = IF t = s THEN scan ELSE scans[t]
  BY DEF IInv
<1>3. \A t \in Scans : Sound(t, scans[t], approved', once')
  BY SoundGrows DEF IInv
<1>4. \A t \in Scans : Sound(t, scans'[t], approved', once')
  BY <1>2, <1>3
<1> QED BY <1>1, <1>4 DEF IInv

LEMMA InitIInv == Init => IInv
<1> SUFFICES ASSUME Init PROVE IInv
  OBVIOUS
<1>2. \A s \in Scans : Sound(s, Idle, approved, once)
  BY BlankIsSound
<1>3. Honest(decisions, approved)
  BY IdleIsHonest DEF Init
<1> QED BY <1>2, <1>3 DEF Init, IInv

LEMMA BeginStep ==
  ASSUME IInv, NEW s \in Scans, Begin(s)
  PROVE  IInv'
<1> DEFINE scan == scans[s]
           listed == {f \in File : repo[f] # None}
           new == [scan EXCEPT !.pc = "reading", !.snapshot = decisions, !.todo = listed]
<1>1. Sound(s, scan, approved, once) /\ scan.pc = "idle" /\ Honest(decisions, approved)
  BY DEF IInv, Begin
<1>2. scans' = [scans EXCEPT ![s] = new]
  BY DEF Begin
<1> HIDE DEF listed
<1>0. new = [scan EXCEPT !.pc = "reading", !.snapshot = decisions, !.todo = listed]
  OBVIOUS
<1> HIDE DEF new
<1>3. /\ Fields(new) /\ new.pc = "reading" /\ new.snapshot = decisions
      /\ new.seen = scan.seen /\ new.asking = scan.asking
  BY <1>1, <1>0 DEF Sound, Fields
<1>4. Sound(s, new, approved, once)
  BY <1>1, <1>3 DEF Sound, Stage, Collecting, Judged, Asked
<1> QED BY <1>1, <1>2, <1>4, OneScan DEF Begin

LEMMA ReadFileStep ==
  ASSUME IInv, NEW s \in Scans, NEW f \in File, ReadFile(s, f)
  PROVE  IInv'
<1> DEFINE scan == scans[s]
           left == scan.todo \ {f}
           gone == [scan EXCEPT !.todo = left]
           read == [g \in DOMAIN scan.seen \cup {f} |-> IF g = f THEN repo[f] ELSE scan.seen[g]]
           got == [scan EXCEPT !.todo = left, !.seen = read]
<1>1. /\ Sound(s, scan, approved, once) /\ scan.pc = "reading" /\ Honest(decisions, approved)
      /\ UNCHANGED <<repo, decisions, approved, once>>
  BY DEF IInv, ReadFile
<1>2. scans' = CASE repo[f] = None -> [scans EXCEPT ![s] = gone]
                 [] repo[f] = Huge -> [scans EXCEPT ![s] = [Idle EXCEPT !.pc = "failed"]]
                 [] OTHER -> [scans EXCEPT ![s] = got]
  BY DEF ReadFile
<1>3. \A g \in DOMAIN read : repo[f] \in Content => read[g] \in Content
  BY <1>1 DEF Sound
<1> HIDE DEF left, read
<1>4. CASE repo[f] = None
  <2>1. scans' = [scans EXCEPT ![s] = gone]
    BY <1>2, <1>4, ScanAssumption
  <2>2. Sound(s, gone, approved, once)
    BY <1>1 DEF Sound, Fields, Stage, Collecting, Judged, Asked
  <2> QED BY <1>1, <2>1, <2>2, OneScan
<1>5. CASE repo[f] = Huge
  <2>1. scans' = [scans EXCEPT ![s] = [Idle EXCEPT !.pc = "failed"]]
    BY <1>2, <1>5, ScanAssumption
  <2> QED BY <1>1, <2>1, BlankIsSound, OneScan
<1>6. CASE repo[f] \notin {None, Huge}
  <2>1. scans' = [scans EXCEPT ![s] = got]
    BY <1>2, <1>6
  <2>2. repo[f] \in Content
    BY <1>6 DEF IInv
  <2>0. got = [scan EXCEPT !.todo = left, !.seen = read]
    OBVIOUS
  <2> HIDE DEF got
  <2>3. /\ Fields(got) /\ got.pc = scan.pc /\ got.snapshot = scan.snapshot
        /\ got.seen = read /\ got.asking = scan.asking
    BY <1>1, <2>0 DEF Sound, Fields
  <2>4. Sound(s, got, approved, once)
    BY <1>1, <1>3, <2>2, <2>3 DEF Sound, Stage, Collecting, Judged, Asked
  <2> QED BY <1>1, <2>1, <2>4, OneScan
<1> QED BY <1>4, <1>5, <1>6

\* Where the review begins, nothing that was kept is lost.
LEMMA ReviewingIsSound ==
  ASSUME NEW s, NEW scan, NEW trusted, NEW single, Fields(scan), Honest(scan.snapshot, trusted),
         \A f \in DOMAIN scan.seen : scan.seen[f] \in Content, scan.asking = {},
         \A f \in Found(scan) : f \in scan.kept \/ f.key \in trusted
  PROVE  Sound(s, Reviewing(s, scan), trusted, single)
<1> DEFINE open == {f \in scan.kept : f.disposition = "ask"}
           shut == {f \in scan.kept : f.disposition # "ask"}
           ask == [scan EXCEPT !.pc = "review", !.asking = open, !.kept = shut]
           quiet == [scan EXCEPT !.pc = "report"]
<1>0. \A f \in scan.kept : f \in open \/ f \in shut
  OBVIOUS
<1>4. Reviewing(s, scan) = IF s \in Interactive THEN ask ELSE quiet
  BY DEF Reviewing
<1> HIDE DEF open, shut
<1>1. Found(ask) = Found(scan) /\ Found(quiet) = Found(scan)
  BY DEF Found, Fields
<1>2. Sound(s, ask, trusted, single)
  <2>0. ask = [scan EXCEPT !.pc = "review", !.asking = open, !.kept = shut]
    OBVIOUS
  <2> HIDE DEF ask
  <2>1. /\ Fields(ask) /\ ask.pc = "review" /\ ask.snapshot = scan.snapshot
        /\ ask.seen = scan.seen /\ ask.asking = open /\ ask.kept = shut
    BY <2>0 DEF Fields
  <2> QED BY <1>0, <1>1, <2>1 DEF Sound, Settled, Stage, Collecting, Judged, Asked
<1>3. Sound(s, quiet, trusted, single)
  BY <1>1 DEF Sound, Settled, Fields, Stage, Collecting, Judged, Asked
<1> QED BY <1>2, <1>3, <1>4

\* The rules run; what applyDecisions drops was allowed.
LEMMA EvaluateStep ==
  ASSUME IInv, NEW s \in Scans, Evaluate(s)
  PROVE  IInv'
<1> DEFINE old == scans[s]
           scan == [old EXCEPT !.kept = ApplyDecisions(Found(old), old.snapshot.answers)]
           load == [scan EXCEPT !.pc = "load-drift"]
<1>1. /\ Sound(s, old, approved, once) /\ old.pc = "reading" /\ Honest(decisions, approved)
      /\ UNCHANGED <<repo, decisions, approved, once>>
  BY DEF IInv, Evaluate
<1>2. /\ Fields(scan) /\ scan.snapshot = old.snapshot /\ scan.seen = old.seen
      /\ scan.kept = ApplyDecisions(Found(old), old.snapshot.answers) /\ scan.asking = {}
      /\ Found(scan) = Found(old) /\ scan.answer = old.answer
  BY <1>1 DEF Sound, Fields, Found, Collecting
<1>3. \A f \in Found(scan) : f \in scan.kept \/ f.key \in approved
  <2>1. \A f \in Found(old) : f.key \in Content
    BY <1>1, FindingKeys DEF Sound
  <2> QED BY <1>1, <1>2, <2>1 DEF ApplyDecisions, Sound, Honest
<1>4. scans' = [scans EXCEPT ![s] = IF Changed(scan) = {} THEN Reviewing(s, scan) ELSE load]
  BY DEF Evaluate
<1>5. Sound(s, Reviewing(s, scan), approved, once)
  <2> HIDE DEF scan
  <2> QED BY <1>1, <1>2, <1>3, ReviewingIsSound DEF Sound
<1>6. Sound(s, load, approved, once)
  <2> HIDE DEF scan
  <2>1. Found(load) = Found(scan)
    BY <1>2 DEF Found, Fields
  <2> QED BY <1>1, <1>2, <1>3, <2>1
          DEF Sound, Settled, Fields, Stage, Collecting, Judged, Asked
<1> HIDE DEF scan, load
<1> QED BY <1>1, <1>4, <1>5, <1>6, OneScan

LEMMA LoadStep ==
  ASSUME IInv, NEW s \in Scans, LoadDecisions(s)
  PROVE  IInv'
<1> DEFINE scan == scans[s]
           next == IF scan.pc = "load-drift" THEN "save-drift" ELSE "save-answer"
           new == [scan EXCEPT !.loaded = decisions, !.pc = next]
<1>1. /\ Sound(s, scan, approved, once) /\ scan.pc \in {"load-drift", "load-answer"}
      /\ Honest(decisions, approved) /\ UNCHANGED <<repo, decisions, approved, once>>
  BY DEF IInv, LoadDecisions
<1>2. scans' = [scans EXCEPT ![s] = new]
  BY DEF LoadDecisions
<1>3. Found(new) = Found(scan) /\ Current(new) = Current(scan)
  BY <1>1 DEF Found, Fields, Sound, Current
<1>0. new = [scan EXCEPT !.loaded = decisions, !.pc = next]
  OBVIOUS
<1> HIDE DEF new
<1>4. /\ Fields(new) /\ new.pc = next /\ new.snapshot = scan.snapshot
      /\ new.seen = scan.seen /\ new.asking = scan.asking /\ new.kept = scan.kept
      /\ new.loaded = decisions /\ new.answer = scan.answer
  BY <1>1, <1>0 DEF Sound, Fields
<1>5. Sound(s, new, approved, once)
  BY <1>1, <1>3, <1>4 DEF Sound, Settled, Stage, Collecting, Judged, Asked
<1> QED BY <1>1, <1>2, <1>5, OneScan

\* The save of the drift records leaves the answers as they were loaded.
LEMMA SaveDriftStep ==
  ASSUME IInv, NEW s \in Scans, SaveDrift(s)
  PROVE  IInv'
<1> DEFINE scan == scans[s]
           freed == [scan EXCEPT !.loaded = None]
<1>1. /\ Sound(s, scan, approved, once) /\ scan.pc = "save-drift"
      /\ UNCHANGED <<repo, approved, once>>
  BY DEF IInv, SaveDrift
<1>2. scans' = [scans EXCEPT ![s] = Reviewing(s, freed)]
  BY DEF SaveDrift
<1>3. Honest(decisions', approved')
  <2>1. Honest(scan.loaded, approved)
    BY <1>1 DEF Sound
  <2>2. \A f \in File : f \in Changed(scan) => scan.seen[f] \in Content
    BY <1>1 DEF Sound, Changed
  <2> QED BY <1>1, <2>1, <2>2 DEF SaveDrift, Honest, Document
<1>4. /\ Fields(freed) /\ freed.snapshot = scan.snapshot /\ freed.seen = scan.seen
      /\ freed.kept = scan.kept /\ freed.asking = {} /\ Found(freed) = Found(scan)
  BY <1>1 DEF Sound, Fields, Found, Judged
<1>5. \A f \in Found(scan) : f \in scan.kept \/ f.key \in approved
  BY <1>1 DEF Sound, Settled, Judged, Collecting
<1>6. Sound(s, Reviewing(s, freed), approved, once)
  <2> HIDE DEF freed
  <2> QED BY <1>1, <1>4, <1>5, ReviewingIsSound DEF Sound
<1> HIDE DEF freed
<1> QED BY <1>1, <1>2, <1>3, <1>6, OneScan

\* A question is closed: what is dropped without being kept was allowed.
LEMMA AnsweredIsSound ==
  ASSUME NEW s, NEW scan, NEW trusted, NEW single, NEW keep \in BOOLEAN,
         Sound(s, scan, trusted, single), scan.pc \in Asked \cup {"review", "prompt"},
         ~keep /\ Current(scan) \in Found(scan) =>
           Current(scan).key \in trusted \/ <<s, Current(scan)>> \in single
  PROVE  Sound(s, Answered(scan, keep), trusted, single)
<1> DEFINE new == Answered(scan, keep)
           now == Current(scan)
           left == scan.asking \ {now}
           kept == IF keep THEN scan.kept \cup {now} ELSE scan.kept
<1>1. new = [scan EXCEPT !.asking = left, !.answer = None, !.loaded = None,
                         !.kept = kept, !.pc = "review"]
  BY DEF Answered
<1>2. \A f : f \in scan.kept \cup scan.asking => f \in left \cup kept \/ (~keep /\ f = now)
  OBVIOUS
<1> HIDE DEF new, now, left, kept
<1>3. /\ Fields(new) /\ new.pc = "review" /\ new.snapshot = scan.snapshot
      /\ new.seen = scan.seen /\ new.asking = left /\ new.kept = kept
  BY <1>1 DEF Sound, Fields
<1>4. Found(new) = Found(scan)
  BY <1>3 DEF Found
<1>5. \A f \in Found(scan) :
        f \in scan.kept \/ f \in scan.asking \/ f.key \in trusted \/ <<s, f>> \in single
  BY DEF Sound, Settled, Asked, Collecting
<1>6. \A f \in Found(new) : Settled(s, new, trusted, single, f)
  <2> SUFFICES ASSUME NEW f \in Found(new) PROVE Settled(s, new, trusted, single, f)
    OBVIOUS
  <2>1. CASE f \in scan.kept \cup scan.asking
    BY <1>2, <1>3, <1>4, <2>1 DEF Settled, Judged, now
  <2>2. CASE f.key \in trusted \/ <<s, f>> \in single
    BY <1>3, <2>2 DEF Settled, Judged
  <2> QED BY <1>4, <1>5, <2>1, <2>2
<1>7. Sound(s, new, trusted, single)
  BY <1>3, <1>6 DEF Sound, Stage, Collecting, Judged, Asked
<1> QED BY <1>7 DEF new

\* A scan changes nothing but its stage and its answer.
LEMMA MovesOn ==
  ASSUME NEW s, NEW scan, NEW trusted, NEW single, Sound(s, scan, trusted, single),
         NEW new, Fields(new), new.snapshot = scan.snapshot, new.seen = scan.seen,
         new.kept = scan.kept, new.asking = scan.asking,
         scan.pc \in {"report", "review", "prompt"} \cup Asked,
         new.pc \in {"prompt", "load-answer", "audit", "done"},
         new.pc = "done" => new.asking = {},
         new.pc \in Asked =>
           /\ new.answer \in {"allow-once", "deny", "allow-forever", "deny-forever"}
           /\ new.answer = "allow-forever" => Current(scan).key \in trusted
           /\ new.answer = "allow-once" => <<s, Current(scan)>> \in single
  PROVE  Sound(s, new, trusted, single)
<1>1. Found(new) = Found(scan) /\ Current(new) = Current(scan)
  BY DEF Found, Current
<1>2. \A f \in Found(new) : Settled(s, new, trusted, single, f)
  BY <1>1 DEF Sound, Settled, Judged, Collecting, Asked
<1> QED BY <1>1, <1>2 DEF Sound, Stage, Collecting, Judged, Asked

\* A decision the question finds already made.
LEMMA PreviousStep ==
  ASSUME IInv, NEW s \in Scans, PreviousDecision(s)
  PROVE  IInv'
<1> DEFINE scan == scans[s]
           previous == decisions.answers[Current(scan).key]
           ask == [scan EXCEPT !.pc = "prompt"]
           keep == previous = "deny"
<1>1. /\ Sound(s, scan, approved, once) /\ scan.pc = "review"
      /\ Honest(decisions, approved) /\ UNCHANGED <<repo, decisions, approved, once>>
  BY DEF IInv, PreviousDecision
<1>2. scans' = [scans EXCEPT ![s] = IF previous = None THEN ask ELSE Answered(scan, keep)]
  BY DEF PreviousDecision
<1>3. ask = [scan EXCEPT !.pc = "prompt"]
  OBVIOUS
<1> HIDE DEF ask
<1>4. Sound(s, ask, approved, once)
  <2>1. /\ Fields(ask) /\ ask.pc = "prompt" /\ ask.snapshot = scan.snapshot
        /\ ask.seen = scan.seen /\ ask.asking = scan.asking /\ ask.kept = scan.kept
    BY <1>1, <1>3 DEF Sound, Fields
  <2> QED BY <1>1, <2>1, MovesOn DEF Asked
<1>5. ASSUME previous # None PROVE Sound(s, Answered(scan, keep), approved, once)
  <2>1. Current(scan) \in Found(scan) => Current(scan).key \in Content
    BY <1>1, FindingKeys DEF Sound
  <2>2. Current(scan) \in Found(scan) => previous \in {"allow", "deny"}
    BY <1>1, <1>5, <2>1 DEF Honest, Document, Verdict
  <2>3. Current(scan) \in Found(scan) /\ ~keep => Current(scan).key \in approved
    BY <1>1, <2>1, <2>2 DEF Honest
  <2> HIDE DEF keep
  <2>4. keep \in BOOLEAN
    BY DEF keep
  <2> QED BY <1>1, <2>3, <2>4, AnsweredIsSound
<1> HIDE DEF previous, keep
<1> QED BY <1>1, <1>2, <1>4, <1>5, OneScan

LEMMA PromptStep ==
  ASSUME IInv, NEW s \in Scans, NEW a \in Answer, Prompt(s, a)
  PROVE  IInv'
<1> DEFINE scan == scans[s]
           brief == [scan EXCEPT !.pc = "audit", !.answer = a]
           lasting == [scan EXCEPT !.pc = "load-answer", !.answer = a]
           closed == Answered(scan, TRUE)
<1>1. /\ Sound(s, scan, approved, once) /\ scan.pc = "prompt"
      /\ Honest(decisions, approved) /\ UNCHANGED <<repo, decisions>>
  BY DEF IInv, Prompt
<1>2. /\ approved' = IF a = "allow-forever" THEN approved \cup {Current(scan).key} ELSE approved
      /\ once' = IF a = "allow-once" THEN once \cup {<<s, Current(scan)>>} ELSE once
      /\ scans' = [scans EXCEPT ![s] = CASE a = None -> closed
                                         [] a \in {"allow-once", "deny"} -> brief
                                         [] OTHER -> lasting]
  BY DEF Prompt
<1>3. brief = [scan EXCEPT !.pc = "audit", !.answer = a]
  OBVIOUS
<1>4. lasting = [scan EXCEPT !.pc = "load-answer", !.answer = a]
  OBVIOUS
<1> HIDE DEF brief, lasting
<1>5. approved \subseteq approved' /\ once \subseteq once'
  BY <1>2
<1>6. Sound(s, scan, approved', once') /\ Honest(decisions', approved')
  BY <1>1, <1>5, SoundGrows DEF Honest
<1>7. CASE a = None
  <2>1. scans' = [scans EXCEPT ![s] = closed]
    BY <1>2, <1>7, ScanAssumption
  <2>2. Sound(s, closed, approved', once')
    BY <1>1, <1>6, AnsweredIsSound
  <2> HIDE DEF closed
  <2> QED BY <1>1, <1>5, <1>6, <2>1, <2>2, OneScan
<1>8. CASE a \in {"allow-once", "deny"}
  <2>1. scans' = [scans EXCEPT ![s] = brief]
    BY <1>2, <1>8, ScanAssumption
  <2>2. /\ Fields(brief) /\ brief.pc = "audit" /\ brief.snapshot = scan.snapshot
        /\ brief.seen = scan.seen /\ brief.asking = scan.asking /\ brief.kept = scan.kept
        /\ brief.answer = a
    BY <1>1, <1>3 DEF Sound, Fields
  <2>3. Sound(s, brief, approved', once')
    BY <1>1, <1>2, <1>6, <1>8, <2>2, MovesOn DEF Asked
  <2> QED BY <1>1, <1>5, <1>6, <2>1, <2>3, OneScan
<1>9. CASE a \in {"allow-forever", "deny-forever"}
  <2>1. scans' = [scans EXCEPT ![s] = lasting]
    BY <1>2, <1>9, ScanAssumption
  <2>2. /\ Fields(lasting) /\ lasting.pc = "load-answer" /\ lasting.snapshot = scan.snapshot
        /\ lasting.seen = scan.seen /\ lasting.asking = scan.asking /\ lasting.kept = scan.kept
        /\ lasting.answer = a
    BY <1>1, <1>4 DEF Sound, Fields
  <2>3. Sound(s, lasting, approved', once')
    BY <1>1, <1>2, <1>6, <1>9, <2>2, MovesOn DEF Asked
  <2> QED BY <1>1, <1>5, <1>6, <2>1, <2>3, OneScan
<1> QED BY <1>7, <1>8, <1>9 DEF Answer

LEMMA SaveAnswerStep ==
  ASSUME IInv, NEW s \in Scans, SaveAnswer(s)
  PROVE  IInv'
<1> DEFINE scan == scans[s]
           new == [scan EXCEPT !.pc = "audit", !.loaded = None]
           key == Current(scan).key
           verdict == IF scan.answer = "allow-forever" THEN "allow" ELSE "deny"
<1>1. /\ Sound(s, scan, approved, once) /\ scan.pc = "save-answer"
      /\ UNCHANGED <<repo, approved, once>>
  BY DEF IInv, SaveAnswer
<1>2. /\ scans' = [scans EXCEPT ![s] = new]
      /\ decisions' = [scan.loaded EXCEPT !.answers[key] = verdict]
  BY DEF SaveAnswer
<1>3. Honest(scan.loaded, approved) /\ (verdict = "allow" => key \in approved)
  BY <1>1 DEF Sound, Asked
<1>4. verdict \in Verdict
  BY DEF Verdict
<1> HIDE DEF verdict, key
<1>5. Honest(decisions', approved')
  BY <1>1, <1>2, <1>3, <1>4 DEF Honest, Document
<1>6. new = [scan EXCEPT !.pc = "audit", !.loaded = None]
  OBVIOUS
<1> HIDE DEF new
<1>7. /\ Fields(new) /\ new.pc = "audit" /\ new.snapshot = scan.snapshot
      /\ new.seen = scan.seen /\ new.asking = scan.asking /\ new.kept = scan.kept
      /\ new.answer = scan.answer
  BY <1>1, <1>6 DEF Sound, Fields
<1>8. Sound(s, new, approved, once)
  <2>1. /\ scan.answer \in {"allow-once", "deny", "allow-forever", "deny-forever"}
        /\ scan.answer = "allow-forever" => Current(scan).key \in approved
        /\ scan.answer = "allow-once" => <<s, Current(scan)>> \in once
    BY <1>1 DEF Sound, Asked
  <2> QED BY <1>1, <1>7, <2>1, MovesOn DEF Asked
<1> QED BY <1>1, <1>2, <1>5, <1>8, OneScan

LEMMA AuditStep ==
  ASSUME IInv, NEW s \in Scans, Audit(s)
  PROVE  IInv'
<1> DEFINE scan == scans[s]
           keep == scan.answer \in {"deny", "deny-forever"}
           new == Answered(scan, keep)
<1>1. /\ Sound(s, scan, approved, once) /\ scan.pc = "audit"
      /\ Honest(decisions, approved) /\ UNCHANGED <<repo, decisions, approved, once>>
  BY DEF IInv, Audit
<1>2. scans' = [scans EXCEPT ![s] = new]
  BY DEF Audit, IInv
<1>3. ~keep => Current(scan).key \in approved \/ <<s, Current(scan)>> \in once
  BY <1>1 DEF Sound, Asked
<1>4. keep \in BOOLEAN
  OBVIOUS
<1> HIDE DEF keep
<1>5. Sound(s, new, approved, once)
  BY <1>1, <1>3, <1>4, AnsweredIsSound DEF Asked
<1> HIDE DEF new
<1> QED BY <1>1, <1>2, <1>5, OneScan

LEMMA ReportStep ==
  ASSUME IInv, NEW s \in Scans, Report(s)
  PROVE  IInv'
<1> DEFINE scan == scans[s]
           new == [scan EXCEPT !.pc = "done"]
<1>1. /\ Sound(s, scan, approved, once)
      /\ scan.pc = "report" \/ (scan.pc = "review" /\ scan.asking = {})
      /\ Honest(decisions, approved) /\ UNCHANGED <<repo, decisions, approved, once>>
  BY DEF IInv, Report
<1>2. scans' = [scans EXCEPT ![s] = new]
  BY DEF Report
<1>3. new = [scan EXCEPT !.pc = "done"]
  OBVIOUS
<1> HIDE DEF new
<1>4. /\ Fields(new) /\ new.pc = "done" /\ new.snapshot = scan.snapshot
      /\ new.seen = scan.seen /\ new.asking = scan.asking /\ new.kept = scan.kept
  BY <1>1, <1>3 DEF Sound, Fields
<1>5. Sound(s, new, approved, once)
  <2>1. scan.asking = {}
    BY <1>1 DEF Sound
  <2> QED BY <1>1, <1>4, <2>1, MovesOn DEF Asked
<1> QED BY <1>1, <1>2, <1>5, OneScan

\* The inductive invariant is kept by every step.
LEMMA NextIInv == IInv /\ [ScanNext]_vars => IInv'
<1> SUFFICES ASSUME IInv, [ScanNext]_vars PROVE IInv'
  OBVIOUS
<1>1. CASE UNCHANGED vars
  BY <1>1 DEF IInv, vars
<1>2. ASSUME NEW f \in File, NEW c \in Content \cup {None, Huge}, Edit(f, c) PROVE IInv'
  <2>1. repo' \in [File -> Content \cup {None, Huge}]
    BY <1>2 DEF Edit, IInv
  <2> QED BY <1>2, <2>1 DEF Edit, IInv
<1>3. ASSUME NEW s \in Scans, Begin(s) \/ Work(s) \/ Abort(s) PROVE IInv'
  <2>1. CASE Begin(s)
    BY <2>1, BeginStep
  <2>2. CASE Work(s)
    BY <2>2, ReadFileStep, EvaluateStep, LoadStep, SaveDriftStep, PreviousStep, PromptStep,
       SaveAnswerStep, AuditStep, ReportStep DEF Work
  <2>3. CASE Abort(s)
    <3>1. Honest(decisions', approved') /\ UNCHANGED <<repo, approved, once>>
      BY <2>3 DEF Abort, IInv
    <3>2. scans' = [scans EXCEPT ![s] = [Idle EXCEPT !.pc = "failed"]]
      BY <2>3 DEF Abort
    <3>3. Sound(s, [Idle EXCEPT !.pc = "failed"], approved', once')
      BY BlankIsSound
    <3> QED BY <3>1, <3>2, <3>3, OneScan
  <2> QED BY <1>3, <2>1, <2>2, <2>3
<1> QED BY <1>1, <1>2, <1>3 DEF ScanNext

LEMMA IInvHolds == Spec => []IInv
  BY InitIInv, NextIInv, PTL DEF Spec
-----------------------------------------------------------------------------
\* For any number of overlapping scans, each writing back the whole document
\* it loaded: decisions.json allows only contents that somebody allowed
\* forever (JsonDecisionStore, ReviewFindings).
THEOREM ApprovalsAreTheUsers == Spec => []ApprovalIsTheUsers
<1>1. IInv => ApprovalIsTheUsers
  BY DEF IInv, Honest, ApprovalIsTheUsers
<1> QED BY <1>1, IInvHolds, PTL

\* For any workspace and any interleaving: the report of a finished scan has
\* every finding about what the scan read, but for the user's own answers.
THEOREM ReportsAreComplete == Spec => []NothingHidden
<1>1. IInv => NothingHidden
  <2> SUFFICES ASSUME IInv, NEW s \in Scans, scans[s].pc = "done", NEW f \in Found(scans[s])
               PROVE  f \in scans[s].kept \/ f.key \in approved \/ <<s, f>> \in once
    BY DEF NothingHidden
  <2>1. Sound(s, scans[s], approved, once)
    BY DEF IInv
  <2>2. scans[s].asking = {} /\ Settled(s, scans[s], approved, once, f)
    BY <2>1 DEF Sound, Collecting
  <2> QED BY <2>2 DEF Settled
<1> QED BY <1>1, IInvHolds, PTL

\* AG-I003 finds the change of every instruction file whose hash was recorded.
LEMMA DriftIsFound ==
  ASSUME Drift \notin Disabled, NEW scan, "instructions" \in Changed(scan),
         scan.snapshot.drift["instructions"] # None
  PROVE  \E g \in Found(scan) : g.rule = Drift /\ g.file = "instructions"
                                /\ g.key = scan.seen["instructions"]
<1> DEFINE f == "instructions"
           rule == ArtifactRule(Drift, "medium", "observe", {f}, "drift")
           finding == Finding(rule, f, scan.seen[f])
<1>1. rule \in Enabled(ArtifactRules, Disabled)
  BY DEF Enabled, ArtifactRules, InstructionRules, ArtifactRule
<1>2. Inspect(rule, f, scan.seen[f], scan.snapshot.drift[f], None)
  BY DEF Inspect, ArtifactRule, Changed
<1>3. f \in DOMAIN scan.seen
  BY DEF Changed
<1>4. finding.rule = Drift /\ finding.file = f /\ finding.key = scan.seen[f]
  BY DEF Finding, ArtifactRule
<1> HIDE DEF rule
<1>5. finding \in Found(scan)
  BY <1>1, <1>2, <1>3 DEF Found, Scan
<1> QED BY <1>4, <1>5

\* While AG-I003 is on, no interleaving of scans replaces the recorded hash of
\* an instruction file without the change being reported (recordArtifactHashes
\* after applyDecisions in ScanWorkspace.execute).
THEOREM DriftIsReported ==
  ASSUME Drift \notin Disabled
  PROVE  Spec => NoSilentDrift
<1>1. ASSUME IInv, NEW s \in Scans, NEW f \in File \cap {"instructions"},
             scans[s].pc = "save-drift", f \in Changed(scans[s])
      PROVE  \/ \E g \in scans[s].kept : g.rule = Drift /\ g.file = f
             \/ scans[s].seen[f] \in approved
             \/ scans[s].snapshot.drift[f] = None
  <2>1. Sound(s, scans[s], approved, once)
    BY <1>1 DEF IInv
  <2>2. \A g \in Found(scans[s]) : g \in scans[s].kept \/ g.key \in approved
    BY <1>1, <2>1 DEF Sound, Settled, Judged, Collecting
  <2> QED BY <1>1, <2>2, DriftIsFound
<1>2. IInv => (\A s \in Scans, f \in File \cap {"instructions"} :
                 /\ scans[s].pc = "save-drift" /\ decisions' # decisions
                 /\ f \in Changed(scans[s])
                 /\ decisions.drift[f] \notin {None, decisions'.drift[f]}
                 => \/ \E g \in scans[s].kept : g.rule = Drift /\ g.file = f
                    \/ scans[s].seen[f] \in approved
                    \/ scans[s].snapshot.drift[f] = None
                    \/ scans'[s] = scans[s])
  BY <1>1
<1> QED BY <1>2, IInvHolds, PTL DEF NoSilentDrift
-----------------------------------------------------------------------------
\* The state of one hook run.
HookRecord ==
  [pc : {"start", "payload", "evaluate", "decisions", "record-deny", "done"},
   call : Calls, config : Config, answers : CallAnswers, corrupt : BOOLEAN,
   strict : BOOLEAN, evaluated : BOOLEAN, verdict : {NoAnswer, "allow", "deny", "error"}]

\* Before the rules have run nothing counts as evaluated; where the stored
\* answers are consulted, no refusal has matched.
HookIInv ==
  /\ hook \in HookRecord
  /\ hook.pc \in {"start", "payload", "evaluate"} => ~hook.evaluated
  /\ hook.pc = "decisions" => BlockingMatches(hook.call) = {}
  /\ hook.pc # "done" => hook.verdict = NoAnswer
  /\ RefusalHolds

\* For every tool call, configuration and store, whatever fails on the way:
\* the hook never turns a refusal, or an open question, into consent.
THEOREM RefusalsHold == HookSpec => []RefusalHolds
<1>1. HookInit => HookIInv
  BY DEF HookInit, HookIInv, HookRecord, RefusalHolds, NoAnswer
<1>2. HookIInv /\ [HookNext]_hook => HookIInv'
  <2> SUFFICES ASSUME HookIInv, [HookNext]_hook PROVE HookIInv'
    OBVIOUS
  <2> USE DEF HookIInv
  <2>1. CASE UNCHANGED hook
    BY <2>1 DEF RefusalHolds, Asking
  <2>2. CASE LoadConfig
    BY <2>2 DEF LoadConfig, Failed, Conclude, HookRecord, RefusalHolds, Config
  <2>3. CASE ReadPayload
    BY <2>3 DEF ReadPayload, Failed, Conclude, HookRecord, RefusalHolds
  <2>4. CASE EvaluateCall
    BY <2>4 DEF EvaluateCall, Conclude, HookRecord, RefusalHolds, NoAnswer, Asking
  <2>5. CASE Consult
    <3> DEFINE answers == {hook.answers[id] : id \in Asking(hook)}
    <3>1. hook' = CASE hook.corrupt -> Failed(hook)
                    [] ~hook.corrupt /\ answers = {"allow"} -> Conclude(hook, "allow")
                    [] OTHER -> [hook EXCEPT !.pc = "record-deny"]
      BY <2>5 DEF Consult
    <3>2. /\ hook.pc = "decisions" /\ BlockingMatches(hook.call) = {} /\ hook.verdict = NoAnswer
          /\ answers = {"allow"} => \A id \in Asking(hook) : hook.answers[id] = "allow"
      BY <2>5 DEF Consult
    <3> HIDE DEF answers
    <3>3. CASE hook.corrupt
      BY <3>1, <3>2, <3>3 DEF Failed, Conclude, HookRecord, RefusalHolds, NoAnswer
    <3>4. CASE ~hook.corrupt /\ answers = {"allow"}
      BY <3>1, <3>2, <3>4 DEF Conclude, HookRecord, RefusalHolds, Asking
    <3>5. CASE ~hook.corrupt /\ answers # {"allow"}
      BY <3>1, <3>2, <3>5 DEF HookRecord, RefusalHolds, NoAnswer
    <3> QED BY <3>3, <3>4, <3>5 DEF HookRecord
  <2>6. CASE Record
    BY <2>6 DEF Record, Conclude, HookRecord, RefusalHolds
  <2> QED BY <2>1, <2>2, <2>3, <2>4, <2>5, <2>6 DEF HookNext
<1>3. HookIInv => RefusalHolds
  BY DEF HookIInv
<1> QED BY <1>1, <1>2, <1>3, PTL DEF HookSpec
=============================================================================
