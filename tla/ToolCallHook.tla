---------------------------- MODULE ToolCallHook ----------------------------
(***************************************************************************)
(* agentkeeper hook pretooluse (HookCommand, EvaluateToolCall): one tool   *)
(* call, judged on the agent's critical path.  Everything around the rules *)
(* can fail - the configuration, the payload, decisions.json, the audit    *)
(* log - and the hook fails open unless strictMode was read first.         *)
(***************************************************************************)
EXTENDS Rules

CONSTANTS
  Calls,       \* the tool calls that are made: [tool, paths, words]
  ActionIds    \* the action rules config.json and decisions.json may name

VARIABLE hook

NoAnswer == "none"

\* config.json: strictMode, rules.categoryA and single rules switched off.
Config == [strict : BOOLEAN, actions : BOOLEAN, disabled : SUBSET ActionIds]

\* decisions.json holds the answers under rule@subject keys; no command writes
\* one, so they are what the user put there.
CallAnswers == [ActionIds -> {NoAnswer, "allow", "deny"}]

HookInit ==
  hook \in [pc : {"start"}, call : Calls, config : Config,
            answers : CallAnswers, corrupt : BOOLEAN,
            strict : {FALSE}, evaluated : {FALSE}, verdict : {NoAnswer}]

Conclude(h, v) == [h EXCEPT !.pc = "done", !.verdict = v]

\* The catch clause: strict is what had been read when the error was thrown.
Failed(h) == Conclude(h, IF h.strict THEN "error" ELSE "allow")

\* The findings that ask: the action rules loaded and not switched off.
Asking(h) ==
  IF h.config.actions THEN ActionMatches(h.call) \ h.config.disabled ELSE {}

\* new Container, config(): an unreadable state directory throws.
LoadConfig ==
  /\ hook.pc = "start"
  /\ hook' \in {[hook EXCEPT !.pc = "payload", !.strict = hook.config.strict],
                Failed(hook)}

\* readStdin and parse: the whole payload; a payload cut short by the timer or
\* of an unknown shape, which lets the call through; or a stream error.  The
\* tool call is built from it, which resolves paths and may throw.
ReadPayload ==
  /\ hook.pc = "payload"
  /\ hook' \in {[hook EXCEPT !.pc = "evaluate"],
                Conclude(hook, "allow"),
                Failed(hook)}

\* EvaluateToolCall.execute up to its first await.
EvaluateCall ==
  /\ hook.pc = "evaluate"
  /\ LET h == [hook EXCEPT !.evaluated = TRUE] IN
     hook' = CASE BlockingMatches(h.call) # {} -> [h EXCEPT !.pc = "record-deny"]
               [] BlockingMatches(h.call) = {} /\ Asking(h) = {} -> Conclude(h, "allow")
               [] OTHER -> [h EXCEPT !.pc = "decisions"]

\* decisions.all(), which throws on a document it cannot parse, then the
\* stored answer of every asking finding.
Consult ==
  /\ hook.pc = "decisions"
  /\ LET answers == {hook.answers[id] : id \in Asking(hook)} IN
     hook' = CASE hook.corrupt -> Failed(hook)
               [] ~hook.corrupt /\ answers = {"allow"} -> Conclude(hook, "allow")
               [] OTHER -> [hook EXCEPT !.pc = "record-deny"]

\* Mutant: an audit log that cannot be written is an error of the hook.
RecordUncaught ==
  /\ hook.pc = "record-deny"
  /\ hook' \in {Conclude(hook, "deny"), Failed(hook)}

\* record: the audit entry, whose failure is swallowed; ask is a deny here.
Record ==
  /\ hook.pc = "record-deny"
  /\ hook' = Conclude(hook, "deny")

HookNext == LoadConfig \/ ReadPayload \/ EvaluateCall \/ Consult \/ Record

HookSpec == HookInit /\ [][HookNext]_hook
-----------------------------------------------------------------------------
\* Once the rules have seen a call, what goes wrong afterwards - a full disk,
\* a corrupt store, a rule switched off - never turns a refusal into consent:
\* the call passes only if no refusal matched it and every question it raises
\* was answered allow, or decisions.json is corrupt and strictMode is off.
RefusalHolds ==
  hook.evaluated /\ hook.verdict = "allow" =>
    /\ BlockingMatches(hook.call) = {}
    /\ \/ \A id \in Asking(hook) : hook.answers[id] = "allow"
       \/ ~hook.strict /\ hook.corrupt
=============================================================================
