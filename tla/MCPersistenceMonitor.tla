------------------------ MODULE MCPersistenceMonitor ------------------------
(* Small instances of the watcher: one file any change of which is a finding *)
(* and one that is judged by its content.                                    *)
EXTENDS PersistenceMonitor

\* `activate` still records the baseline while the first passes run and fail.
FirstPasses == [installing |-> TRUE, pauses |-> BOOLEAN, faults |-> TRUE,
                edits |-> 1, decisions |-> 0, crashes |-> 1, times |-> {0, 1}]

\* The installed watcher among edits, a decision and a crash.
Installed == [installing |-> FALSE, pauses |-> {FALSE}, faults |-> FALSE,
              edits |-> 2, decisions |-> 1, crashes |-> 1, times |-> {0}]

MCScenarios == {FirstPasses, Installed}
=============================================================================
