------------------------------ MODULE MCGrants ------------------------------
(* The allowlist on a small disk, on each of the three platforms.           *)
EXTENDS Grants

File(path) == Ref("file", Home \o path)
Dir(path) == Ref("subtree", Home \o path)

MCDirectories ==
  {Home} \cup {Home \o d : d \in {<<"ws">>, <<"other">>, <<".claude">>}}
MCPaths ==
  MCDirectories \cup {<<"etc", "hosts">>}
    \cup {Home \o f : f \in
         {<<"ws", "code">>, <<"ws", ".env">>, <<"other", "code">>, <<"other", ".env">>,
          <<".ssh", "id">>, <<".gitconfig">>, <<".claude", "settings.json">>,
          <<".claude", "history">>, <<".agentkeeper", "config.json">>,
          <<".agentkeeper", "allowlist.json">>, <<".config", "gh", "hosts">>,
          <<".config", "editor">>}}
MCWorkspaces == {Home \o <<"ws">>, Home \o <<"other">>, Home}
MCProfile == [read |-> <<File(<<".gitconfig">>), Dir(<<".config", "git">>)>>, write |-> <<>>]
Request(ref, access, everywhere, workspace) ==
  [ref |-> ref, access |-> access, everywhere |-> everywhere, workspace |-> Home \o workspace]
MCRequests ==
  {Request(Dir(<<"other">>), "read", FALSE, <<"ws">>),
   Request(File(<<"other">>), "write", TRUE, <<"ws">>),
   Request(File(<<"ws", ".env">>), "read", TRUE, <<"ws">>),
   Request(File(<<".claude", "history">>), "write", TRUE, <<"other">>),
   Request(File(<<".ssh", "id">>), "read", TRUE, <<"ws">>)}
MCHandWritten ==
  {[ref |-> File(<<".ssh", "id">>), access |-> "read", scope |-> Everywhere],
   [ref |-> Dir(<<".agentkeeper">>), access |-> "write", scope |-> Home \o <<"ws">>]}
CommandSymmetry == Permutations(Commands)
=============================================================================
