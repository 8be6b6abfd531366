---------------------------- MODULE MCSandboxRun ----------------------------
EXTENDS SandboxRun

MCAnswers == {<<>>, <<"public">>, <<"loopback">>, <<"public", "private">>, <<"loopback", "public">>}
=============================================================================
