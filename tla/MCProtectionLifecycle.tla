------------------------ MODULE MCProtectionLifecycle ------------------------
(* Small instances of the installation lifecycle.  Content "b" cannot be     *)
(* merged into the Claude settings; a shared file starts absent or as "a".   *)
EXTENDS ProtectionLifecycle

MCContents == {User("a"), User("b")}
MCUnmergeable == {User("b")}
MCOriginals == {Null, User("a")}
MCFresh == {Null}
=============================================================================
