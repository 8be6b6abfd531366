---------------------------- MODULE MCAssessment ----------------------------
(* Every backend with every boundary it may turn out to have, and machines   *)
(* without one.                                                               *)
EXTENDS Assessment

MCWorlds ==
  LET Platform == [seatbelt |-> "darwin", bubblewrap |-> "linux", appcontainer |-> "win32"]
  IN {[platform |-> Platform[b], mechanism |-> b, readable |-> r, gaps |-> g, egress |-> e] :
        b \in Mechanisms, r \in SUBSET Reads, g \in {{}, {"path"}}, e \in BOOLEAN}
     \cup {[platform |-> p, mechanism |-> None, readable |-> Reads, gaps |-> {}, egress |-> TRUE] :
             p \in {"darwin", "win32"}}
=============================================================================
