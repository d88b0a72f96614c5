---------------------------- MODULE MCOutputCommit ----------------------------
(* Small instances of the output commit for TLC.                              *)
EXTENDS OutputCommit

MCCommands == {"c1", "c2"}

create(kind, volumes, by_size, bootstrap, force) ==
    [kind |-> kind, volumes |-> volumes, by_size |-> by_size,
     bootstrap |-> bootstrap, force |-> force]

\* Every kind of request, with and without --force.
Kinds(force) ==
    {create("sink", 3, FALSE, FALSE, force),
     create("sink", 1, FALSE, TRUE, force),
     create("memory", 2, TRUE, FALSE, force),
     create("memory", 1, FALSE, TRUE, force),
     create("keypair", 1, FALSE, FALSE, force)}
MCRequests == Kinds(FALSE) \cup Kinds(TRUE)

MCOld == {{}, {Vol(2)}, {Boot}, {Public}, Paths}
MCVisitors == {Vol(0), Boot, Public}

\* The commands are alike: it is c1 that may have --force.
CommitInit == Init /\ ForcedApart /\ ~request["c2"].force

CommitSpec ==
    /\ CommitInit
    /\ [][Next]_vars
    /\ \A c \in Commands : WF_vars(Step(c))
=============================================================================
