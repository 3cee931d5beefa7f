---------------------------- MODULE MCLearning ----------------------------
(***************************************************************************)
(* An instance of Learning for TLC: two repositories of two organisations, *)
(* a security finding and an ordinary one.                                 *)
(***************************************************************************)
EXTENDS Learning, Sequences, TLC

CONSTANTS t1, t2, v1

Chains == [s \in Scope |-> CASE s = "" -> {""} [] s = "a/" -> {"", "a/"}
                             [] s = "a/1" -> {"", "a/", s}
                             [] OTHER -> {"", s}]
MCPrRepo == [p \in Pr |-> IF p = "p3" THEN "b/1" ELSE "a/1"]
Slop == [fp |-> "slop0123456789", detector |-> "slop", file |-> "src/x", message |-> "m",
         severity |-> "blocking"]
Key == [fp |-> "key00123456789", detector |-> "secrets", file |-> "src/x", message |-> "m",
        severity |-> "info"]
MCFindings == {Slop, Key}
\* A mark names the pull request by its number: p1 and p3 have the same.
MCMined == [p \in Pr |-> [d \in Detector |-> IF p = "p2" THEN "mined-fp:2:" \o d
                                             ELSE "mined-fp:1:" \o d]]
MCFp == {Slop.fp, Key.fp, "slop01234567"} \cup {MCMined[p]["slop"] : p \in Pr}
MCPrefixes == {<<"slop01234567", Slop.fp>>}
MCPatternOf == [f \in {"src/x", "repo"} |-> IF f = "repo" THEN "a" ELSE "src"]
MCUnder == {<<"src/x", "src">>}
MCPhraseOf == [m \in {"m", "dashboard", "command", "reaction", "resolve", "mined"} |-> m]
Wrong(d) == [kind |-> "wrong", detector |-> d]
MCComments == [p \in Pr |-> IF p = "p1" THEN {Wrong("slop"), Wrong("secrets"),
                                              [kind |-> "pushback", detector |-> "slop"]}
                            ELSE {Wrong("slop")}]
MCRepoOf == [v \in Review |-> "a/1"]
Page(on, s, pr) == [on |-> on, scope |-> s, pr |-> pr]
\* The page that shows a review sends neither its repository nor its number; scripts may.
MCPages == {Page("b/1", "", None), Page("a/1", "a/1", "p1")}
\* One instance-wide rule, written long ago.
MCHandwritten == {[id |-> 0 - 1, detector |-> "slop", action |-> "downgrade", under |-> None,
                   phrase |-> None, scope |-> "", status |-> "approved", count |-> 1]}

\* Tasks are alike.
Tasks == Permutations(Task)
===========================================================================
