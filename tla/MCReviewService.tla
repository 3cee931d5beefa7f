-------------------------- MODULE MCReviewService --------------------------
(***************************************************************************)
(* Instances of ReviewService for TLC.  One unit of time is at most the    *)
(* review timeout; Timeout = 1 and Stale = 2 are the smallest values with  *)
(* a gap between them, and the proportions of the default 300 s and 600 s. *)
(***************************************************************************)
EXTENDS ReviewService, TLC

CONSTANTS p1, p2, c1, c2, c3, a, b, w1, w2, w3, s1, h1

\* Who runs where: everybody on replica a, or w2 and the slash command on b.
OnA == [r \in Runner |-> a]
OnBoth == [r \in Runner |-> IF r \in {w2, s1} THEN b ELSE a]

\* All commits on one pull request, or c1 and the others on two.
SamePr == [c \in Commit |-> p1]
TwoPrs == [c \in Commit |-> IF c = c1 THEN p1 ELSE p2]
=============================================================================
