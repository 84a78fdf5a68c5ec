--------------------------- MODULE MC_CandidateApply ---------------------------
(* Commits of one parameter, which is kept in two files. *)
EXTENDS CandidateApply, TLC

CONSTANTS c0, c1, c2, q1, q2, f1, f2, b1, b2, r1, r2

\* One request, and one with another body that pushes.
PushingBodyOf == [r \in Request |-> IF r = r2 THEN b2 ELSE b1]

\* Both are for one commit, or for commits of two qubits, the first of which has
\* the value of an earlier commit.
OneCommitOf == [r \in Request |-> c1]
TwoCommitOf == [r \in Request |-> IF r = r1 THEN c1 ELSE c2]
TwoLabelOf == [c \in Commit |-> IF c = c2 THEN q2 ELSE q1]
BothFilesOf == [c \in Commit |-> File]
=============================================================================
