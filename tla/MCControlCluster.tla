------------------------- MODULE MCControlCluster -------------------------
(* Instances of ControlCluster for TLC. *)
EXTENDS ControlCluster

CONSTANTS s1, alice, bob, w1, w2

\* One subtask: alice is the requestor, bob the provider.
OneRequestor == [s \in Subtask |-> alice]
OneProvider  == [s \in Subtask |-> bob]

\* The shortest times that keep every window open: the verification time is
\* 4 CMT + 3 MDT + half the subtask's timeout, as in core/utils.py.
Deadlines      == [s \in Subtask |-> 1]
DownloadTime   == [p \in Package |-> 1]
SubtaskTime    == [p \in Package |-> 7]
RenderingTime  == [s \in Subtask |-> 1]

AllKinds == Kinds
=============================================================================
