----------------------------- MODULE MCForming -----------------------------
(* ClusterForming on small clusters. *)
EXTENDS ClusterForming

\* The pods with the same ordinal are on one machine.
ByOrdinal == [p \in Pod |-> p[2]]

\* A new cluster with volumes, one that keeps its size, one with volumes that gains a
\* master and one that loses one, each with a mishap, the last also with lost FORGETs;
\* and one whose size is changed at any time.
FormInit ==
  /\ Init
  /\ \/ /\ used.mishaps = 0 /\ used.edits = MaxEdits
        /\ \/ size = 2 /\ status = {} /\ volume /\ used.lost = MaxMishaps
           \/ status # {} /\ sts = 0 .. 2 /\ size = 3 /\ used.lost = MaxMishaps
           \/ status # {} /\ sts = {0} /\ size = 2 /\ volume /\ used.lost = MaxMishaps
           \/ status # {} /\ sts = {0, 1} /\ size = 1 /\ used.lost = 0
     \/ /\ used.mishaps = MaxMishaps /\ used.edits = 0
        /\ status # {} /\ sts = {0, 1} /\ size = 2 /\ used.lost = MaxMishaps

FormSpec == FormInit /\ [][Next]_vars /\ Fairness

\* A node that has joined is known to another one.
Remembered == \A x \in Running : know[x] # {x} => \E y \in Running \ {x} : x \in know[y]

\* Behaviours are followed until something happens that the operator cannot
\* cope with, a panic excepted; with three masters also until a node that runs is
\* forgotten everywhere.
Copes == past \subseteq {"panic"} /\ (size = 3 => Remembered)

=============================================================================
