------------------------------ MODULE MCEnsure ------------------------------
(* EnsureCluster for restores and for password changes on small clusters. *)
EXTENDS EnsureCluster, TLC

CONSTANTS i1, i2, p0, p1

NoConfig == << >>
Aof == "appendonly" :> "yes"
Two == ("appendonly" :> "no") @@ ("save" :> "1")
TwoEmpty == ("appendonly" :> "yes") @@ ("save" :> "")

Configs == {NoConfig, Aof, Two, TwoEmpty}

SecretEdits == {[secret |-> p1], [config |-> Aof], [config |-> TwoEmpty]}

\* A restore of two masters by a user who gives everything or next to nothing.
Restore ==
  /\ cr.spec.restore
  /\ cr.spec.secret = NoSecret
  /\ \/ /\ cr.spec.complete /\ cr.spec.image = i1 /\ cr.spec.size = 2
        /\ cr.spec.replicas = 1
        /\ cr.spec.config = NoConfig
        /\ backup.phase = "Succeeded"
     \/ /\ ~cr.spec.complete /\ cr.spec.image = NoImage /\ cr.spec.size = 1
        /\ cr.spec.replicas = 0
        /\ cr.spec.config = Aof
        /\ backup.phase = "Running"
  /\ backup.image = i2
  /\ backup.size = 2

\* A cluster with one slave per master: plain, or with a password and a
\* configuration.
Running ==
  /\ ~cr.spec.restore /\ cr.status.state = "OK"
  /\ cr.spec.complete /\ cr.spec.image = i1 /\ cr.spec.replicas = 1
  /\ cr.spec.size = MaxSize
  /\ \/ cr.spec.config = NoConfig /\ cr.spec.secret = NoSecret
     \/ cr.spec.config = Two /\ cr.spec.secret = p0
  /\ backup = [phase |-> "Succeeded", size |-> MaxSize, replicas |-> 0, image |-> i2]

EnsureInit == Init /\ (Restore \/ Running)

EnsureSpec == EnsureInit /\ [][Next]_vars /\ Fairness

=============================================================================
