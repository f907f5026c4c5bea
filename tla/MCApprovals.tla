---------------------------- MODULE MCApprovals ----------------------------
(* Instances of Approvals: two approvals, one of each other kind of key.    *)
EXTENDS Approvals, TLC
CONSTANTS i1, i2, c1, n1, w1, w2, send, book
MCKey == {[ns |-> "approval", part |-> "slot", id |-> i] : i \in {i1, i2}}
         \union {[ns |-> "approval", part |-> "decided", id |-> i] : i \in {i1, i2}}
         \union {[ns |-> "commitment", part |-> "slot", id |-> c1],
                 [ns |-> "prefs", part |-> "slot", id |-> n1]}
MCSymmetry == Permutations({i1, i2}) \union Permutations({w1, w2})
============================================================================
