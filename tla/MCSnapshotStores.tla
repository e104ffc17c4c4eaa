-------------------------- MODULE MCSnapshotStores --------------------------
(* A launcher, its reducer with two threads, and a reducer that was started *)
(* by hand, whose process number may be one that the others had.            *)
EXTENDS SnapshotStores, TLC
CONSTANTS l1, r1, r2, a1, a2, a3, b1, b2

MCChild == l1 :> r1
MCHome == a1 :> r1 @@ a2 :> r1 @@ a3 :> r2
Shares(b) == [share |-> TRUE, bytes |-> b]
MCUses ==
  a1 :> {Nothing, Shares(b1)} @@ a2 :> {Shares(b1), Shares(b2)}
    @@ a3 :> {[share |-> FALSE, bytes |-> b2]}
=============================================================================
