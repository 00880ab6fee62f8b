---------------------------- MODULE MCServerProcess ----------------------------
(* A small instance of ServerProcess for TLC. *)
EXTENDS ServerProcess, TLC

CONSTANTS dev, first, far, t1, t2, c1, c2, p1, m1

EitherConfig == dev :> {first, far}
InjectiveFingerprint == [f \in DestinationConfig |-> f]
SameProject == [t \in Task |-> p1]
OneEach == t1 :> c1 @@ t2 :> c2
OneList == [p \in ProjectRoot |-> {m1}]
RootOnly == {<<Portal, FALSE>>}
==============================================================================
