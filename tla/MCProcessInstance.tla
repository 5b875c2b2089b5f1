------------------------- MODULE MCProcessInstance -------------------------
(***************************************************************************)
(* Instances of ProcessInstance for TLC: one process diagram.             *)
(***************************************************************************)
EXTENDS ProcessInstance, TLC

CONSTANTS alice, bob, review, approve, charge, notify, archive, deadline,
          reminder, cooloff

TwoUsers == {alice, bob}
OneUser == {alice}

\* A service task, then two parallel user tasks.  One has two boundary timers
\* and a service task that only its completion leads to, the other has an
\* intermediate timer behind it.  A third service task is behind the join.
OrderManual == {review, approve}
OrderService == {charge, notify, archive}
OrderTimer == {cooloff, deadline, reminder}
OrderPred ==
    charge :> {} @@ review :> {charge} @@ approve :> {charge}
    @@ deadline :> {charge} @@ reminder :> {charge}
    @@ archive :> {review} @@ cooloff :> {approve}
    @@ notify :> {review, deadline, reminder, cooloff}
OrderHost == cooloff :> {} @@ deadline :> {review} @@ reminder :> {review}
OrderDelay == cooloff :> 1 @@ deadline :> 2 @@ reminder :> 2
=============================================================================
