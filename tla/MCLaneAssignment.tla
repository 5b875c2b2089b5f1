-------------------------- MODULE MCLaneAssignment --------------------------
(***************************************************************************)
(* An instance of LaneAssignment for TLC: two tenants with a lane of the   *)
(* same name, a username that both have, computed IDs that collide, and a  *)
(* group named like the shared lane.                                       *)
(***************************************************************************)
EXTENDS LaneAssignment, TLC

CONSTANTS acme, zen, ann, bob, cleo, finance, legal, shared, mail,
          order, bill, approve, check, pay

HomeOf == ann :> acme @@ cleo :> acme @@ bob :> zen

ExactUsers == shared :> {ann, bob} @@ mail :> {}
LocalUsers == shared :> {} @@ mail :> {cleo}

\* The legal lane of acme collides with both lanes of zen.
Hashes == <<acme, finance>> :> 1 @@ <<acme, legal>> :> 2
          @@ <<zen, finance>> :> 2 @@ <<zen, legal>> :> 2
LegacyIds == finance :> 9

ItemProc == approve :> order @@ check :> order @@ pay :> bill
ProcTenant == order :> acme @@ bill :> zen
ProcInitiator == order :> ann @@ bill :> bob
ItemLane == approve :> finance @@ check :> finance @@ pay :> finance

\* A script task before check names its own owners.
ItemData == approve :> NoMapping @@ pay :> NoMapping
            @@ check :> (finance :> {mail} @@ legal :> {shared})

\* The directory has bob in the group that is named like the lane.
Moves == {<<bob, 9>>}

\* finance has named owners; in order it may also be the initiator's lane.
Owned == [initiator_lanes |-> {}, lane_owners |-> finance :> {shared}]
Initiated == [initiator_lanes |-> {finance}, lane_owners |-> << >>]
Configurations == order :> {Owned, Initiated} @@ bill :> {Owned}
=============================================================================
