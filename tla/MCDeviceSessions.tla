-------------------------- MODULE MCDeviceSessions --------------------------
(* Small instances of DeviceSessions: two or three devices of one account,  *)
(* or a host and a controller of different accounts.                        *)
EXTENDS DeviceRefinement, TLC

CONSTANTS laptop, phone, tablet, alice, bob, s1, s2

OneAccount == phone :> alice @@ laptop :> alice @@ tablet :> alice
TwoAccounts == phone :> bob @@ laptop :> alice @@ tablet :> alice

OneOwner == [d \in Devices |-> OneAccount[d]]
\* No action reads what the last step sent.
StateView == <<conn, task, sess, shares, sweeping>>

\* Session ids are drawn at random, and nothing tells one account's devices
\* apart: each set is interchangeable (devices only under OneOwner).
IdSymmetry == Permutations(SessionIds)
Symmetry == Permutations(SessionIds) \cup Permutations(Devices)

TwoOwners == [d \in Devices |-> TwoAccounts[d]]
LaptopToBob == {<<laptop, bob>>}
NoShares == {}
=============================================================================
