-------------------------- MODULE MCFileTransfers --------------------------
EXTENDS FileTransfers, TLC

CONSTANTS pc, phone, tablet, alice, bob

\* To oneself; to somebody with two devices; to somebody hidden.
AllCases ==
    {[owner |-> [d \in Devices |-> alice], target |-> alice, hides |-> FALSE],
     [owner |-> [d \in Devices |-> IF d = pc THEN alice ELSE bob],
      target |-> bob, hides |-> FALSE]}
    \cup {[owner |-> [d \in Devices |-> IF d = only THEN bob ELSE alice],
           target |-> bob, hides |-> TRUE] : only \in {phone, tablet}}

PeerSymmetry == Permutations({phone, tablet})
=============================================================================
