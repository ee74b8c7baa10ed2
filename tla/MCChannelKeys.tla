--------------------------- MODULE MCChannelKeys ---------------------------
(* Small instances of ChannelKeys for TLC. *)
EXTENDS ChannelKeys, TLC

CONSTANTS ann, bob, pc, laptop, c1, c2, c3

\* Ann writes twice on her computer, Bob once on his laptop.
Owner == [p \in Pages |-> IF p = laptop THEN bob ELSE ann]
Caller == [c \in Calls |-> IF c = c2 THEN laptop ELSE pc]
CallSymmetry == Permutations({c1, c3})

\* Ann's profile has seen two epochs, of which the server has lost at least
\* one (everybody left, or a backup came back); Bob's has seen none.
Restored == {[p \in Pages |-> IF p = pc THEN 2 ELSE 0]}
Fresh == {[p \in Pages |-> 0]}
=============================================================================
