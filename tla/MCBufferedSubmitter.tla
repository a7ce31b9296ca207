------------------------ MODULE MCBufferedSubmitter ------------------------
(* BufferedSubmitter on small instances: frames i1 and i2 of different      *)
(* payments, and r1, a second copy of i1's frame.                           *)
EXTENDS BufferedSubmitter
CONSTANTS i1, i2, r1
OneReplay == {i1, r1}
WithReplay == {i1, r1, i2}
ReplayNonce == [i \in OneReplay |-> i1]
MixedNonce == [i \in WithReplay |-> IF i = r1 THEN i1 ELSE i]
=============================================================================
