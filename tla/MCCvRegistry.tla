---------------------------- MODULE MCCvRegistry ----------------------------
\* Small instances of CvRegistry for TLC.
EXTENDS CvRegistry, TLC

CONSTANTS l1, l2, d1, d2

TwoLocos == {l1, l2}
OneDecoder == {d1}
TwoDecoders == {d1, d2}
ThreeAddresses == 1..3
OneLong == {3}
\* They differ in every CV but the long address, and no locomotive has address 3.
TwoFactory ==
  l1 :> [A |-> 1, L |-> 3, M |-> 2, B |-> 0, S |-> 0] @@
  l2 :> [A |-> 2, L |-> 3, M |-> 0, B |-> 1, S |-> 1]
FewInputs == [A |-> {3}, L |-> {1}, M |-> {3}, B |-> {1}]

=============================================================================
