------------------------------ MODULE MCCircBuf ------------------------------
(* Model-checking instances of CircBuf: model values and symmetry. *)
EXTENDS CircBuf, TLC

CONSTANTS p1, p2, c1, c2, d1, d2, d3, d4

TwoProducers == {p1, p2}
OneProducer == {p1}
OneConsumer == {c1}
TwoConsumers == {c1, c2}
TwoBlocks == {d1, d2}
ThreeBlocks == {d1, d2, d3}
FourBlocks == {d1, d2, d3, d4}

\* Blocks, and producers, are interchangeable.
Symmetry == Permutations(Data) \cup Permutations(Producers)
=============================================================================
