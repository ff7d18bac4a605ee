-------------------------------- MODULE MCIpc --------------------------------
(* Model-checking instances of Ipc. *)
EXTENDS Ipc

CONSTANTS c1, c2

TwoClients == {c1, c2}
OneFrame == [c \in Clients |-> 1]
TwoFrames == [c \in Clients |-> 2]

\* The request of c2 is longer than the server puts together.
TwoAndThree == [c \in Clients |-> IF c = c2 THEN 3 ELSE 2]
=============================================================================
