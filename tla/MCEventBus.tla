------------------------------ MODULE MCEventBus ------------------------------
EXTENDS EventBus

CONSTANTS c1, c2, c3, alert, other

\* One stream takes everything, the others alerts only.
MCWanted == [c \in Streams |-> IF c = c1 THEN Topics ELSE {alert}]
=============================================================================
