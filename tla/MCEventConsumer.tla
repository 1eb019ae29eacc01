-------------------------- MODULE MCEventConsumer --------------------------
EXTENDS EventConsumer

CONSTANTS m1, m2, m3, m4, w1, w2

MCPostOf == [m \in Messages |-> IF m \in {m1, m2} THEN 1 ELSE 2]
=============================================================================
