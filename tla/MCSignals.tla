------------------------------ MODULE MCSignals -----------------------------
EXTENDS Signals

CONSTANTS w1, w2
MCHome == [x \in Watchers \cup Instances |->
             IF x \in {w1, 1, 4} THEN "source" ELSE "caller"]
=============================================================================
