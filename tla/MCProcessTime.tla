---------------------------- MODULE MCProcessTime ----------------------------
EXTENDS ProcessTime

\* No timeout, less than a second, more than one; a poll and a negative one.
MCTimeouts == {-1, 0, 2, 4}
MCCallerTimeouts == {-2, 0, 2, 3}
=============================================================================
