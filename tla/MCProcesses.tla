------------------------------ MODULE MCProcesses ------------------------------
EXTENDS Processes

\* Two searches in one backend process, the third in another.
MCBackendOf == [s \in Searches |-> IF s = "s3" THEN "b2" ELSE "b1"]
=============================================================================
