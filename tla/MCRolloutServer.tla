--------------------------- MODULE MCRolloutServer ---------------------------
EXTENDS RolloutServer

\* Faults for the runs of the .cfg files.
NoFaults == {}
WorkerFaults == {"worker", "infer"}
AllFaults == FaultKinds

=============================================================================
