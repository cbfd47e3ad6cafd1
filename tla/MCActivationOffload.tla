------------------------- MODULE MCActivationOffload -------------------------
EXTENDS ActivationOffload

\* The least number of layers that is offloaded, and two with more windows.
MCLayerCounts == {3, 4, 5}

=============================================================================
