------------------------ MODULE MCWateringRefinement ------------------------
EXTENDS MCWatering, WateringRefinement
=============================================================================
