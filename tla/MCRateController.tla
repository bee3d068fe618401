--------------------------- MODULE MCRateController -------------------------
EXTENDS RateController

DualAndQuarter == {[pixels |-> 2, streams |-> 2], [pixels |-> 1, streams |-> 1]}
=============================================================================
