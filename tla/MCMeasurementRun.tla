-------------------------- MODULE MCMeasurementRun --------------------------
EXTENDS MeasurementRun

MCPeak == {2, 10}
=============================================================================
