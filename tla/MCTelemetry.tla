---------------------------- MODULE MCTelemetry ----------------------------
EXTENDS Telemetry

CONSTANTS v1, v2, h1, c1
=============================================================================
