-------------------------- MODULE MCRequestCapture --------------------------
EXTENDS RequestCapture
=============================================================================
