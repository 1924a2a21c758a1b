------------------------------ MODULE MCLogFile ------------------------------
EXTENDS LogFileProperties
=============================================================================
