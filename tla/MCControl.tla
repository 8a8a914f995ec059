------------------------------ MODULE MCControl ------------------------------
EXTENDS Control
CONSTANTS r0, h1, h2

MCClientHosts == <<h1, h2>>
=============================================================================
