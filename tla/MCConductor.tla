----------------------------- MODULE MCConductor -----------------------------
EXTENDS Conductor
===============================================================================
