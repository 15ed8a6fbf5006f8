-------------------------- MODULE MCBarrierService --------------------------
\* Instances of BarrierService for TLC.
EXTENDS BarrierService
=============================================================================
