---------------------------- MODULE MCInterrupt -----------------------------
EXTENDS Interrupt
=============================================================================
