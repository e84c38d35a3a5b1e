------------------------------- MODULE MC_Pager -------------------------------
EXTENDS Pager
=============================================================================
