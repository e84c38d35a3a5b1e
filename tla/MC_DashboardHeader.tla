--------------------------- MODULE MC_DashboardHeader ---------------------------
EXTENDS DashboardHeader
=============================================================================
