----------------------------- MODULE MC_TableView -----------------------------
EXTENDS TableView
=============================================================================
