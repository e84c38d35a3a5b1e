---------------------------- MODULE MC_SessionForm ----------------------------
EXTENDS SessionForm

\* a stored draft with one named peer and one vertical with a named column
MCInitForm == [peers |-> <<"org">>, verticals |-> << <<"col">> >>]
\* a stored study with one named peer and no vertical
MCStudies == { [peers |-> <<"org">>, verticals |-> <<>>] }
=============================================================================
