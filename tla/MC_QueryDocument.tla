--------------------------- MODULE MC_QueryDocument ---------------------------
EXTENDS QueryDocument, Renderer, Lexicons

MCJoinTypes == <<"INNER">>
MCMomentTypes == <<"COUNT">>
=============================================================================
