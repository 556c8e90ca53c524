----------------------------- MODULE MCAdminApi -----------------------------
\* The admin endpoints with two operators.
EXTENDS AdminApi, TLC

CONSTANTS ann, ben

MCOperators == {ann, ben}
MCSymmetry == Permutations(MCOperators)
=============================================================================
