----------------------------- MODULE MCOrgStatus -----------------------------
EXTENDS OrgStatus, TLC

Symmetry == Permutations(Workers)
=============================================================================
