------------------------------ MODULE MCRiskMode ------------------------------
EXTENDS RiskMode, TLC
CONSTANTS p1, p2
(* MANUAL return on POSIX and AUTO return on Windows: every action can fire. *)
OneOfEach == {<<TRUE, FALSE>>, <<FALSE, TRUE>>}
ProcessSymmetry == Permutations({p1, p2})
=============================================================================
