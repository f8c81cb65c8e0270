------------------------------- MODULE MCDeploy -------------------------------
EXTENDS Deploy, TLC

CONSTANTS a, b, js, s1, s2

\* All modules, or one Rust module by its path.
MCSelections == {Modules, {a}}

\* The threads are alike, and so are the sources that compile.
Symmetry == Permutations(Jobs) \cup Permutations({s1, s2})
=============================================================================
