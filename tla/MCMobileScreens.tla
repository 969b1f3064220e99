-------------------------- MODULE MCMobileScreens --------------------------
\* Instances of MobileScreens for TLC: every tab, one row in it.
EXTENDS MobileScreens, TLC

CONSTANTS c1, c2
Interchangeable == Permutations(Calls)
============================================================================
