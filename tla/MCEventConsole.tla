---------------------------- MODULE MCEventConsole ----------------------------
EXTENDS EventConsole, TLC

Symmetry ==
    Permutations(Events) \cup Permutations(Urls) \cup Permutations(Requests)
    \cup Permutations(Forms)
===============================================================================
