------------------------ MODULE MCLinuxInstallService ------------------------
EXTENDS LinuxInstallService, TLC

Symmetry == Permutations(Controllers)
=============================================================================
