---------------------------- MODULE MCUsbServer ----------------------------
EXTENDS UsbServer, TLC

Symmetry == Permutations(Clients)
=============================================================================
