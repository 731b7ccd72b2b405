---------------------------- MODULE MCNsMonitor ----------------------------
(* Three sessions of one connection, over two namespaces. *)
EXTENDS NsMonitor, TLC

CONSTANTS i1, i2

MCInodes == {i1, i2}
=============================================================================
