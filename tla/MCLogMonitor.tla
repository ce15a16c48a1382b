----------------------------- MODULE MCLogMonitor ------------------------------
(* The log monitor for TLC; the inodes are declared here.                   *)
EXTENDS LogMonitor

CONSTANTS i1, i2, i3
===============================================================================
