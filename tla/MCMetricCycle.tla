---------------------------- MODULE MCMetricCycle ------------------------------
(* Plugin directories and devices for TLC.                                 *)
EXTENDS MetricCycle

CONSTANTS usb, lo, wlan

Of(name, interval) == [name |-> name, interval |-> interval, loads |-> TRUE]

\* Two files claim a name, one does not load, one has no interval.
Directory ==
  << Of("disk", 3), Of("disk", 2), [Of("broken", 1) EXCEPT !.loads = FALSE],
     Of("uptime", 0) >>
===============================================================================
