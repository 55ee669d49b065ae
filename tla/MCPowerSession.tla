--------------------------- MODULE MCPowerSession ---------------------------
(* Two nodes with a device and an exporter chunk each, two scrapes before  *)
(* the one that follows the stop: enough for a scrape that misses a node,  *)
(* one that covers both, and a third that is under way at shutdown.        *)
EXTENDS PowerSession
=============================================================================
