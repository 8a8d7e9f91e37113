--------------------------- MODULE MCLogBroadcast ----------------------------
\* The broadcaster for TLC: the constants are model values of log_broadcast.cfg.
EXTENDS LogBroadcast
==============================================================================
