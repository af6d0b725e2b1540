----------------------------- MODULE MCConsole -----------------------------
EXTENDS Console
============================================================================
