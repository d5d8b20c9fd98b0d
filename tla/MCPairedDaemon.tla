--------------------------- MODULE MCPairedDaemon ---------------------------
EXTENDS PairedDaemon
============================================================================
