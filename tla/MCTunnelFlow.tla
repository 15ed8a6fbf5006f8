---------------------------- MODULE MCTunnelFlow ----------------------------
\* One stream direction with a window of four bytes cut into chunks of three,
\* so that a full window ends in a short chunk, and a queue exactly as large
\* as the window (the tightest case the constants allow).
EXTENDS TunnelFlow
=============================================================================
