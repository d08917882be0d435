------------------------------ MODULE MCPaste ------------------------------
\* Instances of Paste for TLC.
EXTENDS Paste
=============================================================================
