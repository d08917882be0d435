----------------------------- MODULE MCMcpRuns -----------------------------
\* Instances of McpRuns for TLC: every bound is a number of its configuration.
EXTENDS McpRuns
=============================================================================
