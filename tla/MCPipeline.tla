----------------------------- MODULE MCPipeline -----------------------------
\* Every operation of the extension as a program of Pipeline, one at a time.
EXTENDS Pipeline, Operations
=============================================================================
