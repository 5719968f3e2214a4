------------------------------ MODULE MCPipeline ------------------------------
\* Instances of StreamingPipeline for TLC.
EXTENDS StreamingPipeline, MCPerformanceMetrics

MCPaths == {"movie", "copy", "note"}
MCHashes == {"h1", "h2"}
MCSupported == {"movie", "copy"}
=============================================================================
