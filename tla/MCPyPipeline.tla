---------------------------- MODULE MCPyPipeline ----------------------------
EXTENDS PyPipeline

\* One camera's frames in the order they were pushed.
MCResults == [stream : Streams, no : 1..MaxPushes]
=============================================================================
