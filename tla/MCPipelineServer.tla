-------------------------- MODULE MCPipelineServer --------------------------
EXTENDS PipelineServer
====
