--------------------------- MODULE MCPipelineRuns -----------------------------
EXTENDS PipelineRuns
==============================================================================
