----------------------------- MODULE MCPipeline -----------------------------
EXTENDS Pipeline

\* A report with figures, one without, and a chat attachment.
Report     == [chat |-> FALSE, figures |-> TRUE]
PlainText  == [chat |-> FALSE, figures |-> FALSE]
Attachment == [chat |-> TRUE, figures |-> FALSE]

AllFiles == {Report, PlainText, Attachment}
Reports  == {Report}
WithAndWithoutGraph == {Report, Attachment}
=============================================================================
