---------------------------- MODULE MCDownloadQueue ----------------------------
EXTENDS DownloadQueue

\* A block with both parts, one without receipts and an empty one.
MCParts == <<{"body", "receipt"}, {"body"}, {}>>

\* Two blocks with bodies.
MCBodies == <<{"body"}, {"body"}>>

=============================================================================
