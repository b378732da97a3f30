------------------------------ MODULE MCEngine ------------------------------
\* Model checking the engine: the clients and backends of the runs.
EXTENDS EngineProperties

\* The shipped editor: of the actions it only sends cancel_turn.
EditorActions == {"cancel_turn"}

\* A client that uses the whole session/action protocol.  follow, open and
\* other_lead are left to why and edit_prompt to retry, whose rows of the
\* table are the same wherever both have one that asks for an answer; fix,
\* which asks for a patch, to the reply that asks for one; no state admits
\* next.
ProtocolActions ==
    Actions \ {"next", "edit_prompt", "follow", "other_lead", "open", "fix"}

TextReplies == {"Patch", "Any"}
AllReplies == {"Patch", "Any", "blank"}

\* A choice is left out: it is shown like a finding, and asks for no patch.
BackendCards == {"finding", "patch", "summary"}
AllBackendCards == BackendCards \cup {"deny"}
=============================================================================
