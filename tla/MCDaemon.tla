------------------------------ MODULE MCDaemon ------------------------------
\* Model checking the daemon with two sessions of an editor.
EXTENDS Daemon

AllOps == {"turn", "cancel", "list"}

\* Up to a renaming of the sessions, the first request is s1's.
UpToRenaming == requests # <<>> => requests[1].session = "s1"
=============================================================================
