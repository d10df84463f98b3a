-------------------------------- MODULE MCEntry --------------------------------
\* ScriptEntry for TLC.
EXTENDS ScriptEntry
===============================================================================
