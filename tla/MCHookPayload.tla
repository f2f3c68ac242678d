---------------------------- MODULE MCHookPayload -----------------------------
EXTENDS HookPayload
===============================================================================
