---------------------------- MODULE MCKbdServer ----------------------------
EXTENDS KbdServer
=============================================================================
