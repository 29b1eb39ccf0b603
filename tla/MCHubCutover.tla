---------------------------- MODULE MCHubCutover ----------------------------
EXTENDS HubCutover
=============================================================================
