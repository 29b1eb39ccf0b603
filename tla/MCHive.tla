------------------------------- MODULE MCHive -------------------------------
EXTENDS Hive, TLC
CONSTANTS console, agent
MCLegacy == {"oldmini"}
\* The old MagicDNS name in full.
MCLiterals == {"oldmini.ts"}
MCStemOf == "oldmini.ts" :> "oldmini"
MCMacs == {"mini"}
MCProcs == {console, agent}
=============================================================================
