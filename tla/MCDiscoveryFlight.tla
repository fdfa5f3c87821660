-------------------------- MODULE MCDiscoveryFlight --------------------------
EXTENDS DiscoveryFlight, TLC

CONSTANTS t1, t2, t3, here, there

\* Two threads share a converter, a third one belongs to another process.
SharedAndApart == (t1 :> here) @@ (t2 :> here) @@ (t3 :> there)
=============================================================================
