-------------------------- MODULE MCVaultIndex --------------------------
EXTENDS VaultIndex

\* The first two captures are of one site, the others of a second one.
MCSiteOf == [m \in Moments |-> IF m \in {1, 2} THEN "siteA" ELSE "siteB"]
=============================================================================
