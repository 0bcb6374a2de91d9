--------------------------- MODULE MCVaultReaders ---------------------------
\* VaultReaders for TLC.
EXTENDS VaultReaders
MCSiteOf == [m \in Moments |-> "site"]
=============================================================================
