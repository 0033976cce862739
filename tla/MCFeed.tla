-------------------------------- MODULE MCFeed --------------------------------
EXTENDS Feed

=============================================================================
