--------------------------- MODULE MCPeerDelivery ---------------------------
EXTENDS PeerDelivery
=============================================================================
