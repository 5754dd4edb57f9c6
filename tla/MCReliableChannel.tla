--------------------------- MODULE MCReliableChannel ---------------------------
EXTENDS ReliableChannel

CONSTANTS Client, Server, ClientSends, ServerSends

MCPeers == {Client, Server}
MCMaxSent == [p \in MCPeers |-> IF p = Client THEN ClientSends ELSE ServerSends]
===============================================================================
