--------------------------- MODULE MC_RPCStream -----------------------------
(* Model-checking instance of RPCStream: two concurrent callers, one       *)
(* request from the remote end, an RPC type only one end supports, and a  *)
(* writeCh of capacity 1 so that senders block on a full channel.          *)
EXTENDS RPCStream

MCCallers == {"c1", "c2"}
MCOneCaller == {"c1"}
MCRPCTypes == {"HTTPRequest", "Unsupported"}
MCHandled == {"HTTPRequest"}
MCNoMonitors == {}
\* The liveness model's caller is a Monitor(), whose RPCs are heartbeats.
MCLiveTypes == {"Heartbeat", "Unsupported"}
MCLiveHandled == {"Heartbeat"}
=============================================================================
