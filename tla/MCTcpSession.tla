---------------------------- MODULE MCTcpSession ----------------------------
(* Model-checking instances of TcpSession.                                   *)
EXTENDS TcpSession

CONSTANTS a1, a2, io_thread

MCTaskKind == {"enter", "flush", "shutdown"}
MCOneApp == {a1}
MCTwoApps == {a1, a2}
AllSites == {"app"} \cup Callback
MCCallbacks == Callback
AppSite == {"app"}
HandlerSites == {"enter_cb", "data_cb"}
=============================================================================
