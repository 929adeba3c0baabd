---------------------------- MODULE MCConnections ----------------------------
(* One session fits (so two are held after a login) and three logins or       *)
(* setups happen, so that the third evicts one of two, with ties in           *)
(* touched_at; a lifetime of one tick out of three; one stream of two events, *)
(* as streams share nothing but their clients.                                *)
EXTENDS Connections
=============================================================================
