------------------------------ MODULE MCWebClient ----------------------------
(***************************************************************************)
(* TLC instance of WebClient: two pages, each loaded once more, which is   *)
(* enough for a takeover, a takeover back and an inherited flag.           *)
(***************************************************************************)
EXTENDS WebClient
==============================================================================
