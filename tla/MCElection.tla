----------------------------- MODULE MCElection -----------------------------
EXTENDS Election

(* Sessions 1 and 2 are as good as equal, and session 3 wins over both: an *)
(* order.  Peers 1 and 3 know each other by what peer 2 says.              *)
Ages == <<0, 2, 6>>
Chain == {{1, 2}, {2, 3}}
=============================================================================
