------------------------------ MODULE MCWorker ------------------------------
(* Instances of SharedWorker for TLC.                                      *)
EXTENDS SharedWorker

CONSTANTS a, b, other, page, title, m, n, o

Everybody == Tabs \union Pages
=============================================================================
