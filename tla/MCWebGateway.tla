---------------------------- MODULE MCWebGateway ----------------------------
(* An instance of WebGateway: the request of a web client and a submission *)
(* from the command line compete for one context of SubmitDag.             *)
EXTENDS WebGateway
CONSTANTS r1, k1

MCMethodOf(k) == "SubmitDag"
===============================================================================
