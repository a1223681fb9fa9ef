---------------------------- MODULE MCHttpServer ----------------------------
(* Two clients with addresses of their own, a ring of two frames, one loss *)
(* and one request sent again too early: enough for a POST of each client  *)
(* to be torn by the other, and for a copy of it to run twice.             *)
EXTENDS HttpServer

MCAddress == [c \in Clients |-> c]
MCCommands ==
  [c \in Clients |->
     IF c = "a" THEN {<<"mac", "1">>, <<"mac", "0">>, NoCommand}
                ELSE {<<"page", "1">>, <<"hvac", "0">>}]
=============================================================================
