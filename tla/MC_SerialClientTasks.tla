------------------------ MODULE MC_SerialClientTasks ------------------------
(* Model values for SerialClientTasks: the first two calls of inv_init,  *)
(* QVFW (3) every 10 s and QPIGS (9) every 15 s.                        *)
EXTENDS MC_SerialClient, SerialClientTasks

MCAppCalls == <<AddCmd(3, 10000), AddCmd(9, 15000)>>
=============================================================================
