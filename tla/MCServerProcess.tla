-------------------------- MODULE MCServerProcess --------------------------
(* Two stations beside the thermostat.  Numbers of two bytes of two binary *)
(* digits, sixteen in all; parts of a page of odd and of even length;      *)
(* every number once in either place of a header.                          *)
EXTENDS ServerProcess, TLC

CONSTANTS host1, host2

MCStations == {host1, host2}
MCIp       == Avr :> 5 @@ host1 :> 9 @@ host2 :> 14
MCPort     == host1 :> 3 @@ host2 :> 12
MCLengths  == {3, 6}
MCBytes(n) == [i \in {0, 1} |-> (n \div 4 ^ (1 - i)) % 4]
MCRequests == {[seq |-> MCBytes(n), ack |-> MCBytes((n + 5) % 16)] :
                 n \in 0 .. 15}
MCEchoSizes == {60, 84}
MCEchoWords == {0, 7}
=============================================================================
