----------------------------- MODULE Telemetry -----------------------------
(***************************************************************************)
(* The way of a report from a C program to the browser: a datagram to UDP  *)
(* port 5000, server.js, and a socket.io event to the page that is         *)
(* connected at that moment.  Nobody acknowledges, repeats or stores       *)
(* anything.  Two equal datagrams under way count as one, as if the other  *)
(* had been lost.                                                          *)
(***************************************************************************)

VARIABLES
    datagrams,              \* under way to port 5000, in no order
    udpServer,              \* the socket of server.js
    connected               \* is a page connected?

telemetryVars == <<datagrams, udpServer, connected>>

TelemetryInit ==
    /\ datagrams = {}
    /\ udpServer = "bound"
    /\ connected = FALSE

\* A program hands reports ms to its socket.
sendto(ms) == datagrams' = datagrams \cup ms /\ UNCHANGED <<udpServer, connected>>

\* The 'message' handler: the report is parsed and emitted to the page.  Text
\* that does not parse is emitted too, as a log line.
Emit(m) ==
    /\ udpServer = "bound"
    /\ m \in datagrams
    /\ datagrams' = datagrams \ {m}
    /\ UNCHANGED <<udpServer, connected>>

\* The network, or a socket nobody reads, loses a datagram.
Lose(m) ==
    /\ m \in datagrams
    /\ datagrams' = datagrams \ {m}
    /\ UNCHANGED <<udpServer, connected>>

\* The 'error' handler closes the socket and nobody opens it again.
UdpError ==
    /\ udpServer = "bound"
    /\ udpServer' = "closed"
    /\ UNCHANGED <<datagrams, connected>>

\* A page comes or goes; what was emitted without one is not repeated.
PageComesOrGoes ==
    /\ connected' = ~connected
    /\ UNCHANGED <<datagrams, udpServer>>

TelemetryStep ==
    \/ \E m \in datagrams : Emit(m) \/ Lose(m)
    \/ UdpError
    \/ PageComesOrGoes
=============================================================================
