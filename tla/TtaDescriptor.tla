--------------------------- MODULE TtaDescriptor ----------------------------
(***************************************************************************)
(* Who owns which descriptor of the process: a context that connects,      *)
(* reconnects, is closed and freed, a listener and the connections it      *)
(* accepts, and the rest of the process, which opens and closes files      *)
(* between the library's calls.  A new descriptor is the lowest free one.  *)
(***************************************************************************)
EXTENDS Integers

CONSTANTS
  MaxFd,     \* bound: the highest descriptor
  Backends   \* among tcp, rs485 and rf

ASSUME FdAssumption ==
  MaxFd \in Nat /\ Backends \subseteq {"tcp", "rs485", "rf"}

Fd == 0..MaxFd

VARIABLES
  backend,
  server,   \* the role, of a TCP context only
  holder,    \* of each descriptor: free, ctx, listen or other
  s,        \* ctx->s
  up,       \* the application has connected and not closed
  refused,   \* the last connect has failed, or any accept
  ls,       \* the server application's copy of the listening descriptor
  clients   \* the connections the server application has accepted

roles == <<backend, server>>
fdVars == <<roles, holder, s, up, refused, ls, clients>>

\* Descriptor 0 is the standard input.
FdInit ==
  /\ backend \in Backends /\ server \in {backend = "tcp", FALSE}
  /\ holder = [f \in Fd |-> IF f = 0 THEN "other" ELSE "free"]
  /\ s = -1 /\ up = FALSE /\ refused = FALSE /\ ls = -1 /\ clients = {}

\* The descriptor the next open, socket or accept returns, if there is one.
Lowest(own) == {f \in Fd : own[f] = "free" /\ \A g \in 0..(f - 1) : own[g] # "free"}

\* close(2): whoever owns it.
Closed(own, f) == IF f \in Fd THEN [own EXCEPT ![f] = "free"] ELSE own

-----------------------------------------------------------------------------
(* The library.                                                            *)

\* connect, on the descriptors as own has them.
ConnectOk(own) ==
  /\ \E f \in Lowest(own) : s' = f /\ holder' = [own EXCEPT ![f] = "ctx"]
  /\ refused' = FALSE

\* A slip: what was opened is not closed.
MutConnectLeaks(own) ==
  /\ \/ s' = -1 /\ holder' = own
     \/ \E f \in Lowest(own) : s' = -1 /\ holder' = [own EXCEPT ![f] = "ctx"]
  /\ refused' = TRUE

\* A slip: the number of what was opened and closed stays.
MutConnectStale(own) ==
  /\ \/ s' = -1 /\ holder' = own
     \/ \E f \in Lowest(own) : s' = f /\ holder' = own
  /\ refused' = TRUE

\* Nothing can be opened; or the options, the settings or the connection fail,
\* and what was opened is closed again: of a socket the number stays.
ConnectFail(own) ==
  /\ \/ s' = -1 /\ holder' = own
     \/ backend = "tcp" /\ \E f \in Lowest(own) : s' = f /\ holder' = own
  /\ refused' = TRUE

\* close_rf does nothing.
CloseBackend == IF backend = "rf" THEN holder ELSE Closed(holder, s)

-----------------------------------------------------------------------------
(* The application: a client, and a server for several clients.            *)

tta_connect ==
  /\ ~server /\ ~up
  /\ \/ ConnectOk(holder) /\ up' = TRUE
     \/ ConnectFail(holder) /\ UNCHANGED up
  /\ UNCHANGED <<roles, ls, clients>>

\* A call of tta_request whose link recovery closes and connects; the
\* application does not learn whether it did, or how it ended.
Recover ==
  /\ ~server /\ up
  /\ ConnectOk(CloseBackend) \/ ConnectFail(CloseBackend)
  /\ UNCHANGED <<roles, up, ls, clients>>

tta_close ==
  /\ ~server /\ up
  /\ holder' = CloseBackend
  /\ up' = FALSE
  /\ UNCHANGED <<roles, s, refused, ls, clients>>

\* A slip: a listener that cannot be bound is not closed.
MutListenLeaks ==
  /\ server /\ ls = -1
  /\ \E f \in Lowest(holder) :
       ls' \in {f, -1} /\ holder' = [holder EXCEPT ![f] = "listen"]
  /\ UNCHANGED <<roles, s, up, refused, clients>>

\* One that cannot be set up is closed again, and nothing has changed.
tta_tcp_listen ==
  /\ server /\ ls = -1
  /\ \E f \in Lowest(holder) :
       ls' = f /\ holder' = [holder EXCEPT ![f] = "listen"]
  /\ UNCHANGED <<roles, s, up, refused, clients>>

tta_tcp_accept ==
  /\ server /\ ls # -1 /\ holder[ls] = "listen"
  /\ \E f \in Lowest(holder) :
       /\ s' = f /\ holder' = [holder EXCEPT ![f] = "ctx"]
       /\ clients' = clients \cup {f}
  /\ UNCHANGED <<roles, up, refused, ls>>

\* It fails, for want of a descriptor or because the client has gone, or
\* because *s is no listener: *s is closed and set to 0.
AcceptFailed ==
  /\ server /\ ls # -1
  /\ holder' = Closed(holder, ls)
  /\ s' = -1 /\ ls' = 0 /\ refused' = TRUE
  /\ UNCHANGED <<roles, up, clients>>

tta_set_socket(c) ==
  /\ server
  /\ s' = c
  /\ UNCHANGED <<roles, holder, up, refused, ls, clients>>

\* The end of unit_test_slave's main: "if (s != -1) close(s)".
CloseListener ==
  /\ server /\ ls # -1
  /\ holder' = Closed(holder, ls)
  /\ ls' = -1
  /\ UNCHANGED <<roles, s, up, refused, clients>>

\* A client has gone: the server application closes its connection, with
\* tta_close if it is the context's.
CloseClient(c) ==
  /\ server
  /\ holder' = Closed(holder, c)
  /\ clients' = clients \ {c}
  /\ UNCHANGED <<roles, s, up, refused, ls>>

-----------------------------------------------------------------------------

OtherOpens ==
  /\ \E f \in Lowest(holder) : holder' = [holder EXCEPT ![f] = "other"]
  /\ UNCHANGED <<roles, s, up, refused, ls, clients>>

OtherCloses(f) ==
  /\ holder[f] = "other"
  /\ holder' = Closed(holder, f)
  /\ UNCHANGED <<roles, s, up, refused, ls, clients>>

Library ==
  \/ tta_connect \/ Recover \/ tta_close
  \/ tta_tcp_listen \/ tta_tcp_accept \/ AcceptFailed \/ CloseListener
  \/ \E c \in clients : tta_set_socket(c) \/ CloseClient(c)

FdNext == Library \/ OtherOpens \/ \E f \in Fd : OtherCloses(f)

FdSpec == FdInit /\ [][FdNext]_fdVars

-----------------------------------------------------------------------------

\* A descriptor the library opened is one its user still knows and can close:
\* the context's, the listener's or an accepted connection's.  The RF backend
\* keeps its descriptor when it is closed.
NoLeak ==
  backend # "rf" => \A f \in Fd :
    /\ holder[f] = "ctx" => f = s \/ f \in clients
    /\ holder[f] = "listen" => f = ls

\* Closing and reconnecting take nothing from the rest of the process, unless
\* the number in use is one a failed connect or accept of TCP left behind.
OthersKept ==
  [][(\E f \in Fd : holder[f] = "other" /\ holder'[f] # "other") =>
       \/ \E f \in Fd : OtherCloses(f)
       \/ backend = "tcp" /\ refused]_fdVars

=============================================================================
