----------------------------- MODULE RfContexts -----------------------------
(***************************************************************************)
(* Several RF contexts, each with a radio and a thread of its own, in      *)
(* tta_receive.  All share the static rxfifo and rxfifo_pos, from which    *)
(* read_rf feeds _tta_receive_pkt.                                         *)
(*                                                                         *)
(* A packet has two parts, the header and the rest; one is whole, and its  *)
(* sum right, when both come from the same packet.                         *)
(***************************************************************************)
EXTENDS Naturals, Sequences

CONSTANTS
  Contexts,
  Nobody,       \* not a context
  Locked,       \* the application lets one thread at a time into the library
  MaxPackets    \* bound: packets each radio receives

ASSUME ContextsAssumption ==
  Nobody \notin Contexts /\ Locked \in BOOLEAN /\ MaxPackets \in Nat

VARIABLES
  owner,       \* the context the application lets in, or Nobody
  xpc,         \* per context: idle, wait, copied, header or data
  packet,      \* per context, the number of the packet its radio got last
  parts,       \* per context, what it has read in this call
  got,         \* per context, what its last call returned; <<>> for a failure
  rxfifo,      \* the packet in it, as <<context, number>>
  rxfifo_pos   \* parts of it that were read

packetVars == <<packet, got>>
contextVars == <<owner, xpc, packetVars, parts, rxfifo, rxfifo_pos>>

ContextsInit ==
  /\ owner = Nobody
  /\ xpc = [c \in Contexts |-> "idle"]
  /\ packet = [c \in Contexts |-> 0]
  /\ parts = [c \in Contexts |-> <<>>] /\ got = [c \in Contexts |-> <<>>]
  /\ rxfifo = <<Nobody, 0>> /\ rxfifo_pos = 0

To(c, from, where) == xpc[c] = from /\ xpc' = [xpc EXCEPT ![c] = where]

tta_receive(c) ==
  /\ Locked => owner = Nobody
  /\ To(c, "idle", "wait")
  /\ owner' = IF Locked THEN c ELSE Nobody
  /\ parts' = [parts EXCEPT ![c] = <<>>] /\ got' = [got EXCEPT ![c] = <<>>]
  /\ UNCHANGED <<packet, rxfifo, rxfifo_pos>>

\* _tta_rf_receive: the radio has a packet, which goes into rxfifo.
Copy(c) ==
  /\ packet[c] < MaxPackets
  /\ To(c, "wait", "copied")
  /\ packet' = [packet EXCEPT ![c] = @ + 1]
  /\ rxfifo' = <<c, packet'[c]>>
  /\ UNCHANGED <<owner, got, parts, rxfifo_pos>>

\* A slip: reading goes on where it stopped.
MutRewind(c) ==
  /\ To(c, "copied", "header")
  /\ UNCHANGED <<owner, packetVars, parts, rxfifo, rxfifo_pos>>

Rewind(c) ==
  /\ To(c, "copied", "header")
  /\ rxfifo_pos' = 0
  /\ UNCHANGED <<owner, packetVars, parts, rxfifo>>

\* read_rf, as _tta_receive_pkt calls it; past the end it copies what happens
\* to be there.
ReadPart(c) ==
  /\ parts' = [parts EXCEPT ![c] = Append(@, <<rxfifo, rxfifo_pos>>)]
  /\ rxfifo_pos' = rxfifo_pos + 1
  /\ UNCHANGED <<packet, rxfifo>>

ReadHeader(c) ==
  /\ To(c, "header", "data")
  /\ ReadPart(c)
  /\ UNCHANGED <<owner, got>>

\* The rest; check_integrity lets a whole packet pass.
ReadData(c) ==
  /\ To(c, "data", "idle")
  /\ ReadPart(c)
  /\ LET q == parts'[c]
         whole == q[1][1] = q[2][1] /\ q[1][2] = 0 /\ q[2][2] = 1
     IN got' = [got EXCEPT ![c] = IF whole THEN q[1][1] ELSE <<Nobody, 0>>]
  /\ owner' = Nobody

ContextsNext ==
  \E c \in Contexts :
    tta_receive(c) \/ Copy(c) \/ Rewind(c) \/ ReadHeader(c) \/ ReadData(c)

ContextsSpec == ContextsInit /\ [][ContextsNext]_contextVars

-----------------------------------------------------------------------------

\* A call that has received a packet returns that packet, and so none that the
\* radio of another context received, if one thread at a time is let in.
OwnPacket ==
  Locked => \A c \in Contexts : got[c] # <<>> => got[c] = <<c, packet[c]>>

=============================================================================
