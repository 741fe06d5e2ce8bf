----------------------------- MODULE TtaShared ------------------------------
(***************************************************************************)
(* Several threads of a TCP client that call tta_request on one context.   *)
(*                                                                         *)
(* The context has no lock, and the manual asks the application for none.  *)
(* Its tid is read, written and read again by conv_ttamsg2pkt, and         *)
(* _tta_receive_pkt takes a packet off the socket in two reads, the header *)
(* and the rest; between any two of these steps another thread may run.    *)
(***************************************************************************)
EXTENDS Naturals, Sequences

CONSTANTS
  Threads,
  Nobody,       \* not a thread
  MaxRequests   \* bound: requests a thread makes

VARIABLES
  tid,    \* ctx_tcp->tid
  pc,     \* per thread: idle, load, store, build, send, header or data
  made,   \* per thread, the requests it made
  read,   \* per thread, the value of tid it loaded
  ptid,   \* per thread, the identifier in its request
  hd,     \* per thread, the header it read
  got,    \* per thread, the parts its last call returned; <<>> if it failed
  c2s,    \* requests the server has not answered
  stid,   \* the server's ctx_tcp->tid
  s2c     \* parts of packets on the client's socket

threadVars == <<pc, made, read, ptid, hd, got>>
sharedVars == <<tid, threadVars, c2s, stid, s2c>>

Nothing == [tid |-> 0, about |-> <<Nobody, 0>>, part |-> "none"]

SharedInit ==
  /\ tid = 0
  /\ pc = [t \in Threads |-> "idle"]
  /\ made = [t \in Threads |-> 0]
  /\ read = [t \in Threads |-> 0] /\ ptid = [t \in Threads |-> 0]
  /\ hd = [t \in Threads |-> Nothing] /\ got = [t \in Threads |-> <<>>]
  /\ c2s = <<>> /\ stid = 0 /\ s2c = <<>>

To(t, from, where) == pc[t] = from /\ pc' = [pc EXCEPT ![t] = where]

\* The request thread t is making.
Current(t) == <<t, made[t]>>

-----------------------------------------------------------------------------

Call(t) ==
  /\ made[t] < MaxRequests
  /\ To(t, "idle", "load")
  /\ made' = [made EXCEPT ![t] = @ + 1]
  /\ got' = [got EXCEPT ![t] = <<>>]
  /\ UNCHANGED <<tid, read, ptid, hd, c2s, stid, s2c>>

\* conv_ttamsg2pkt: ctx_tcp->tid++, then the packet is built from it.
Load(t) ==
  /\ To(t, "load", "store")
  /\ read' = [read EXCEPT ![t] = tid]
  /\ UNCHANGED <<tid, made, ptid, hd, got, c2s, stid, s2c>>

Store(t) ==
  /\ To(t, "store", "build")
  /\ tid' = read[t] + 1
  /\ UNCHANGED <<made, read, ptid, hd, got, c2s, stid, s2c>>

Build(t) ==
  /\ To(t, "build", "send")
  /\ ptid' = [ptid EXCEPT ![t] = tid]
  /\ UNCHANGED <<tid, made, read, hd, got, c2s, stid, s2c>>

Send(t) ==
  /\ To(t, "send", "header")
  /\ c2s' = Append(c2s, Current(t))
  /\ UNCHANGED <<tid, made, read, ptid, hd, got, stid, s2c>>

\* The server's tta_reply, numbered by its own counter.
ServerReply ==
  /\ c2s # <<>>
  /\ stid' = stid + 1
  /\ LET part(p) == [tid |-> stid', about |-> Head(c2s), part |-> p]
     IN s2c' = s2c \o <<part("header"), part("data")>>
  /\ c2s' = Tail(c2s)
  /\ UNCHANGED <<tid, threadVars>>

ReadHeader(t) ==
  /\ s2c # <<>>
  /\ To(t, "header", "data")
  /\ hd' = [hd EXCEPT ![t] = Head(s2c)]
  /\ s2c' = Tail(s2c)
  /\ UNCHANGED <<tid, made, read, ptid, got, c2s, stid>>

\* The rest, and check_confirmation, which looks at what was read first: if it
\* was not a header, its bytes may be any identifier.
ReadData(t) ==
  /\ s2c # <<>>
  /\ To(t, "data", "idle")
  /\ \E ok \in BOOLEAN :
       /\ hd[t].part = "header" => ok = (hd[t].tid = ptid[t])
       /\ got' = [got EXCEPT ![t] = IF ok THEN <<hd[t], Head(s2c)>> ELSE <<>>]
  /\ s2c' = Tail(s2c)
  /\ UNCHANGED <<tid, made, read, ptid, hd, c2s, stid>>

\* Nothing has come in time.  It may come later, or the thread may have read a
\* part of it.
Timeout(t) ==
  /\ s2c = <<>>
  /\ pc[t] \in {"header", "data"} /\ pc' = [pc EXCEPT ![t] = "idle"]
  /\ UNCHANGED <<tid, made, read, ptid, hd, got, c2s, stid, s2c>>

Step(t) ==
  \/ Call(t) \/ Load(t) \/ Store(t) \/ Build(t) \/ Send(t)
  \/ ReadHeader(t) \/ ReadData(t) \/ Timeout(t)

SharedNext == ServerReply \/ \E t \in Threads : Step(t)

SharedSpec == SharedInit /\ [][SharedNext]_sharedVars

-----------------------------------------------------------------------------

\* What tta_request returns to a thread is the answer to that thread's request,
\* header and data.  The manual says that threads may share a context without a
\* lock; they get each other's answers.
OwnAnswer ==
  \A t \in Threads : got[t] # <<>> =>
    /\ \A i \in 1..2 : got[t][i].about = Current(t)
    /\ got[t][1].part = "header" /\ got[t][2].part = "data"

=============================================================================
