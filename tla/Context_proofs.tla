--------------------------- MODULE Context_proofs ---------------------------
(***************************************************************************)
(* What every backend has: no message leaks and none is altered on the     *)
(* way; no descriptor leaks and none of others is closed; waits for a      *)
(* response last as long as the application said.                          *)
(***************************************************************************)
EXTENDS TtaMsg, TtaDescriptor, TtaTimeouts, TLAPS

-----------------------------------------------------------------------------
(* Messages.                                                               *)

\* A pointer is Null or points to a message of its own.
Distinct(p, q) == p # Null => p # q

Pointers ==
  /\ {req, kept, rsp, rx} \subseteq Ids \cup {Null}
  /\ Distinct(req, kept) /\ Distinct(req, rsp) /\ Distinct(req, rx)
  /\ Distinct(kept, rsp) /\ Distinct(kept, rx) /\ Distinct(rsp, rx)

HeapInv == Pointers /\ HeapExact

\* The master's messages say what was asked.
Alike ==
  /\ req # Null => heap[req] = asked
  /\ kept # Null => heap[kept] = asked

\* The response of an earlier request was freed before this one.
NoResponse == mpc = "wait" => rsp = Null

\* What the slave has is the request; what it gave, if a byte can tell its
\* length, is on its way back or with the master.
Told ==
  /\ ~asked.reply
  /\ rx # Null => heap[rx] = asked
  /\ \A p \in wire : p.reply => /\ p.hd = asked.hd
                                /\ gave.datalen <= 255 => p = gave
  /\ ResponseWhole /\ NothingLonger

Inv == HeapInv /\ Alike /\ RepeatedAlike

-----------------------------------------------------------------------------

LEMMA NullNoId == Null \notin Ids
  BY MsgAssumption DEF Null

LEMMA InitInv == MsgInit => Inv /\ NoResponse
<1> SUFFICES ASSUME MsgInit PROVE Inv /\ NoResponse
  OBVIOUS
<1>1. Pointers
  BY DEF MsgInit, Pointers, Distinct
<1>2. HeapExact
  BY DEF MsgInit, HeapExact, Held
<1> QED
  BY <1>1, <1>2 DEF MsgInit, Inv, HeapInv, NoResponse, Alike,
                           RepeatedAlike

LEMMA MakeInv ==
  ASSUME Inv, NEW hd \in Headers, NEW len \in Lengths, ttamsg_make(hd, len)
  PROVE  Inv'
<1> USE DEF Inv, HeapInv
<1>1. PICK i \in Ids \ DOMAIN heap :
        req' = i /\ heap' = New(heap, i, asked')
  BY DEF ttamsg_make
<1>2. /\ wire = {} /\ rx = Null /\ kept = Null /\ rsp = Null /\ req = Null
      /\ UNCHANGED <<kept, rsp, rx, wire>>
  BY DEF ttamsg_make
<1>3. DOMAIN heap' = {i} /\ heap'[i] = asked'
  BY <1>1, <1>2 DEF New, HeapExact, Held
<1>4. i # Null
  BY NullNoId
<1>5. HeapInv'
  BY <1>1, <1>2, <1>3, <1>4 DEF Pointers, Distinct, HeapExact, Held
<1> QED
  BY <1>1, <1>2, <1>3, <1>5 DEF Alike, RepeatedAlike

LEMMA DuplicateInv ==
  ASSUME Inv, ttamsg_duplicate
  PROVE  Inv'
<1> USE DEF Inv, HeapInv
<1>1. PICK i \in Ids \ DOMAIN heap : kept' = i /\ heap' = New(heap, i, heap[req])
  BY DEF ttamsg_duplicate
<1>2. req # Null /\ kept = Null /\ UNCHANGED <<req, rsp, rx, asked, wire>>
  BY DEF ttamsg_duplicate
<1>3. i # Null /\ i \notin Held /\ req \in DOMAIN heap
  BY <1>2, NullNoId DEF HeapExact, Held
<1>4. /\ DOMAIN heap' = DOMAIN heap \cup {i} /\ heap'[i] = heap[req]
      /\ \A j \in DOMAIN heap : heap'[j] = heap[j]
  BY <1>1 DEF New
<1>5. Pointers'
  BY <1>1, <1>2, <1>3 DEF Pointers, Distinct, Held
<1>6. HeapExact'
  BY <1>1, <1>2, <1>3, <1>4 DEF HeapExact, Held
<1> QED
  BY <1>1, <1>2, <1>3, <1>4, <1>5, <1>6 DEF Alike, RepeatedAlike

LEMMA SendInv ==
  ASSUME Inv, RequestFails \/ RequestSent
  PROVE  Inv'
<1> USE DEF Inv, HeapInv
<1>1. /\ req # Null /\ heap' = Free(heap, req) /\ req' = Null
      /\ UNCHANGED <<kept, rsp, rx, asked>>
      /\ wire' \in {wire, {heap[req]}}
  BY DEF RequestFails, RequestSent
<1>2. Pointers'
  BY <1>1 DEF Pointers, Distinct
<1>3. DOMAIN heap' = DOMAIN heap \ {req} /\ \A j \in DOMAIN heap' : heap'[j] = heap[j]
  BY <1>1 DEF Free
<1>4. HeapExact'
  BY <1>1, <1>3 DEF HeapExact, Held, Pointers, Distinct
<1>5. Alike'
  BY <1>1, <1>3, <1>4 DEF Alike, HeapExact, Held
<1> QED
  BY <1>1, <1>2, <1>4, <1>5 DEF RepeatedAlike, Alike

\* A message is made of a packet for the master or the slave.
LEMMA TakeInv ==
  ASSUME Inv, NoResponse, Response \/ tta_receive
  PROVE  Inv'
<1> USE DEF Inv, HeapInv
<1>1. PICK i \in Ids \ DOMAIN heap, p \in wire :
        /\ heap' = New(heap, i, p)
        /\ \/ rsp = Null /\ rsp' = i /\ rx' = rx
           \/ rx = Null /\ rx' = i /\ rsp' = rsp
  BY DEF Response, tta_receive, NoResponse
<1>2. wire' = {} /\ UNCHANGED <<req, kept, asked>>
  BY DEF Response, tta_receive
<1>3. i # Null /\ i \notin Held
  BY NullNoId DEF HeapExact
<1>4. /\ DOMAIN heap' = DOMAIN heap \cup {i}
      /\ \A j \in DOMAIN heap : heap'[j] = heap[j]
  BY <1>1 DEF New
<1>5. Pointers'
  BY <1>1, <1>2, <1>3 DEF Pointers, Distinct, Held
<1>6. HeapExact'
  BY <1>1, <1>2, <1>3, <1>4 DEF HeapExact, Held
<1>7. Alike'
  BY <1>2, <1>4 DEF Alike, HeapExact, Held
<1> QED
  BY <1>2, <1>5, <1>6, <1>7 DEF RepeatedAlike

\* The messages the applications free are not those the master still sends.
LEMMA FreeInv ==
  ASSUME Inv, MasterFree \/ \E len \in Lengths : tta_reply(len)
  PROVE  Inv'
<1> USE DEF Inv, HeapInv
<1>1. CASE MasterFree
  <2>1. req = Null /\ UNCHANGED <<req, rx, asked, wire>>
    BY <1>1 DEF MasterFree
  <2>2. \/ /\ rsp # Null /\ heap' = Free(heap, rsp) /\ rsp' = Null
           /\ kept' = kept
        \/ /\ kept # Null /\ heap' = Free(heap, kept) /\ kept' = Null
           /\ rsp' = rsp
    BY <1>1 DEF MasterFree
  <2>3. Pointers'
    BY <2>1, <2>2 DEF Pointers, Distinct
  <2>4. HeapExact'
    BY <2>1, <2>2 DEF Free, HeapExact, Held, Pointers, Distinct
  <2>5. Alike'
    BY <2>1, <2>2 DEF Free, Alike, HeapExact, Held, Pointers, Distinct
  <2> QED
    BY <2>1, <2>3, <2>4, <2>5 DEF RepeatedAlike
<1>2. CASE \E len \in Lengths : tta_reply(len)
  <2>1. PICK len \in Lengths : tta_reply(len)
    BY <1>2
  <2>2. /\ rx # Null /\ heap' = Free(heap, rx) /\ rx' = Null
        /\ UNCHANGED <<req, kept, rsp, asked>>
        /\ wire' = {Make(heap[rx].hd, TRUE, len)}
    BY <2>1 DEF tta_reply
  <2>3. Pointers'
    BY <2>2 DEF Pointers, Distinct
  <2>4. HeapExact'
    BY <2>2 DEF Free, HeapExact, Held, Pointers, Distinct
  <2>5. Alike'
    BY <2>2 DEF Free, Alike, HeapExact, Held, Pointers, Distinct
  <2> QED
    BY <2>2, <2>3, <2>4, <2>5 DEF RepeatedAlike, Make
<1> QED
  BY <1>1, <1>2

LEMMA AgainInv ==
  ASSUME Inv, Again \/ RequestEnds \/ ReceiveRefused \/ UNCHANGED msgVars
  PROVE  Inv'
<1> USE DEF Inv, HeapInv
<1>1. CASE Again
  <2>1. /\ req = Null /\ req' = kept /\ kept' = Null
        /\ UNCHANGED <<heap, rsp, rx, asked, wire>>
    BY <1>1 DEF Again
  <2> QED
    BY <2>1 DEF Pointers, Distinct, HeapExact, Held, Alike, RepeatedAlike
<1>2. CASE RequestEnds \/ ReceiveRefused
  BY <1>2 DEF RequestEnds, ReceiveRefused, Pointers, Distinct, HeapExact, Held, Alike,
              RepeatedAlike
<1>3. CASE UNCHANGED msgVars
  BY <1>3 DEF msgVars, Pointers, Distinct, HeapExact, Held, Alike, RepeatedAlike
<1> QED
  BY <1>1, <1>2, <1>3

LEMMA ResponseStep == NoResponse /\ [MsgNext]_msgVars => NoResponse'
  BY DEF NoResponse, MsgNext, msgVars, ttamsg_make, ttamsg_duplicate, RequestFails,
         RequestSent, Response, RequestEnds, Again, MasterFree, tta_receive,
         ReceiveRefused, tta_reply

LEMMA Inductive == Inv /\ NoResponse /\ [MsgNext]_msgVars => (Inv /\ NoResponse)'
  BY MakeInv, DuplicateInv, SendInv, TakeInv, FreeInv, AgainInv, ResponseStep DEF MsgNext

\* The messages that are allocated are those a pointer of one of the two
\* applications leads to: whichever calls fail, none leaks and no pointer is
\* left to a freed one.
THEOREM NoMessageLeaks == MsgSpec => []HeapExact
<1>1. Inv => HeapExact
  BY DEF Inv, HeapInv
<1> QED
  BY InitInv, Inductive, <1>1, PTL DEF MsgSpec

-----------------------------------------------------------------------------

LEMMA InitTold == MsgInit => Told
  BY DEF MsgInit, Told, Blank, ResponseWhole, NothingLonger

LEMMA MasterTold ==
  ASSUME Inv, Told,
         \/ \E hd \in Headers, len \in Lengths : ttamsg_make(hd, len)
         \/ ttamsg_duplicate \/ RequestFails \/ RequestSent
  PROVE  Told'
<1> USE DEF Inv, HeapInv, Told
<1>1. CASE \E hd \in Headers, len \in Lengths : ttamsg_make(hd, len)
  BY <1>1 DEF ttamsg_make, Make, ResponseWhole, NothingLonger
<1>2. CASE ttamsg_duplicate
  <2>1. PICK i \in Ids \ DOMAIN heap :
          kept' = i /\ heap' = New(heap, i, heap[req])
    BY <1>2 DEF ttamsg_duplicate
  <2>2. \A j \in DOMAIN heap : heap'[j] = heap[j]
    BY <2>1 DEF New
  <2>3. UNCHANGED <<rsp, rx, asked, gave, wire>>
    BY <1>2 DEF ttamsg_duplicate
  <2> QED
    BY <2>2, <2>3 DEF ResponseWhole, NothingLonger, HeapExact, Held
<1>3. CASE RequestFails \/ RequestSent
  <2>1. /\ req # Null /\ heap' = Free(heap, req)
        /\ wire' \in {wire, {heap[req]}}
        /\ UNCHANGED <<rsp, rx, asked, gave>>
    BY <1>3 DEF RequestFails, RequestSent
  <2>2. \A j \in DOMAIN heap : j # req => heap'[j] = heap[j]
    BY <2>1 DEF Free
  <2>3. rx # Null => heap'[rx] = heap[rx]
    BY <2>1, <2>2 DEF HeapExact, Held, Pointers, Distinct
  <2>4. rsp # Null => heap'[rsp] = heap[rsp]
    BY <2>1, <2>2 DEF HeapExact, Held, Pointers, Distinct
  <2>5. \A p \in wire' : p.reply => p \in wire
    BY <2>1 DEF Alike
  <2> QED
    BY <2>1, <2>3, <2>4, <2>5 DEF ResponseWhole, NothingLonger
<1> QED
  BY <1>1, <1>2, <1>3

LEMMA SlaveTold ==
  ASSUME Inv, NoResponse, Told,
         tta_receive \/ \E len \in Lengths : tta_reply(len)
  PROVE  Told'
<1> USE DEF Inv, HeapInv, Told
<1>1. CASE tta_receive
  <2>1. PICK p \in wire, i \in Ids \ DOMAIN heap :
          ~p.reply /\ Fits(p) /\ rx' = i /\ heap' = New(heap, i, p)
    BY <1>1 DEF tta_receive
  <2>2. heap'[i] = asked /\ \A j \in DOMAIN heap : heap'[j] = heap[j]
    BY <2>1 DEF New, RepeatedAlike
  <2>3. wire' = {} /\ UNCHANGED <<rsp, asked, gave>>
    BY <1>1 DEF tta_receive
  <2>4. rsp # Null => heap'[rsp] = heap[rsp]
    BY <2>2 DEF HeapExact, Held
  <2>5. Overhead + asked.datalen <= MaxAdu
    BY <2>1 DEF RepeatedAlike, Fits
  <2>6. NothingLonger'
    BY <2>1, <2>2, <2>3, <2>4, <2>5 DEF NothingLonger
  <2>7. ResponseWhole'
    BY <2>3, <2>4 DEF ResponseWhole
  <2> QED
    BY <2>1, <2>2, <2>3, <2>6, <2>7
<1>2. CASE \E len \in Lengths : tta_reply(len)
  <2>1. PICK len \in Lengths : tta_reply(len)
    BY <1>2
  <2>2. rsp = Null /\ rx' = Null /\ UNCHANGED <<rsp, asked>>
    BY <2>1 DEF tta_reply, NoResponse
  <2>3. gave' = [hd |-> asked.hd, reply |-> TRUE, datalen |-> len]
    BY <2>1 DEF tta_reply
  <2>4. len \in Nat /\ (len <= 255 => (len % 256) = len)
    BY MsgAssumption
  <2>5. wire' = {Make(asked.hd, TRUE, len)}
    BY <2>1 DEF tta_reply
  <2>6. gave'.datalen <= 255 => Make(asked.hd, TRUE, len) = gave'
    BY <2>3, <2>4 DEF Make
  <2>7. Make(asked.hd, TRUE, len).hd = asked.hd
    BY DEF Make
  <2> QED
    BY <2>2, <2>5, <2>6, <2>7 DEF ResponseWhole, NothingLonger
<1> QED
  BY <1>1, <1>2

LEMMA OtherTold ==
  ASSUME Inv, Told, \/ Response \/ RequestEnds \/ ReceiveRefused \/ Again
                    \/ MasterFree \/ UNCHANGED msgVars
  PROVE  Told'
<1> USE DEF Inv, HeapInv, Told
<1>1. CASE Response
  <2>1. PICK p \in wire, i \in Ids \ DOMAIN heap :
          p.reply /\ Fits(p) /\ rsp' = i /\ heap' = New(heap, i, p)
    BY <1>1 DEF Response
  <2>2. heap'[i] = p /\ \A j \in DOMAIN heap : heap'[j] = heap[j]
    BY <2>1 DEF New
  <2>3. wire' = {} /\ UNCHANGED <<rx, asked, gave>>
    BY <1>1 DEF Response
  <2>4. rx # Null => heap'[rx] = heap[rx]
    BY <2>2 DEF HeapExact, Held
  <2>5. Overhead + p.datalen <= MaxAdu
    BY <2>1 DEF Fits
  <2>6. NothingLonger'
    BY <2>1, <2>2, <2>3, <2>4, <2>5 DEF NothingLonger
  <2>7. /\ p.reply /\ p.hd = asked.hd
        /\ gave.datalen <= 255 => p = gave
    BY <2>1
  <2>8. heap'[rsp'] = p /\ asked' = asked /\ gave' = gave
    BY <2>1, <2>2, <2>3
  <2>9. ResponseWhole'
    BY <2>7, <2>8 DEF ResponseWhole
  <2> QED
    BY <2>3, <2>4, <2>6, <2>9
<1>2. CASE RequestEnds \/ ReceiveRefused \/ Again \/ UNCHANGED msgVars
  BY <1>2 DEF RequestEnds, ReceiveRefused, Again, msgVars, ResponseWhole,
              NothingLonger
<1>3. CASE MasterFree
  <2>1. UNCHANGED <<rx, asked, gave, wire>>
    BY <1>3 DEF MasterFree
  <2>2. \/ rsp # Null /\ heap' = Free(heap, rsp) /\ rsp' = Null
        \/ rsp = Null /\ kept # Null /\ heap' = Free(heap, kept) /\ rsp' = rsp
    BY <1>3 DEF MasterFree
  <2>3. rx # Null => heap'[rx] = heap[rx]
    BY <2>2 DEF Free, HeapExact, Held, Pointers, Distinct
  <2>4. rsp' = Null
    BY <2>2
  <2> QED
    BY <2>1, <2>3, <2>4 DEF ResponseWhole, NothingLonger
<1> QED
  BY <1>1, <1>2, <1>3

LEMMA ToldStep == Inv /\ NoResponse /\ Told /\ [MsgNext]_msgVars => Told'
  BY MasterTold, SlaveTold, OtherTold DEF MsgNext

\* However often a request is repeated, its packet says what was asked first;
\* the response the master gets is, whole, what the slave gave for it, if a byte
\* can tell its length; and neither side gets a message that is longer than its
\* backend's packets may be: for every backend and all lengths, those that are
\* refused and those that are cut among them.
THEOREM NothingAltered == MsgSpec => []SaidWhole
<1>1. Inv /\ Told => SaidWhole
  BY DEF Inv, Told, SaidWhole
<1> QED
  BY InitInv, InitTold, Inductive, ToldStep, <1>1, PTL DEF MsgSpec

-----------------------------------------------------------------------------
(* Descriptors.                                                            *)

FdTypes ==
  /\ backend \in {"tcp", "rs485", "rf"}
  /\ holder \in [Fd -> {"free", "ctx", "listen", "other"}]
  /\ s \in Fd \cup {-1} /\ ls \in Fd \cup {-1} /\ clients \subseteq Fd

\* A client has one descriptor, ctx->s, while it is connected; after a TCP
\* connect that has failed it may have a number that is not its own.
ClientOwns ==
  /\ ls = -1 /\ clients = {} /\ \A f \in Fd : holder[f] # "listen"
  /\ backend # "rf" => \A f \in Fd : holder[f] = "ctx" => up /\ f = s
  /\ up /\ s # -1 /\ (backend = "rs485" \/ (backend = "tcp" /\ ~refused)) =>
       holder[s] = "ctx"

\* A server knows its listener and its connections; until an accept fails they
\* are its own.
ServerOwns ==
  /\ backend = "tcp" /\ ~up
  /\ \A f \in Fd : /\ holder[f] = "ctx" => f \in clients
                   /\ holder[f] = "listen" => f = ls
  /\ ~refused => /\ \A f \in clients : holder[f] = "ctx"
                 /\ ls # -1 => holder[ls] = "listen"

FdInv == FdTypes /\ IF server THEN ServerOwns ELSE ClientOwns

\* open, socket and accept return a descriptor that is free.
LEMMA LowestFree ==
  ASSUME NEW own, NEW f \in Lowest(own)
  PROVE  f \in Fd /\ own[f] = "free"
  BY DEF Lowest

\* close frees one descriptor, at most.
LEMMA ClosedOne ==
  ASSUME NEW own \in [Fd -> {"free", "ctx", "listen", "other"}], NEW g
  PROVE  /\ Closed(own, g) \in [Fd -> {"free", "ctx", "listen", "other"}]
         /\ \A f \in Fd : Closed(own, g)[f] = IF f = g THEN "free" ELSE own[f]
  BY DEF Closed

LEMMA NoDescriptor == -1 \notin Fd
  BY FdAssumption DEF Fd

\* Connecting, by what the context had before.
LEMMA ConnectOwns ==
  ASSUME FdTypes, ~server, ls = -1, clients = {}, UNCHANGED <<roles, ls, clients>>,
         NEW own \in [Fd -> {"free", "ctx", "listen", "other"}],
         \A f \in Fd : own[f] # "listen",
         backend # "rf" => \A f \in Fd : own[f] # "ctx",
         \/ ConnectOk(own) /\ up'
         \/ ConnectFail(own)
  PROVE  FdInv'
<1> USE NoDescriptor DEF FdTypes
<1>1. ~server' /\ backend' = backend /\ ls' = -1 /\ clients' = {}
  BY DEF roles
<1>2. CASE ConnectOk(own) /\ up'
  <2>1. PICK f \in Lowest(own) : s' = f /\ holder' = [own EXCEPT ![f] = "ctx"]
    BY <1>2 DEF ConnectOk
  <2>2. f \in Fd
    BY LowestFree
  <2> QED
    BY <1>1, <1>2, <2>1, <2>2 DEF FdInv, ClientOwns
<1>3. CASE ConnectFail(own)
  <2>1. holder' = own /\ s' \in Fd \cup {-1} /\ refused'
    BY <1>3, LowestFree DEF ConnectFail
  <2>2. backend = "rs485" => s' = -1
    BY <1>3 DEF ConnectFail
  <2> QED
    BY <1>1, <2>1, <2>2 DEF FdInv, ClientOwns
<1> QED
  BY <1>2, <1>3

LEMMA ClientStep ==
  ASSUME FdInv, ~server, tta_connect \/ Recover \/ tta_close
  PROVE  FdInv'
<1> USE NoDescriptor DEF FdTypes, FdInv, ClientOwns
<1> DEFINE after == CloseBackend
<1>1. /\ after \in [Fd -> {"free", "ctx", "listen", "other"}]
      /\ \A f \in Fd : after[f] # "listen"
      /\ backend # "rf" => \A f \in Fd : after[f] # "ctx"
  BY ClosedOne DEF CloseBackend
<1>2. CASE tta_connect
  BY <1>2, ConnectOwns DEF tta_connect
<1>3. CASE Recover
  BY <1>1, <1>3, ConnectOwns DEF Recover
<1>4. CASE tta_close
  BY <1>1, <1>4 DEF tta_close, roles
<1> QED
  BY <1>2, <1>3, <1>4

LEMMA ServerStep ==
  ASSUME FdInv, server,
         \/ tta_tcp_listen \/ tta_tcp_accept \/ AcceptFailed \/ CloseListener
         \/ \E g \in clients : tta_set_socket(g) \/ CloseClient(g)
  PROVE  FdInv'
<1> USE NoDescriptor DEF FdTypes, FdInv, ServerOwns
<1>1. CASE tta_tcp_listen
  <2>1. PICK f \in Lowest(holder) :
          ls' = f /\ holder' = [holder EXCEPT ![f] = "listen"]
    BY <1>1 DEF tta_tcp_listen
  <2>2. f \in Fd /\ holder[f] = "free"
    BY LowestFree
  <2> QED
    BY <1>1, <2>1, <2>2 DEF tta_tcp_listen, roles
<1>2. CASE tta_tcp_accept
  <2>1. PICK f \in Lowest(holder) :
          /\ s' = f /\ holder' = [holder EXCEPT ![f] = "ctx"]
          /\ clients' = clients \cup {f}
    BY <1>2 DEF tta_tcp_accept
  <2>2. f \in Fd /\ holder[f] = "free"
    BY LowestFree
  <2> QED
    BY <1>2, <2>1, <2>2 DEF tta_tcp_accept, roles
<1>3. CASE AcceptFailed
  <2>1. 0 \in Fd
    BY FdAssumption DEF Fd
  <2> QED
    BY <1>3, <2>1, ClosedOne DEF AcceptFailed, roles
<1>4. CASE CloseListener
  BY <1>4, ClosedOne DEF CloseListener, roles
<1>5. ASSUME NEW g \in clients, tta_set_socket(g)
      PROVE  FdInv'
  BY <1>5 DEF tta_set_socket, roles
<1>6. ASSUME NEW g \in clients, CloseClient(g)
      PROVE  FdInv'
  BY <1>6, ClosedOne DEF CloseClient, roles
<1> QED
  BY <1>1, <1>2, <1>3, <1>4, <1>5, <1>6

LEMMA OtherStep ==
  ASSUME FdInv, OtherOpens \/ \E f \in Fd : OtherCloses(f)
  PROVE  FdInv'
<1>1. /\ UNCHANGED <<backend, server, s, up, refused, ls, clients>>
      /\ holder' \in [Fd -> {"free", "ctx", "listen", "other"}]
      /\ \A f \in Fd : \/ holder'[f] = holder[f]
                       \/ /\ holder[f] \in {"free", "other"}
                          /\ holder'[f] \in {"free", "other"}
  BY LowestFree, ClosedOne
     DEF OtherOpens, OtherCloses, roles, FdInv, FdTypes
<1> QED
  BY <1>1 DEF FdInv, FdTypes, ServerOwns, ClientOwns

LEMMA FdStep ==
  ASSUME FdInv, [FdNext]_fdVars
  PROVE  FdInv'
<1>1. CASE UNCHANGED fdVars
  BY <1>1 DEF fdVars, roles, FdInv, FdTypes, ServerOwns, ClientOwns
<1>2. CASE Library
  <2>1. CASE server
    <3>1. ~(tta_connect \/ Recover \/ tta_close)
      BY <2>1 DEF tta_connect, Recover, tta_close
    <3> QED
      BY <1>2, <2>1, <3>1, ServerStep DEF Library
  <2>2. CASE ~server
    <3>1. clients = {}
      BY <2>2 DEF FdInv, ClientOwns
    <3>2. ~(tta_tcp_listen \/ tta_tcp_accept \/ AcceptFailed \/ CloseListener)
      BY <2>2 DEF tta_tcp_listen, tta_tcp_accept, AcceptFailed, CloseListener
    <3> QED
      BY <1>2, <2>2, <3>1, <3>2, ClientStep DEF Library
  <2> QED
    BY <2>1, <2>2
<1> QED
  BY <1>1, <1>2, OtherStep DEF FdNext

LEMMA FdInitInv == FdInit => FdInv
<1> SUFFICES ASSUME FdInit PROVE FdInv
  OBVIOUS
<1>1. server => backend = "tcp"
  BY Zenon DEF FdInit
<1> QED
  BY <1>1, FdAssumption DEF FdInit, FdInv, FdTypes, ServerOwns, ClientOwns

\* Every descriptor the library opened is one its user still knows and can
\* close, for every sequence of connects, reconnections that fail at any step,
\* closes, listens and accepts, for any number of clients, and whatever the rest
\* of the process opens and closes.
THEOREM NoDescriptorLeaks == FdSpec => []NoLeak
<1>1. FdInv => NoLeak
  BY DEF FdInv, ServerOwns, ClientOwns, NoLeak
<1> QED
  BY FdInitInv, FdStep, <1>1, PTL DEF FdSpec

\* Until a TCP connect or accept fails the library closes no descriptor of the
\* rest of the process, and on a serial port and a radio never.
THEOREM NoOtherClosed == FdSpec => OthersKept
<1> DEFINE Taken == \E f \in Fd : holder[f] = "other" /\ holder'[f] # "other"
           Excused == (\E f \in Fd : OtherCloses(f)) \/ (backend = "tcp" /\ refused)
<1>1. FdInv /\ [FdNext]_fdVars => [Taken => Excused]_fdVars
  <2> SUFFICES ASSUME FdInv, FdNext,
                      ~(\E f \in Fd : OtherCloses(f)),
                      ~(backend = "tcp" /\ refused),
                      NEW f \in Fd, holder[f] = "other"
               PROVE  holder'[f] = "other"
    OBVIOUS
  <2> USE NoDescriptor DEF FdTypes, FdInv
  <2>1. CASE ~server /\ (tta_connect \/ Recover \/ tta_close)
    <3>1. up => CloseBackend[f] = "other"
      BY <2>1, ClosedOne DEF CloseBackend, ClientOwns
    <3>2. \A own \in [Fd -> {"free", "ctx", "listen", "other"}] :
            own[f] = "other" /\ (ConnectOk(own) \/ ConnectFail(own))
              => holder'[f] = "other"
      BY LowestFree DEF ConnectOk, ConnectFail
    <3>3. CloseBackend \in [Fd -> {"free", "ctx", "listen", "other"}]
      BY ClosedOne DEF CloseBackend
    <3> QED
      BY <2>1, <3>1, <3>2, <3>3 DEF tta_connect, Recover, tta_close
  <2>2. CASE server /\ (tta_tcp_listen \/ tta_tcp_accept)
    BY <2>2, LowestFree DEF tta_tcp_listen, tta_tcp_accept
  <2>3. CASE server /\ (AcceptFailed \/ CloseListener)
    BY <2>3, ClosedOne DEF AcceptFailed, CloseListener, ServerOwns
  <2>4. ASSUME server, NEW g \in clients, tta_set_socket(g) \/ CloseClient(g)
        PROVE  holder'[f] = "other"
    BY <2>4, ClosedOne DEF tta_set_socket, CloseClient, ServerOwns
  <2>5. CASE OtherOpens
    BY <2>5, LowestFree DEF OtherOpens
  <2>6. ~server => clients = {}
    BY DEF ClientOwns
  <2>7. /\ tta_connect \/ Recover \/ tta_close => ~server
        /\ tta_tcp_listen \/ tta_tcp_accept => server
        /\ AcceptFailed \/ CloseListener => server
    BY DEF tta_connect, Recover, tta_close, tta_tcp_listen, tta_tcp_accept,
           AcceptFailed, CloseListener
  <2> QED
    BY <2>1, <2>2, <2>3, <2>4, <2>5, <2>6, <2>7 DEF FdNext, Library
<1> QED
  BY FdInitInv, FdStep, <1>1, PTL DEF FdSpec, OthersKept

-----------------------------------------------------------------------------
(* Timeouts.                                                               *)

\* The time an application has set is what is left of it and what connecting
\* has used.
TimeTypes ==
  /\ wanted \in [sec : Nat, usec : 0..(Unit - 1)]
  /\ phase \in 0..(Unit - 1) /\ elapsed \in Nat /\ gap \in Nat
  /\ byte_timeout \in Int /\ response_timeout \in Nat /\ used \in Nat
  /\ response_timeout + used = Ticks(wanted)

\* When the RF backend last looked at the clock it was not too late.
LastLook == tpc = "rf" => gap <= RfGap /\ elapsed <= Ticks(wanted) + gap

\* A kind belongs to a wait that is over.
KindOver == kind # "none" => tpc = "over"

TimeInv == TimeTypes /\ LastLook /\ KindOver /\ OnTime

LEMMA UnitPositive == Unit \in Nat \ {0}
  BY TimeAssumption

LEMMA GapPositive == RfGap \in Nat \ {0}
  BY TimeAssumption

\* A clock that shows whole seconds and ticks.
LEMMA Clock ==
  ASSUME NEW t \in Nat, NEW u \in Nat \ {0}
  PROVE  /\ t \div u \in Nat /\ t % u \in 0..(u - 1)
         /\ t = (t \div u) * u + (t % u)
  OBVIOUS

\* More seconds are at least a second more.
LEMMA Seconds ==
  ASSUME NEW p \in Nat, NEW q \in Nat, p < q
  PROVE  p * Unit + Unit <= q * Unit
<1>1. q - p - 1 \in Nat
  OBVIOUS
<1>2. (q - p - 1) * Unit >= 0
  BY <1>1, UnitPositive
<1> QED
  BY <1>2, UnitPositive

\* The deadline of _tta_rf_receive, which does not carry.
LEMMA Deadline ==
  ASSUME TimeTypes
  PROVE  /\ Ticks(wanted) \in Nat
         /\ RfExpired => /\ elapsed + Unit > Ticks(wanted)
                         /\ phase + wanted.usec < Unit => elapsed >= Ticks(wanted)
         /\ ~RfExpired => elapsed <= Ticks(wanted)
<1> DEFINE now == phase + elapsed
           sec == now \div Unit
           usec == now % Unit
<1> USE UnitPositive
<1>1. /\ wanted.sec \in Nat /\ wanted.usec \in 0..(Unit - 1)
      /\ phase \in 0..(Unit - 1) /\ elapsed \in Nat /\ now \in Nat
  BY DEF TimeTypes
<1>2. sec \in Nat /\ usec \in 0..(Unit - 1) /\ now = sec * Unit + usec
  BY <1>1, Clock, UnitPositive
<1>3. /\ sec > wanted.sec => wanted.sec * Unit + Unit <= sec * Unit
      /\ sec < wanted.sec => sec * Unit + Unit <= wanted.sec * Unit
  BY <1>1, <1>2, Seconds
<1>4. RfExpired <=> sec > wanted.sec \/ (sec = wanted.sec /\ usec > phase + wanted.usec)
  BY DEF RfExpired
<1> DEFINE whole == wanted.sec * Unit
           mine == sec * Unit
<1>5. whole \in Nat /\ mine \in Nat /\ now = mine + usec
  BY <1>1, <1>2
<1>7. Ticks(wanted) = whole + wanted.usec
  BY DEF Ticks
<1>8. /\ sec > wanted.sec => whole + Unit <= mine
      /\ sec < wanted.sec => mine + Unit <= whole
      /\ sec = wanted.sec => mine = whole
  BY <1>1, <1>2, <1>3
<1>9. now = phase + elapsed
  OBVIOUS
<1> HIDE DEF now, sec, usec, whole, mine
<1>10. Ticks(wanted) \in Nat
  BY <1>1, <1>5, <1>7
<1>11. CASE sec > wanted.sec
  BY <1>1, <1>2, <1>4, <1>5, <1>7, <1>8, <1>9, <1>10, <1>11
<1>12. CASE sec < wanted.sec
  BY <1>1, <1>2, <1>4, <1>5, <1>7, <1>8, <1>9, <1>10, <1>12
<1>13. CASE sec = wanted.sec
  BY <1>1, <1>2, <1>4, <1>5, <1>7, <1>8, <1>9, <1>10, <1>13
<1> QED
  BY <1>1, <1>2, <1>11, <1>12, <1>13

LEMMA TimeTypesStep ==
  ASSUME TimeInv, [TimeNext]_timeVars
  PROVE  TimeTypes'
<1> USE UnitPositive DEF TimeInv, TimeTypes
<1>1. CASE UNCHANGED timeVars
  BY <1>1 DEF timeVars, settings
<1>2. ASSUME NEW tv \in Timeouts, tta_set_response_timeout(tv)
      PROVE  TimeTypes'
  <2>1. tv \in [sec : Nat, usec : 0..(Unit - 1)] /\ Ticks(tv) \in Nat
    BY TimeAssumption DEF Ticks
  <2> QED
    BY <1>2, <2>1 DEF tta_set_response_timeout
<1>3. ASSUME NEW t \in ByteTimes, tta_set_byte_timeout(t)
      PROVE  TimeTypes'
  <2>1. t \in Int
    BY TimeAssumption
  <2> QED
    BY <1>3, <2>1 DEF tta_set_byte_timeout
<1>4. CASE ConnectBegin \/ ReceiveBegin \/ RfBegin \/ ConnectAgain
  <2>1. UNCHANGED settings /\ phase' \in 0..(Unit - 1) /\ elapsed' = 0 /\ gap' = 0
    BY <1>4 DEF ConnectBegin, ReceiveBegin, RfBegin, ConnectAgain, Begin
  <2> QED
    BY <2>1 DEF settings
<1>5. CASE ConnectDone \/ ConnectTimeout
  <2>1. WrittenBack /\ (WaitReturns \/ GiveUp("connect"))
    BY <1>5 DEF ConnectDone, ConnectTimeout
  <2>2. 0 \in 0..(Unit - 1)
    OBVIOUS
  <2>3. phase' \in 0..(Unit - 1) /\ elapsed' \in Nat /\ gap' \in Nat
    <3>1. CASE WaitReturns
      BY <2>2, <3>1 DEF WaitReturns
    <3>2. CASE GiveUp("connect")
      BY <3>2 DEF GiveUp
    <3> QED
      BY <2>1, <3>1, <3>2
  <2>4. response_timeout - elapsed \in Nat
    BY <1>5 DEF ConnectDone, ConnectTimeout
  <2>5. /\ response_timeout' \in Nat /\ used' \in Nat /\ wanted' = wanted
        /\ response_timeout' + used' = response_timeout + used
        /\ byte_timeout' = byte_timeout
    BY <2>1, <2>4 DEF WrittenBack
  <2> QED
    BY <2>3, <2>5 DEF Ticks
<1>6. CASE \/ SelectTimeout \/ RfTimeout \/ RfSleep \/ WaitFailed
           \/ Received \/ SomeBytes
  <2>1. UNCHANGED settings
    BY <1>6 DEF SelectTimeout, RfTimeout, RfSleep, WaitFailed, Received, SomeBytes
  <2>2. 0 \in 0..(Unit - 1)
    OBVIOUS
  <2>3. phase' \in 0..(Unit - 1) /\ elapsed' \in Nat /\ gap' \in Nat
    <3>1. CASE WaitFailed \/ Received
      <4>1. WaitReturns
        BY <3>1 DEF WaitFailed, Received
      <4> QED
        BY <2>2, <4>1 DEF WaitReturns
    <3>2. CASE SelectTimeout \/ RfTimeout
      BY <3>2 DEF SelectTimeout, RfTimeout, GiveUp
    <3>3. CASE SomeBytes \/ RfSleep
      BY <3>3 DEF SomeBytes, RfSleep
    <3> QED
      BY <1>6, <3>1, <3>2, <3>3
  <2> QED
    BY <2>1, <2>3 DEF settings
<1>7. CASE Tick \/ Network
  BY <1>7 DEF Tick, Network, settings
<1> QED
  BY <1>1, <1>2, <1>3, <1>4, <1>5, <1>6, <1>7
     DEF TimeNext, Application, Code

\* What a step that does not touch the settings makes of the invariant.
LEMMA Unset ==
  ASSUME TimeInv, UNCHANGED settings
  PROVE  /\ Ticks(wanted)' = Ticks(wanted) /\ Ticks(wanted) \in Nat
         /\ UNCHANGED <<wanted, used, byte_timeout, response_timeout>>
         /\ elapsed \in Nat /\ gap \in Nat /\ used \in Nat /\ RfGap \in Nat
         /\ response_timeout \in Nat /\ byte_timeout \in Int
         /\ response_timeout + used = Ticks(wanted)
  BY Deadline, GapPositive DEF TimeInv, TimeTypes, settings, Ticks

LEMMA OnTimeStep ==
  ASSUME TimeInv, [TimeNext]_timeVars
  PROVE  (LastLook /\ KindOver /\ OnTime)'
<1> USE DEF TimeInv, LastLook, KindOver, OnTime, NotEarly, NotLate
<1>1. CASE UNCHANGED timeVars
  BY <1>1, Unset DEF timeVars
<1>2. CASE \/ \E tv \in Timeouts : tta_set_response_timeout(tv)
           \/ \E t \in ByteTimes : tta_set_byte_timeout(t)
  <2>1. tpc' = "idle" /\ kind' = kind /\ tpc = "idle"
    BY <1>2 DEF tta_set_response_timeout, tta_set_byte_timeout
  <2> QED
    BY <2>1
<1>3. CASE ConnectBegin \/ ReceiveBegin \/ RfBegin \/ ConnectAgain
  <2>1. /\ tpc' # "over" /\ elapsed' = 0 /\ gap' = 0 /\ kind' = "none"
        /\ UNCHANGED settings
    BY <1>3 DEF ConnectBegin, ReceiveBegin, RfBegin, ConnectAgain, Begin
  <2> QED
    BY <2>1, Unset
<1>4. CASE ConnectDone \/ ConnectTimeout
  BY <1>4 DEF ConnectDone, ConnectTimeout, WaitReturns, GiveUp
<1>5. CASE SelectTimeout
  <2>1. /\ UNCHANGED <<settings, elapsed, gap, phase>>
        /\ tpc' = "over" /\ kind' = tpc /\ tpc \in {"header", "data"}
        /\ tpc = "header" => elapsed = response_timeout
        /\ tpc = "data" /\ byte_timeout >= 0 => gap = byte_timeout
    BY <1>5, Unset DEF SelectTimeout, GiveUp
  <2> QED
    BY <2>1, Unset
<1>6. CASE RfTimeout
  <2>1. /\ UNCHANGED <<settings, elapsed, gap, phase>>
        /\ tpc' = "over" /\ kind' = "rf" /\ tpc = "rf" /\ RfExpired
    BY <1>6 DEF RfTimeout, Looks, GiveUp
  <2>2. /\ elapsed + Unit > Ticks(wanted)
        /\ phase + wanted.usec < Unit => elapsed >= Ticks(wanted)
    BY <2>1, Deadline
  <2>3. elapsed <= Ticks(wanted) + RfGap
    BY <2>1
  <2> QED
    BY <2>1, <2>2, <2>3, Unset
<1>7. CASE RfSleep
  <2>1. /\ UNCHANGED <<settings, elapsed, tpc, kind>>
        /\ gap' = 0 /\ tpc = "rf" /\ ~RfExpired
    BY <1>7 DEF RfSleep, Looks
  <2>2. elapsed <= Ticks(wanted)
    BY <2>1, Deadline
  <2> QED
    BY <2>1, <2>2, Unset
<1>8. CASE WaitFailed \/ Received \/ SomeBytes
  <2>1. tpc' \in {"idle", "data"} /\ kind' = "none"
    BY <1>8 DEF WaitFailed, Received, SomeBytes, WaitReturns
  <2> QED
    BY <2>1
<1>9. CASE Tick
  <2>1. /\ elapsed' = elapsed + 1 /\ gap' = gap + 1
        /\ UNCHANGED <<settings, tpc, phase, kind>>
        /\ tpc = "header" => elapsed < response_timeout
        /\ tpc = "rf" => gap < RfGap
        /\ tpc # "over"
    BY <1>9 DEF Tick, Waiting
  <2> QED
    BY <2>1, Unset
<1>10. CASE Network
  <2>1. UNCHANGED <<settings, tpc, phase, elapsed, gap, kind>>
    BY <1>10 DEF Network
  <2> QED
    BY <2>1, Unset
<1> QED
  BY <1>1, <1>2, <1>3, <1>4, <1>5, <1>6, <1>7, <1>8, <1>9, <1>10
     DEF TimeNext, Application, Code

\* A wait for a response ends no earlier than the application said, less what
\* connecting took of it, and no later, with the RF backend by no more than one
\* sleep between two looks: for all timeouts, all lengths of a second and of that
\* sleep, also where the deadline of the RF backend does not carry.
THEOREM WaitsAsLongAsSaid == TimeSpec => []OnTime
<1>1. TimeInit => TimeInv
  <2> SUFFICES ASSUME TimeInit PROVE TimeInv
    OBVIOUS
  <2>1. /\ wanted \in Timeouts /\ response_timeout = Ticks(wanted) /\ used = 0
        /\ byte_timeout \in ByteTimes
        /\ tpc = "idle" /\ phase = 0 /\ elapsed = 0 /\ gap = 0 /\ kind = "none"
    BY Zenon DEF TimeInit
  <2>2. /\ wanted \in [sec : Nat, usec : 0..(Unit - 1)]
        /\ byte_timeout \in Int
    BY <2>1, TimeAssumption
  <2>3. Ticks(wanted) \in Nat
    BY <2>2, UnitPositive DEF Ticks
  <2>4. TimeTypes
    BY <2>1, <2>2, <2>3, UnitPositive DEF TimeTypes
  <2> QED
    BY <2>1, <2>4 DEF TimeInv, LastLook, KindOver, OnTime, NotEarly, NotLate
<1>2. TimeInv /\ [TimeNext]_timeVars => TimeInv'
  BY TimeTypesStep, OnTimeStep DEF TimeInv
<1>3. TimeInv => OnTime
  BY DEF TimeInv
<1> QED
  BY <1>1, <1>2, <1>3, PTL DEF TimeSpec

=============================================================================
