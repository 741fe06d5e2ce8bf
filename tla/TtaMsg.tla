------------------------------- MODULE TtaMsg -------------------------------
(***************************************************************************)
(* Message objects: who owns them, and what becomes of their contents on   *)
(* the way from ttamsg_make in a master to the response it gets.           *)
(*                                                                         *)
(* conv_ttamsg2pkt frees the message it packs, so a message given to       *)
(* tta_send or tta_request is gone, whether the call succeeds or not; what *)
(* tta_receive and tta_request return is the caller's to free.  The master *)
(* keeps a duplicate in order to repeat a request that failed.             *)
(*                                                                         *)
(* Three limits bear on the length of the data: a message keeps it in one  *)
(* byte, a packet is built in a buffer of MAX_MESSAGE_LENGTH bytes, and a  *)
(* receiver takes no packet longer than its backend's max_adu_length.      *)
(***************************************************************************)
EXTENDS Naturals

CONSTANTS
  Headers,    \* [devid, subid, cmd] abstracted to values
  Lengths,    \* what the applications give as the length of their data
  Overhead,   \* header_length + checksum_length of the backend
  MaxAdu,     \* its max_adu_length
  Ids,        \* addresses malloc may return
  MaxTries    \* bound: how often a request is repeated

MAX_MESSAGE_LENGTH == 260

\* A packet longer than the buffer it is built in is undefined behaviour.
ASSUME MsgAssumption ==
  /\ Ids \subseteq Nat \ {0} /\ MaxTries \in Nat
  /\ Headers # {} /\ Lengths \subseteq Nat
  /\ {Overhead, MaxAdu} \subseteq Nat
  /\ \A len \in Lengths : Overhead + (len % 256) <= MAX_MESSAGE_LENGTH

Null == 0

\* A message is a record of its header hd, reply, the top bit of its cmd, and
\* datalen; the number of its bytes stands for them.

VARIABLES
  heap,    \* the messages that are allocated: a function from addresses
  req, kept, rsp,   \* the master's pointers; Null for none
  rx,      \* the slave's
  mpc,     \* the master: idle or wait
  asked,   \* the message the application made first
  gave,    \* what the slave's application gave tta_reply last
  tries,   \* how often it was asked
  wire     \* the packet on its way, a set of at most one

msgVars == <<heap, req, kept, rsp, rx, mpc, asked, gave, tries, wire>>

Held == {req, kept, rsp, rx} \ {Null}

\* No message yet.
Blank == [hd |-> CHOOSE h \in Headers : TRUE, reply |-> FALSE, datalen |-> 0]

MsgInit ==
  /\ heap = [i \in {} |-> Blank]
  /\ req = Null /\ kept = Null /\ rsp = Null /\ rx = Null
  /\ mpc = "idle" /\ asked = Blank /\ gave = Blank /\ tries = 0 /\ wire = {}

-----------------------------------------------------------------------------

Free(h, i) == [j \in DOMAIN h \ {i} |-> h[j]]

\* ttamsg_new and the assignments that follow it, at any free address.
New(h, i, msg) == [j \in DOMAIN h \cup {i} |-> IF j = i THEN msg ELSE h[j]]

\* A slip: a length of seven bits.
MutMake(hd, reply, len) ==
  [hd |-> hd, reply |-> reply, datalen |-> len % 128]

\* ttamsg_make takes the length as a uint8_t, tta_reply has it as an int.
Make(hd, reply, len) == [hd |-> hd, reply |-> reply, datalen |-> len % 256]

\* A slip: the size of the buffer taken for the limit.
MutFits(p) == Overhead + p.datalen <= MAX_MESSAGE_LENGTH

\* _tta_receive_pkt accepts the length the header announces.
Fits(p) == Overhead + p.datalen <= MaxAdu

\* The master's application makes a request and, if it means to repeat it, a
\* duplicate.  What it asks is what a uint8_t can say.
ttamsg_make(hd, len) ==
  /\ len <= 255
  /\ mpc = "idle" /\ wire = {} /\ rx = Null
  /\ req = Null /\ kept = Null /\ rsp = Null
  /\ \E i \in Ids \ DOMAIN heap :
       /\ req' = i
       /\ asked' = Make(hd, FALSE, len)
       /\ heap' = New(heap, i, asked')
  /\ tries' = 0
  /\ UNCHANGED <<kept, rsp, rx, mpc, gave, wire>>

\* A slip: the length alone is copied.
MutDuplicate ==
  /\ mpc = "idle" /\ req # Null /\ kept = Null
  /\ \E i \in Ids \ DOMAIN heap :
       /\ kept' = i
       /\ heap' = New(heap, i, [Blank EXCEPT !.datalen = heap[req].datalen])
  /\ UNCHANGED <<req, rsp, rx, mpc, asked, gave, tries, wire>>

ttamsg_duplicate ==
  /\ mpc = "idle" /\ req # Null /\ kept = Null
  /\ \E i \in Ids \ DOMAIN heap :
       kept' = i /\ heap' = New(heap, i, heap[req])
  /\ UNCHANGED <<req, rsp, rx, mpc, asked, gave, tries, wire>>

\* A slip: the message is freed when it was sent.
MutRequestFails ==
  /\ mpc = "idle" /\ req # Null /\ rsp = Null
  /\ req' = Null
  /\ UNCHANGED <<heap, kept, rsp, rx, mpc, asked, gave, tries, wire>>

\* tta_request: conv_ttamsg2pkt, which frees the message, then _send_pkt.
RequestFails ==
  /\ mpc = "idle" /\ req # Null /\ rsp = Null
  /\ heap' = Free(heap, req) /\ req' = Null
  /\ UNCHANGED <<kept, rsp, rx, mpc, asked, gave, tries, wire>>

RequestSent ==
  /\ mpc = "idle" /\ req # Null /\ rsp = Null
  /\ wire' = {heap[req]}
  /\ heap' = Free(heap, req) /\ req' = Null
  /\ mpc' = "wait"
  /\ UNCHANGED <<kept, rsp, rx, asked, gave, tries>>

\* The response comes: conv_pkt2ttamsg makes a message of it.
Response ==
  /\ mpc = "wait"
  /\ \E p \in wire :
       /\ p.reply /\ Fits(p)
       /\ \E i \in Ids \ DOMAIN heap : rsp' = i /\ heap' = New(heap, i, p)
  /\ wire' = {} /\ mpc' = "idle"
  /\ UNCHANGED <<req, kept, rx, asked, gave, tries>>

\* The packet is lost, late, refused for its length or by check_confirmation:
\* the receive fails.  (What a late packet does to the next request is the
\* subject of TtaTcpSession and SlaveBus; here it is gone.)
RequestEnds ==
  /\ mpc = "wait" /\ rx = Null
  /\ wire' = {} /\ mpc' = "idle"
  /\ UNCHANGED <<heap, req, kept, rsp, rx, asked, gave, tries>>

\* The application repeats the request with the duplicate.
Again ==
  /\ mpc = "idle" /\ req = Null /\ kept # Null /\ rsp = Null /\ tries < MaxTries
  /\ req' = kept /\ kept' = Null
  /\ tries' = tries + 1
  /\ UNCHANGED <<heap, rsp, rx, mpc, asked, gave, wire>>

\* ttamsg_free, of what the master still has.
MasterFree ==
  /\ mpc = "idle" /\ req = Null
  /\ \/ rsp # Null /\ heap' = Free(heap, rsp) /\ rsp' = Null /\ UNCHANGED kept
     \/ rsp = Null /\ kept # Null
        /\ heap' = Free(heap, kept) /\ kept' = Null /\ UNCHANGED rsp
  /\ UNCHANGED <<req, rx, mpc, asked, gave, tries, wire>>

\* The slave's tta_receive.
tta_receive ==
  /\ rx = Null
  /\ \E p \in wire :
       /\ ~p.reply /\ Fits(p)
       /\ \E i \in Ids \ DOMAIN heap : rx' = i /\ heap' = New(heap, i, p)
  /\ wire' = {}
  /\ UNCHANGED <<req, kept, rsp, mpc, asked, gave, tries>>

\* It refuses the packet; what that leaves on the line is TtaReceive's subject.
ReceiveRefused ==
  /\ rx = Null
  /\ \E p \in wire : ~p.reply /\ ~Fits(p)
  /\ wire' = {}
  /\ UNCHANGED <<heap, req, kept, rsp, rx, mpc, asked, gave, tries>>

\* tta_reply makes a message of the request's header and sends it, which frees
\* it; the request stays with the application, which frees it now.
tta_reply(len) ==
  /\ rx # Null /\ mpc = "wait" /\ wire = {}
  /\ gave' = [hd |-> heap[rx].hd, reply |-> TRUE, datalen |-> len]
  /\ wire' = {Make(heap[rx].hd, TRUE, len)}
  /\ heap' = Free(heap, rx) /\ rx' = Null
  /\ UNCHANGED <<req, kept, rsp, mpc, asked, tries>>

MsgNext ==
  \/ \E hd \in Headers, len \in Lengths : ttamsg_make(hd, len)
  \/ ttamsg_duplicate \/ RequestFails \/ RequestSent \/ Response \/ RequestEnds
  \/ Again \/ MasterFree
  \/ tta_receive \/ ReceiveRefused \/ \E len \in Lengths : tta_reply(len)

MsgSpec == MsgInit /\ [][MsgNext]_msgVars

-----------------------------------------------------------------------------

\* The allocated messages are those that somebody holds: none leaks, whichever
\* calls fail, and no pointer is left to a freed one.
HeapExact == DOMAIN heap = Held

\* The request that goes out is what was asked first, however often it is
\* repeated.
RepeatedAlike == \A p \in wire : ~p.reply => p = asked

\* The response has the header of the request and says what the slave gave,
\* if a byte can tell its length.
ResponseWhole ==
  rsp # Null => /\ heap[rsp].hd = asked.hd /\ heap[rsp].reply
                /\ gave.datalen <= 255 => heap[rsp] = gave

\* Neither application gets more than its backend's packets hold.
NothingLonger ==
  \A i \in {rsp, rx} \ {Null} : Overhead + heap[i].datalen <= MaxAdu

\* Whatever is duplicated, packed, freed, unpacked and repeated on the way, the
\* other side's application gets what was meant for it, whole, or nothing: a
\* message too long for a packet of the backend is refused, not cut.  A length
\* above 255 given to tta_reply is not covered: that one is cut.
SaidWhole == RepeatedAlike /\ ResponseWhole /\ NothingLonger

=============================================================================
