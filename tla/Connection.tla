------------------------------ MODULE Connection ------------------------------
(***************************************************************************)
(* One client and the bridge at the two ends of a TCP connection: the      *)
(* state machine of tds/connection.py, the tunnel it drives (tds/tls.py),  *)
(* the framing under it (tds/packet.py) and the thread that moves its      *)
(* bytes (_Handler of server.py).                                          *)
(*                                                                         *)
(* What travels is a sequence of packets.  A packet is named by what its   *)
(* message is for, with the two things the bridge reads off it before that:*)
(* whether it is a TLS record, and whether it ends its message.  One read  *)
(* takes any number of the packets that have arrived, and a packet that    *)
(* arrived in part is one that has not arrived, since both reassemble and  *)
(* the tunnel leave it where it is.                                        *)
(*                                                                         *)
(* The client follows the protocol, waiting where a driver waits, until it *)
(* strays.  What a request does to the session is in Session and BatchExec;*)
(* here it is answered, or fails the connection.                           *)
(***************************************************************************)
EXTENDS Integers, Sequences

CONSTANTS
    MaxRequests,    \* bounds of the model: requests of one client,
    MaxStrays,      \*   packets out of place,
    MaxUnread       \*   and packets sent and not read yet

ASSUME ConnectionAssumption ==
    /\ MaxRequests \in Nat /\ MaxStrays \in Nat /\ MaxUnread \in Nat \ {0}

(* "part" and "flight" are the pieces of a TLS flight, framed as PRELOGIN; *)
(* "request" is a SQL batch or an RPC, "other" a type or a payload nothing *)
(* reads.                                                                  *)
Requests == {"request", "transaction", "attention"}
Kinds == {"prelogin", "part", "flight", "login7", "sspi", "other"} \cup Requests

Packet == [kind : Kinds, tls : BOOLEAN, last : BOOLEAN, of : Nat]
Response == [kind : {"prelogin", "handshake", "sspi", "login", "refusal",
                     "answer"},
             tls : BOOLEAN, of : Nat]

States == {"EXPECT_PRELOGIN", "TLS_HANDSHAKE", "EXPECT_LOGIN", "EXPECT_SSPI",
           "READY", "FAILED"}

(* Why a connection failed.  The first is not the client's doing: it spoke *)
(* out of turn or in the wrong wrapping.                                   *)
Reasons == {"protocol", "handshake", "authentication", "refused", "unreadable",
            "handler"}

VARIABLES
    policy,         \* _encryption, what the bridge was started with
    state,          \* _state
    encrypted,      \* _session_encrypted
    tunnel,         \* _tunnel, and how far its handshake is
    buffer,         \* _buffer
    plaintext,      \* _plaintext
    stamped,        \* whether _spid is set
    responses,      \* what receive() has queued
    thread,         \* the client's thread in _Handler.handle
    why,            \* history: why the connection failed
    wire,           \* packets the client sent and the bridge has not read
    downstream,     \* what the bridge sent and the client has not read
    place,          \* where the client is in the protocol
    auth,           \* whether it uses a password or Windows
    wants,          \* the encryption it asks for
    asked,          \* how many requests it has sent
    heard,          \* the requests it was answered, in order
    attentive,      \* whether it is waiting out a cancellation
    trailed,        \* whether it sent a last authentication leg
    strays          \* how many packets it sent out of place

server == <<policy, state, encrypted, tunnel, buffer, plaintext, stamped,
            responses, thread, why>>
client == <<place, auth, wants, asked, heard, attentive, trailed, strays>>
vars   == <<server, wire, downstream, client>>

Tunnels == {"none", "hello", "finish", "established"}
Places == {"opening", "prelogin", "hello", "helloed", "finish", "finished",
           "login", "admission", "token", "in", "out"}

TypeOK ==
    /\ policy \in {"OFF", "REQUIRED"} /\ wants \in {"OFF", "ON"}
    /\ state \in States /\ encrypted \in BOOLEAN /\ tunnel \in Tunnels
    /\ buffer \in Seq(Packet) /\ plaintext \in Seq(Packet)
    /\ stamped \in BOOLEAN
    /\ responses \in Seq(Response)
    /\ thread \in {"reading", "stepping", "ended"}
    /\ why \in Reasons \cup {"none"}
    /\ wire \in Seq(Packet) /\ downstream \in Seq(Response)
    /\ place \in Places /\ auth \in {"password", "windows"}
    /\ asked \in Nat /\ heard \in Seq(Nat)
    /\ attentive \in BOOLEAN /\ trailed \in BOOLEAN /\ strays \in Nat

Init ==
    /\ policy \in {"OFF", "REQUIRED"}
    /\ state = "EXPECT_PRELOGIN" /\ encrypted = FALSE /\ tunnel = "none"
    /\ buffer = <<>> /\ plaintext = <<>> /\ stamped = FALSE
    /\ responses = <<>> /\ thread = "reading" /\ why = "none"
    /\ wire = <<>> /\ downstream = <<>>
    /\ place = "opening" /\ auth \in {"password", "windows"}
    /\ wants \in {"OFF", "ON"}
    /\ asked = 0 /\ heard = <<>>
    /\ attentive = FALSE /\ trailed = FALSE /\ strays = 0

Conforming == strays = 0

-------------------------------------------------------------------------------
(* Framing.  A message is whole when a packet that ends one has arrived.   *)
(* Its kind is its first packet's.                                         *)

Ends(stream) == {i \in DOMAIN stream : stream[i].last}
Whole(stream) == Ends(stream) # {}
FirstEnd(stream) == CHOOSE i \in Ends(stream) : \A j \in Ends(stream) : i <= j

(* What reassemble walks before it returns: the first message, or all that *)
(* is there.  A TLS record among it is an unknown packet type.             *)
Walked(stream) == IF Whole(stream) THEN 1..FirstEnd(stream) ELSE DOMAIN stream
Garbled(stream) == \E i \in Walked(stream) : stream[i].tls

Message(stream) == stream[1]
(* The slip of counting a packet too many as consumed.                     *)
AfterOneMore(stream) ==
    SubSeq(stream, FirstEnd(stream) + 2, Len(stream))
After(stream) == SubSeq(stream, FirstEnd(stream) + 1, Len(stream))

Decrypted(stream) ==
    [i \in DOMAIN stream |-> [stream[i] EXCEPT !.tls = FALSE]]
Undecipherable(stream) == \E i \in DOMAIN stream : ~stream[i].tls

-------------------------------------------------------------------------------
(* The bridge.  Each step of receive's loop is one action.                 *)

Says(kind, tls, of) == [kind |-> kind, tls |-> tls, of |-> of]

(* The slip of writing straight to the socket.                             *)
QueuedPlain(kind, of) == Append(responses, Says(kind, FALSE, of))
(* A queued response, encrypted when the session is.                       *)
Queued(kind, of) == Append(responses, Says(kind, encrypted, of))

(* What an exception in receive does: what was queued is never sent, and   *)
(* the thread that called closes the socket.                               *)
Raises(reason) ==
    /\ state' = "FAILED" /\ why' = reason
    /\ responses' = <<>> /\ thread' = "ended"
    /\ UNCHANGED <<policy, encrypted, tunnel, buffer, plaintext, stamped>>

Stays == UNCHANGED <<policy, thread, why>>

Stepping == thread = "stepping" /\ UNCHANGED <<wire, downstream, client>>

Negotiated == IF policy = "REQUIRED" \/ wants = "ON" THEN "ON" ELSE "OFF"

StepPrelogin ==
    /\ Stepping /\ state = "EXPECT_PRELOGIN"
    /\ \/ Garbled(buffer) /\ Raises("protocol")
       \/ /\ Whole(buffer) /\ ~Garbled(buffer)
          /\ Message(buffer).kind # "prelogin"
          /\ Raises("protocol")
       \/ /\ Whole(buffer) /\ ~Garbled(buffer)
          /\ Message(buffer).kind = "prelogin"
          /\ encrypted' = (Negotiated = "ON")
          /\ responses' = Append(responses, Says("prelogin", FALSE, 0))
          /\ buffer' = After(buffer)
          /\ tunnel' = "hello" /\ state' = "TLS_HANDSHAKE"
          /\ Stays /\ UNCHANGED <<plaintext, stamped>>

(* The tunnel takes the payload of any message; what is not the flight it  *)
(* waits for fails the handshake, and so may a flight it is.               *)
StepHandshake ==
    /\ Stepping /\ state = "TLS_HANDSHAKE"
    /\ \/ Garbled(buffer) /\ Raises("protocol")
       \/ /\ Whole(buffer) /\ ~Garbled(buffer)
          /\ Message(buffer).kind \notin {"part", "flight"}
          /\ Raises("protocol")
       \/ /\ Whole(buffer) /\ ~Garbled(buffer)
          /\ Message(buffer).kind \in {"part", "flight"}
          /\ \/ Raises("handshake")
             \/ /\ buffer' = After(buffer)
                /\ IF Message(buffer).kind = "part"
                   THEN UNCHANGED <<responses, tunnel, state>>
                   ELSE /\ responses' =
                             Append(responses, Says("handshake", FALSE, 0))
                        /\ tunnel' = IF tunnel = "hello" THEN "finish"
                                     ELSE "established"
                        /\ state' = IF tunnel = "hello" THEN state
                                    ELSE "EXPECT_LOGIN"
                /\ Stays /\ UNCHANGED <<encrypted, plaintext, stamped>>

(* _finish_login, after whatever was queued before it.                     *)
Admits ==
    /\ stamped' = TRUE /\ state' = "READY"
    /\ responses' = Queued("login", 0)
    /\ UNCHANGED why

(* A username and a password.  Who may connect is the LoginStore's to say. *)
AnswerSqlLogin ==
    \/ Admits
    \/ /\ responses' = Queued("refusal", 0)
       /\ state' = "FAILED" /\ why' = "refused"
       /\ UNCHANGED stamped

(* One leg of the exchange Windows runs.  A token that comes with the      *)
(* verdict is not sent on.                                                 *)
AcceptorSteps ==
    \/ Admits
    \/ /\ responses' = Queued("sspi", 0)
       /\ state' = "EXPECT_SSPI"
       /\ UNCHANGED <<stamped, why>>

(* The whole buffer goes through the tunnel, and a login is taken from     *)
(* what came out of it.  Deciding on it may raise: Windows refusing the    *)
(* token, or a password that is not ASCII compared with one configured as  *)
(* text (hmac.compare_digest in Login.admits).                             *)
StepLogin ==
    /\ Stepping /\ state = "EXPECT_LOGIN"
    /\ IF Undecipherable(buffer) THEN Raises("protocol")
       ELSE LET plain == plaintext \o Decrypted(buffer) IN
            \/ /\ ~Whole(plain) /\ buffer # <<>>
               /\ plaintext' = plain /\ buffer' = <<>>
               /\ Stays
               /\ UNCHANGED <<state, encrypted, tunnel, stamped, responses>>
            \/ /\ Whole(plain) /\ Message(plain).kind # "login7"
               /\ Raises("protocol")
            \/ /\ Whole(plain) /\ Message(plain).kind = "login7"
               /\ \/ Raises("authentication")
                  \/ /\ plaintext' = After(plain) /\ buffer' = <<>>
                     /\ IF auth = "password" THEN AnswerSqlLogin
                        ELSE AcceptorSteps
                     /\ UNCHANGED <<policy, thread, encrypted, tunnel>>

(* Once the login is through, messages come encrypted if the session is,   *)
(* and in the clear otherwise.                                             *)
Stream == IF encrypted THEN plaintext \o Decrypted(buffer) ELSE buffer
Unread == IF encrypted THEN Undecipherable(buffer) ELSE Garbled(buffer)
(* The slip of decrypting what was decrypted already.                      *)
LeavesTheBuffer(rest) ==
    IF encrypted THEN plaintext' = rest /\ UNCHANGED buffer
    ELSE buffer' = rest /\ UNCHANGED plaintext
Leaves(rest) == IF encrypted THEN plaintext' = rest /\ buffer' = <<>>
                ELSE buffer' = rest /\ UNCHANGED plaintext

(* The slip of clearing what followed the message in the same read.        *)
TakeMessageOnly == ~Unread /\ Whole(Stream) /\ Leaves(<<>>)
TakeMessage == ~Unread /\ Whole(Stream) /\ Leaves(After(Stream))

StepSspi ==
    /\ Stepping /\ state = "EXPECT_SSPI"
    /\ \/ Unread /\ Raises("protocol")
       \/ /\ ~Unread /\ Whole(Stream) /\ Message(Stream).kind # "sspi"
          /\ Raises("protocol")
       \/ /\ ~Unread /\ Whole(Stream) /\ Message(Stream).kind = "sspi"
          /\ Raises("authentication")
       \/ /\ TakeMessage /\ Message(Stream).kind = "sspi"
          /\ AcceptorSteps
          /\ UNCHANGED <<policy, thread, encrypted, tunnel>>

(* The slip of taking a last leg for a message out of turn.                *)
PassesNothingOver(kind) == FALSE
PassesOver(kind) == kind = "sspi"

(* A request is answered, with its result or with its error; one whose     *)
(* parameters are of a type nothing reads, and a transaction request whose *)
(* statement fails in a way no error describes, fail the connection.  A    *)
(* last authentication leg is passed over.                                 *)
StepQuery ==
    /\ Stepping /\ state = "READY"
    /\ \/ Unread /\ Raises("protocol")
       \/ /\ ~Unread /\ Whole(Stream)
          /\ Message(Stream).kind \notin Requests
          /\ ~PassesOver(Message(Stream).kind)
          /\ Raises("protocol")
       \/ /\ ~Unread /\ Whole(Stream) /\ Message(Stream).kind = "request"
          /\ Raises("unreadable")
       \/ /\ ~Unread /\ Whole(Stream) /\ Message(Stream).kind = "transaction"
          /\ Raises("handler")
       \/ /\ TakeMessage /\ PassesOver(Message(Stream).kind)
          /\ Stays /\ UNCHANGED <<state, encrypted, tunnel, stamped, responses>>
       \/ /\ TakeMessage /\ Message(Stream).kind \in Requests
          /\ responses' = Queued("answer", Message(Stream).of)
          /\ Stays /\ UNCHANGED <<state, encrypted, tunnel, stamped>>

(* No step moves: what was queued is sent and the thread reads again.  A   *)
(* refused connection sends its refusal and looks at nothing behind it.    *)
(* Writing to a client that went away may raise.                           *)
Settled ==
    CASE state \in {"EXPECT_PRELOGIN", "TLS_HANDSHAKE"} ->
             /\ ~Whole(buffer) /\ ~Garbled(buffer)
             /\ UNCHANGED <<buffer, plaintext>>
      [] state = "EXPECT_LOGIN" ->
             /\ buffer = <<>> /\ ~Whole(plaintext)
             /\ UNCHANGED <<buffer, plaintext>>
      [] state \in {"EXPECT_SSPI", "READY"} ->
             ~Unread /\ ~Whole(Stream) /\ Leaves(Stream)
      [] state = "FAILED" ->
             UNCHANGED <<buffer, plaintext>>

Answers ==
    /\ thread = "stepping" /\ Settled
    /\ downstream' = downstream \o responses
    /\ responses' = <<>>
    /\ thread' \in {"reading"} \cup (IF place = "out" THEN {"ended"} ELSE {})
    /\ UNCHANGED <<policy, state, encrypted, tunnel, stamped, why, wire, client>>

(* A read takes some of what has arrived.  On a failed connection it is    *)
(* the end of it.                                                          *)
Receive ==
    /\ thread = "reading" /\ wire # <<>>
    /\ \E n \in 1..Len(wire) :
           /\ wire' = SubSeq(wire, n + 1, Len(wire))
           /\ IF state = "FAILED"
              THEN thread' = "ended" /\ UNCHANGED buffer
              ELSE /\ thread' = "stepping"
                   /\ buffer' = buffer \o SubSeq(wire, 1, n)
    /\ UNCHANGED <<policy, state, encrypted, tunnel, plaintext, stamped,
                   responses, why, downstream, client>>

(* The client closed its end, or said nothing for as long as it may: half  *)
(* a minute, and once it is logged in an hour.                             *)
Closes ==
    /\ thread = "reading" /\ wire = <<>>
    /\ thread' = "ended"
    /\ UNCHANGED <<policy, state, encrypted, tunnel, buffer, plaintext, stamped,
                   responses, why, wire, downstream, client>>

-------------------------------------------------------------------------------
(* The client.                                                             *)

Sends(packets) ==
    /\ thread # "ended" /\ Len(wire) + Len(packets) <= MaxUnread
    /\ wire' = wire \o packets
    /\ UNCHANGED <<server, downstream, auth, wants, heard, strays>>

Bytes(kind, tls, last, of) ==
    [kind |-> kind, tls |-> tls, last |-> last, of |-> of]

(* A message as one packet or as two.                                      *)
Packets(kind, tls, of) ==
    {<<Bytes(kind, tls, TRUE, of)>>,
     <<Bytes(kind, tls, FALSE, of), Bytes(kind, tls, TRUE, of)>>}

(* The encryption both ends agreed on, as the client read it.              *)
Covered == Negotiated = "ON"

Opens ==
    /\ place = "opening" /\ place' = "prelogin"
    /\ Sends(<<Bytes("prelogin", FALSE, TRUE, 0)>>)
    /\ UNCHANGED <<asked, attentive, trailed>>

(* A flight of the handshake, in one message or in several.                *)
Shakes ==
    /\ place \in {"hello", "finish"}
    /\ place' = IF place = "hello" THEN "helloed" ELSE "finished"
    /\ \/ Sends(<<Bytes("flight", FALSE, TRUE, 0)>>)
       \/ Sends(<<Bytes("part", FALSE, TRUE, 0), Bytes("flight", FALSE, TRUE, 0)>>)
    /\ UNCHANGED <<asked, attentive, trailed>>

LogsIn ==
    /\ place = "login" /\ place' = "admission"
    /\ \E packets \in Packets("login7", TRUE, 0) : Sends(packets)
    /\ UNCHANGED <<asked, attentive, trailed>>

SendsToken ==
    /\ place = "token" /\ place' = "admission"
    /\ Sends(<<Bytes("sspi", Covered, TRUE, 0)>>)
    /\ UNCHANGED <<asked, attentive, trailed>>

(* The last leg SPNEGO lets a client send once it has been accepted.       *)
Trails ==
    /\ place = "in" /\ auth = "windows" /\ asked = 0 /\ ~trailed
    /\ trailed' = TRUE
    /\ Sends(<<Bytes("sspi", Covered, TRUE, 0)>>)
    /\ UNCHANGED <<place, asked, attentive>>

Asks ==
    /\ place = "in" /\ asked = Len(heard) /\ asked < MaxRequests
    /\ asked' = asked + 1
    /\ \E kind \in Requests \ {"attention"} :
           \E packets \in Packets(kind, Covered, asked') : Sends(packets)
    /\ UNCHANGED <<place, attentive, trailed>>

(* A cancellation of the request that is out, whatever became of it.       *)
Cancels ==
    /\ place = "in" /\ asked = Len(heard) + 1 /\ ~attentive
    /\ asked < MaxRequests
    /\ asked' = asked + 1 /\ attentive' = TRUE
    /\ Sends(<<Bytes("attention", Covered, TRUE, asked')>>)
    /\ UNCHANGED <<place, trailed>>

(* What the client makes of the next thing the bridge said.                *)
Moves(kind) ==
    CASE kind = "prelogin" /\ place = "prelogin" -> "hello"
      [] kind = "handshake" /\ place = "helloed" -> "finish"
      [] kind = "handshake" /\ place = "finished" -> "login"
      [] kind = "sspi" /\ place = "admission" -> "token"
      [] kind = "login" /\ place = "admission" -> "in"
      [] kind = "refusal" -> "out"
      [] OTHER -> place

Hears ==
    /\ downstream # <<>> /\ place # "out"
    /\ LET said == Head(downstream) IN
          /\ place' = Moves(said.kind)
          /\ heard' = IF said.kind = "answer" THEN Append(heard, said.of)
                      ELSE heard
          /\ attentive' = (attentive /\ Len(heard') < asked)
    /\ downstream' = Tail(downstream)
    /\ UNCHANGED <<server, wire, auth, wants, asked, trailed, strays>>

(* A packet out of place.                                                  *)
Strays ==
    /\ place # "out" /\ strays < MaxStrays
    /\ thread # "ended" /\ Len(wire) < MaxUnread
    /\ strays' = strays + 1
    /\ \E kind \in Kinds, tls \in BOOLEAN, last \in BOOLEAN :
          /\ kind \in Requests => asked < MaxRequests
          /\ asked' = IF kind \in Requests THEN asked + 1 ELSE asked
          /\ wire' = Append(wire, Bytes(kind, tls, last,
                                IF kind \in Requests THEN asked' ELSE 0))
    /\ UNCHANGED <<server, downstream, place, auth, wants, heard, attentive,
                   trailed>>

GoesAway ==
    /\ place # "out" /\ place' = "out"
    /\ UNCHANGED <<server, wire, downstream, auth, wants, asked, heard,
                   attentive, trailed, strays>>

-------------------------------------------------------------------------------
Bridge == \/ StepPrelogin \/ StepHandshake \/ StepLogin \/ StepSspi
          \/ StepQuery \/ Answers \/ Receive \/ Closes

Client == \/ Opens \/ Shakes \/ LogsIn \/ SendsToken \/ Trails \/ Asks
          \/ Cancels \/ Hears \/ Strays \/ GoesAway

Next == Bridge \/ Client

Spec == Init /\ [][Next]_vars

(* The thread runs, and so does the client's.  Neither has to send,        *)
(* to go away or to be closed on.                                          *)
FairSpec ==
    /\ Spec
    /\ WF_vars(StepPrelogin \/ StepHandshake \/ StepLogin \/ StepSspi \/ StepQuery)
    /\ WF_vars(Answers) /\ WF_vars(Receive) /\ WF_vars(Hears)

-------------------------------------------------------------------------------
(* What the client is waiting to be told.                                  *)
Awaits ==
    \/ place \in {"prelogin", "helloed", "finished", "admission"}
    \/ asked > Len(heard)

(* The bridge never waits for the client while the client, having followed *)
(* the protocol, waits for the bridge: nothing it sent is left in a buffer *)
(* the next read does not look in (_take_message, _step_login).            *)
NeverBothWaiting ==
    Conforming /\ thread = "reading" /\ wire = <<>> /\ downstream = <<>>
        => ~Awaits \/ place = "out"

(* What the client was answered and what is on its way to it, each answer  *)
(* with its turn.                                                          *)
Coming == downstream \o responses
Told ==
    {[turn |-> i, of |-> heard[i]] : i \in DOMAIN heard} \cup
    {[turn |-> Len(heard) + i, of |-> Coming[i].of] :
        i \in {i \in DOMAIN Coming : Coming[i].kind = "answer"}}

(* Requests are answered in the order they were sent, each once; where the *)
(* client followed the protocol none is passed over.  A read may hold many *)
(* messages, and an error throws away what was queued (receive).           *)
AnswersInOrder ==
    /\ \A a, b \in Told : a.turn < b.turn => a.of < b.of
    /\ \A a \in Told : a.of \in 1..asked
    /\ Conforming =>
          \A a \in Told : \A n \in 1..a.of : \E b \in Told : b.of = n

(* A client that follows the protocol is never failed for a message out of *)
(* turn or for bytes that cannot be read, however its packets fell into    *)
(* reads; and where a login was refused it is told (_answer_sql_login).    *)
NotCutOff ==
    Conforming =>
    /\ why # "protocol"
    /\ why = "refused" /\ thread # "stepping" =>
          place = "out" \/ \E i \in DOMAIN downstream : downstream[i].kind = "refusal"

(* Everything sent from the login on is encrypted where encryption was     *)
(* agreed and nowhere else, an acknowledged cancellation as much as an     *)
(* answer: a client does not read what comes in the other wrapping (_send).*)
ReadableByTheClient ==
    \A i \in DOMAIN downstream :
        downstream[i].tls =
            (Covered /\ downstream[i].kind \notin {"prelogin", "handshake"})

(* A client that waits for the bridge is told, or the connection fails, or *)
(* it goes away.                                                           *)
EveryWaitEnds ==
    (Conforming /\ Awaits) ~>
        (~Awaits \/ ~Conforming \/ state = "FAILED" \/ place = "out")

===============================================================================
