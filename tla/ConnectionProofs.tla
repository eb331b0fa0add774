--------------------------- MODULE ConnectionProofs ---------------------------
(***************************************************************************)
(* What holds of Connection for every number of requests, strays and       *)
(* unread packets.                                                         *)
(***************************************************************************)
EXTENDS Connection, WellFoundedInduction, NaturalsInduction, SequenceTheorems,
        TLAPS

-------------------------------------------------------------------------------
(* Framing keeps to packets.                                               *)

LEMMA SuffixIsASequence ==
    ASSUME NEW S, NEW s \in Seq(S), NEW m \in Nat \ {0}
    PROVE  SubSeq(s, m, Len(s)) \in Seq(S)
<1>1. \A i \in m..Len(s) : s[i] \in S
  OBVIOUS
<1>2. QED
  BY <1>1, SubSeqProperties

LEMMA Smallest ==
    ASSUME NEW S, S \subseteq Nat, S # {}
    PROVE  \E x \in S : \A y \in S : x <= y
<1>1. PICK x \in S : \A y \in S : ~ (<<y, x>> \in OpToRel(<, Nat))
  BY WFMin, NatLessThanWellFounded
<1>2. \A y \in S : ~ (y < x)
  BY <1>1 DEF OpToRel
<1>3. QED
  BY <1>2

LEMMA FirstEndIsOne ==
    ASSUME NEW s \in Seq(Packet), Whole(s)
    PROVE  FirstEnd(s) \in 1..Len(s) /\ Len(s) > 0
<1>1. Ends(s) \subseteq 1..Len(s) /\ Ends(s) # {} /\ Len(s) \in Nat
  BY DEF Ends, Whole
<1>2. Ends(s) \subseteq Nat
  BY <1>1
<1>3. \E i \in Ends(s) : \A j \in Ends(s) : i <= j
  BY <1>1, <1>2, Smallest
<1>4. FirstEnd(s) \in Ends(s)
  BY <1>3, Zenon DEF FirstEnd
<1>5. QED
  BY <1>1, <1>4

LEMMA AfterIsASequence ==
    ASSUME NEW s \in Seq(Packet), Whole(s)
    PROVE  After(s) \in Seq(Packet) /\ Message(s) \in Packet
<1>1. FirstEnd(s) \in 1..Len(s)
  BY FirstEndIsOne
<1>2. After(s) \in Seq(Packet)
  BY <1>1, SuffixIsASequence DEF After
<1>3. QED
  BY <1>1, <1>2 DEF Message

LEMMA DecryptedIsASequence ==
    ASSUME NEW s \in Seq(Packet)
    PROVE  Decrypted(s) \in Seq(Packet)
<1>1. ASSUME NEW p \in Packet
      PROVE  [p EXCEPT !.tls = FALSE] \in Packet
  BY DEF Packet
<1>2. \A i \in DOMAIN s : s[i] \in Packet
  OBVIOUS
<1>3. Decrypted(s) \in [1..Len(s) -> Packet]
  BY <1>1, <1>2 DEF Decrypted
<1>4. QED
  BY <1>3

-------------------------------------------------------------------------------
(* Typing, one lemma for each end.                                         *)

LEMMA StreamIsASequence ==
    ASSUME TypeOK
    PROVE  /\ Stream \in Seq(Packet)
           /\ Decrypted(buffer) \in Seq(Packet)
           /\ plaintext \o Decrypted(buffer) \in Seq(Packet)
<1>1. Decrypted(buffer) \in Seq(Packet)
  BY DecryptedIsASequence DEF TypeOK
<1>2. plaintext \o Decrypted(buffer) \in Seq(Packet)
  BY <1>1 DEF TypeOK
<1>3. QED
  BY <1>1, <1>2 DEF TypeOK, Stream

LEMMA QueuedIsASequence ==
    ASSUME TypeOK, NEW of \in Nat, NEW tls \in BOOLEAN,
           NEW kind \in {"prelogin", "handshake", "sspi", "login", "refusal",
                         "answer"}
    PROVE  /\ Append(responses, Says(kind, tls, of)) \in Seq(Response)
           /\ Queued(kind, of) \in Seq(Response)
<1>1. Says(kind, tls, of) \in Response /\ Says(kind, encrypted, of) \in Response
  BY DEF TypeOK, Says, Response
<1>2. QED
  BY <1>1 DEF TypeOK, Queued

LEMMA RaisingIsTyped ==
    ASSUME TypeOK, NEW reason \in Reasons, Raises(reason),
           UNCHANGED <<wire, downstream, client>>
    PROVE  TypeOK'
<1>1. <<>> \in Seq(Response)
  OBVIOUS
<1>2. QED
  BY <1>1 DEF TypeOK, Raises, States, client

LEMMA BridgeIsTyped ==
    ASSUME TypeOK, Bridge
    PROVE  TypeOK'
<1> USE DEF States, Tunnels, Reasons
<1>1. CASE StepPrelogin
  <2>1. Whole(buffer) => After(buffer) \in Seq(Packet)
    BY AfterIsASequence DEF TypeOK
  <2>2. Append(responses, Says("prelogin", FALSE, 0)) \in Seq(Response)
    BY QueuedIsASequence
  <2>3. ASSUME Raises("protocol") PROVE TypeOK'
    BY <1>1, <2>3, RaisingIsTyped DEF StepPrelogin, Stepping
  <2>4. QED
    BY <1>1, <2>1, <2>2, <2>3
       DEF StepPrelogin, Stepping, Stays, TypeOK, client
<1>2. CASE StepHandshake
  <2>1. Whole(buffer) => After(buffer) \in Seq(Packet)
    BY AfterIsASequence DEF TypeOK
  <2>2. Append(responses, Says("handshake", FALSE, 0)) \in Seq(Response)
    BY QueuedIsASequence
  <2>3. ASSUME NEW reason \in Reasons, Raises(reason) PROVE TypeOK'
    BY <1>2, <2>3, RaisingIsTyped DEF StepHandshake, Stepping
  <2>4. QED
    BY <1>2, <2>1, <2>2, <2>3
       DEF StepHandshake, Stepping, Stays, TypeOK, client
<1>3. CASE StepLogin
  <2> DEFINE plain == plaintext \o Decrypted(buffer)
  <2>0. plain \in Seq(Packet) /\ <<>> \in Seq(Packet)
    BY StreamIsASequence
  <2> HIDE DEF plain
  <2>1. Whole(plain) => After(plain) \in Seq(Packet)
    BY <2>0, AfterIsASequence
  <2>2. /\ Queued("login", 0) \in Seq(Response)
        /\ Queued("refusal", 0) \in Seq(Response)
        /\ Queued("sspi", 0) \in Seq(Response)
    BY QueuedIsASequence
  <2>3. ASSUME NEW reason \in Reasons, Raises(reason) PROVE TypeOK'
    BY <1>3, <2>3, RaisingIsTyped DEF StepLogin, Stepping
  <2>4. \/ \E reason \in Reasons : Raises(reason)
        \/ /\ ~Whole(plain) /\ plaintext' = plain /\ buffer' = <<>> /\ Stays
           /\ UNCHANGED <<state, encrypted, tunnel, stamped, responses>>
        \/ /\ Whole(plain) /\ plaintext' = After(plain) /\ buffer' = <<>>
           /\ AnswerSqlLogin \/ AcceptorSteps
           /\ UNCHANGED <<policy, thread, encrypted, tunnel>>
    BY <1>3 DEF StepLogin, plain
  <2>5. QED
    BY <1>3, <2>0, <2>1, <2>2, <2>3, <2>4
       DEF StepLogin, Stepping, Stays, AnswerSqlLogin, AcceptorSteps, Admits,
           TypeOK, client
<1>4. CASE StepSspi
  <2>1. Stream \in Seq(Packet) /\ <<>> \in Seq(Packet)
    BY StreamIsASequence
  <2>2. TakeMessage => After(Stream) \in Seq(Packet)
    BY <2>1, AfterIsASequence DEF TakeMessage
  <2>3. /\ Queued("login", 0) \in Seq(Response)
        /\ Queued("sspi", 0) \in Seq(Response)
    BY QueuedIsASequence
  <2>4. ASSUME NEW reason \in Reasons, Raises(reason) PROVE TypeOK'
    BY <1>4, <2>4, RaisingIsTyped DEF StepSspi, Stepping
  <2>5. ASSUME TakeMessage, AcceptorSteps,
               UNCHANGED <<policy, thread, encrypted, tunnel>>
        PROVE  TypeOK'
    <3>1. buffer' \in Seq(Packet) /\ plaintext' \in Seq(Packet)
      BY <2>1, <2>2, <2>5 DEF TakeMessage, Leaves, TypeOK
    <3>2. /\ responses' \in Seq(Response) /\ state' \in States
          /\ stamped' \in BOOLEAN /\ why' \in Reasons \cup {"none"}
      BY <2>3, <2>5 DEF AcceptorSteps, Admits, TypeOK
    <3>3. UNCHANGED <<wire, downstream, client>>
      BY <1>4 DEF StepSspi, Stepping
    <3>4. QED
      BY <2>5, <3>1, <3>2, <3>3 DEF TypeOK, client
  <2>6. QED
    BY <1>4, <2>4, <2>5 DEF StepSspi
<1>5. CASE StepQuery
  <2>1. Stream \in Seq(Packet) /\ <<>> \in Seq(Packet)
    BY StreamIsASequence
  <2>2. TakeMessage => /\ After(Stream) \in Seq(Packet)
                       /\ Message(Stream).of \in Nat
    BY <2>1, AfterIsASequence DEF TakeMessage, Packet
  <2>3. ASSUME TakeMessage
        PROVE  Queued("answer", Message(Stream).of) \in Seq(Response)
    BY <2>2, <2>3, QueuedIsASequence
  <2>4. ASSUME NEW reason \in Reasons, Raises(reason) PROVE TypeOK'
    BY <1>5, <2>4, RaisingIsTyped DEF StepQuery, Stepping
  <2>5. ASSUME TakeMessage, Stays,
               UNCHANGED <<state, encrypted, tunnel, stamped>>,
               responses' \in Seq(Response)
        PROVE  TypeOK'
    <3>1. UNCHANGED <<wire, downstream, client>>
      BY <1>5 DEF StepQuery, Stepping
    <3>2. buffer' \in Seq(Packet) /\ plaintext' \in Seq(Packet)
      BY <2>1, <2>2, <2>5 DEF TakeMessage, Leaves, TypeOK
    <3>3. QED
      BY <2>5, <3>1, <3>2 DEF Stays, TypeOK, client
  <2>6. responses \in Seq(Response)
    BY DEF TypeOK
  <2>7. QED
    BY <1>5, <2>3, <2>4, <2>5, <2>6 DEF StepQuery
<1>6. CASE Answers
  <2>1. Stream \in Seq(Packet) /\ <<>> \in Seq(Packet) /\ <<>> \in Seq(Response)
    BY StreamIsASequence
  <2>2. buffer' \in Seq(Packet) /\ plaintext' \in Seq(Packet)
    BY <1>6, <2>1 DEF Answers, Settled, Leaves, TypeOK
  <2>3. downstream' \in Seq(Response)
    BY <1>6 DEF Answers, TypeOK
  <2>4. thread' \in {"reading", "ended"}
    BY <1>6 DEF Answers
  <2>5. QED
    BY <1>6, <2>1, <2>2, <2>3, <2>4 DEF Answers, TypeOK, client
<1>7. CASE Receive
  <2>1. PICK n \in 1..Len(wire) :
           /\ wire' = SubSeq(wire, n + 1, Len(wire))
           /\ IF state = "FAILED"
              THEN thread' = "ended" /\ UNCHANGED buffer
              ELSE /\ thread' = "stepping"
                   /\ buffer' = buffer \o SubSeq(wire, 1, n)
    BY <1>7 DEF Receive
  <2>2. wire \in Seq(Packet) /\ n \in Nat /\ n <= Len(wire)
    BY DEF TypeOK
  <2>3. \A i \in 1..n : wire[i] \in Packet
    BY <2>2
  <2>4. SubSeq(wire, 1, n) \in Seq(Packet)
    BY <2>2, <2>3, SubSeqProperties
  <2>5. SubSeq(wire, n + 1, Len(wire)) \in Seq(Packet)
    BY <2>2, SuffixIsASequence
  <2>6. buffer' \in Seq(Packet) /\ wire' \in Seq(Packet)
    <3>1. buffer \in Seq(Packet)
      BY DEF TypeOK
    <3>2. buffer \o SubSeq(wire, 1, n) \in Seq(Packet)
      BY <2>4, <3>1
    <3>3. QED
      BY <2>1, <2>5, <3>1, <3>2
  <2>7. thread' \in {"reading", "stepping", "ended"}
    BY <2>1
  <2>8. QED
    BY <1>7, <2>6, <2>7 DEF Receive, TypeOK, client
<1>8. CASE Closes
  BY <1>8 DEF Closes, TypeOK, client
<1>9. QED
  BY <1>1, <1>2, <1>3, <1>4, <1>5, <1>6, <1>7, <1>8 DEF Bridge

LEMMA BytesAreAPacket ==
    ASSUME NEW kind \in Kinds, NEW tls \in BOOLEAN, NEW last \in BOOLEAN,
           NEW of \in Nat
    PROVE  Bytes(kind, tls, last, of) \in Packet
  BY DEF Bytes, Packet

LEMMA FewAreASequence ==
    ASSUME NEW p \in Packet, NEW q \in Packet
    PROVE  <<p>> \in Seq(Packet) /\ <<p, q>> \in Seq(Packet)
  OBVIOUS

LEMMA PacketsAreSequences ==
    ASSUME NEW kind \in Kinds, NEW tls \in BOOLEAN, NEW of \in Nat,
           NEW packets \in Packets(kind, tls, of)
    PROVE  packets \in Seq(Packet)
<1>1. Bytes(kind, tls, TRUE, of) \in Packet /\ Bytes(kind, tls, FALSE, of) \in Packet
  BY BytesAreAPacket
<1>2. QED
  BY <1>1, FewAreASequence DEF Packets

LEMMA SendingIsTyped ==
    ASSUME TypeOK, NEW packets \in Seq(Packet), Sends(packets),
           place' \in Places, asked' \in Nat, attentive' \in BOOLEAN,
           trailed' \in BOOLEAN
    PROVE  TypeOK'
<1>1. wire' \in Seq(Packet)
  BY DEF Sends, TypeOK
<1>2. QED
  BY <1>1 DEF Sends, TypeOK, server

LEMMA ClientIsTyped ==
    ASSUME TypeOK, Client
    PROVE  TypeOK'
<1>0. /\ place \in Places /\ asked \in Nat /\ asked + 1 \in Nat
      /\ attentive \in BOOLEAN /\ trailed \in BOOLEAN /\ Covered \in BOOLEAN
      /\ strays \in Nat
  BY DEF TypeOK, Covered
<1>1. CASE Opens
  <2>0. Bytes("prelogin", FALSE, TRUE, 0) \in Packet
    BY BytesAreAPacket DEF Kinds
  <2>1. <<Bytes("prelogin", FALSE, TRUE, 0)>> \in Seq(Packet)
    BY <2>0, FewAreASequence
  <2>2. QED
    BY <1>0, <1>1, <2>1, SendingIsTyped DEF Opens, Places
<1>2. CASE Shakes
  <2>1. /\ Bytes("flight", FALSE, TRUE, 0) \in Packet
        /\ Bytes("part", FALSE, TRUE, 0) \in Packet
    BY BytesAreAPacket DEF Kinds
  <2>2. PICK packets \in Seq(Packet) : Sends(packets)
    BY <1>2, <2>1, FewAreASequence DEF Shakes
  <2>3. QED
    BY <1>0, <1>2, <2>2, SendingIsTyped DEF Shakes, Places
<1>3. CASE LogsIn
  <2>1. PICK packets \in Packets("login7", TRUE, 0) : Sends(packets)
    BY <1>3 DEF LogsIn
  <2>2. packets \in Seq(Packet)
    BY PacketsAreSequences DEF Kinds
  <2>3. QED
    BY <1>0, <1>3, <2>1, <2>2, SendingIsTyped DEF LogsIn, Places
<1>4. CASE SendsToken
  <2>0. Bytes("sspi", Covered, TRUE, 0) \in Packet
    BY <1>0, BytesAreAPacket DEF Kinds
  <2>1. <<Bytes("sspi", Covered, TRUE, 0)>> \in Seq(Packet)
    BY <2>0, FewAreASequence
  <2>2. QED
    BY <1>0, <1>4, <2>1, SendingIsTyped DEF SendsToken, Places
<1>5. CASE Trails
  <2>0. Bytes("sspi", Covered, TRUE, 0) \in Packet
    BY <1>0, BytesAreAPacket DEF Kinds
  <2>1. <<Bytes("sspi", Covered, TRUE, 0)>> \in Seq(Packet)
    BY <2>0, FewAreASequence
  <2>2. QED
    BY <1>0, <1>5, <2>1, SendingIsTyped DEF Trails, Places
<1>6. CASE Asks
  <2>1. PICK kind \in Requests \ {"attention"} :
           \E packets \in Packets(kind, Covered, asked + 1) : Sends(packets)
    BY <1>6 DEF Asks
  <2>2. PICK packets \in Packets(kind, Covered, asked + 1) : Sends(packets)
    BY <2>1
  <2>3. packets \in Seq(Packet)
    BY <1>0, PacketsAreSequences DEF Kinds
  <2>4. QED
    BY <1>0, <1>6, <2>2, <2>3, SendingIsTyped DEF Asks
<1>7. CASE Cancels
  <2>0. Bytes("attention", Covered, TRUE, asked + 1) \in Packet
    BY <1>0, BytesAreAPacket DEF Kinds, Requests
  <2>1. <<Bytes("attention", Covered, TRUE, asked + 1)>> \in Seq(Packet)
    BY <2>0, FewAreASequence
  <2>2. QED
    <3>1. Sends(<<Bytes("attention", Covered, TRUE, asked + 1)>>)
      BY <1>7 DEF Cancels
    <3>2. UNCHANGED <<place, trailed>> /\ asked' = asked + 1 /\ attentive' = TRUE
      BY <1>7 DEF Cancels
    <3>3. QED
      BY <1>0, <2>1, <3>1, <3>2, SendingIsTyped
<1>8. CASE Hears
  <2> DEFINE said == Head(downstream)
  <2>1. said \in Response /\ Tail(downstream) \in Seq(Response)
    BY <1>8 DEF Hears, TypeOK
  <2>2. place' \in Places
    BY <1>0, <1>8 DEF Hears, Moves, Places
  <2>3. heard' \in Seq(Nat)
    BY <1>8, <2>1 DEF Hears, TypeOK, Response
  <2>4. attentive' \in BOOLEAN
    BY <1>8 DEF Hears
  <2>5. QED
    BY <1>8, <2>1, <2>2, <2>3, <2>4 DEF Hears, TypeOK, server
<1>9. CASE Strays
  <2>1. PICK kind \in Kinds, tls \in BOOLEAN, last \in BOOLEAN :
          /\ asked' = IF kind \in Requests THEN asked + 1 ELSE asked
          /\ wire' = Append(wire, Bytes(kind, tls, last,
                                IF kind \in Requests THEN asked' ELSE 0))
    BY <1>9 DEF Strays
  <2>2. asked' \in Nat
    BY <1>0, <2>1
  <2>3. Bytes(kind, tls, last, IF kind \in Requests THEN asked' ELSE 0) \in Packet
    BY <2>2, BytesAreAPacket
  <2>4. wire' \in Seq(Packet)
    BY <2>1, <2>3 DEF TypeOK
  <2>5. strays' \in Nat
    BY <1>0, <1>9 DEF Strays
  <2>6. QED
    BY <1>9, <2>2, <2>4, <2>5 DEF Strays, TypeOK, server
<1>10. CASE GoesAway
  BY <1>10 DEF GoesAway, TypeOK, Places, server
<1>11. QED
  BY <1>1, <1>2, <1>3, <1>4, <1>5, <1>6, <1>7, <1>8, <1>9, <1>10 DEF Client

-------------------------------------------------------------------------------
LEMMA TypedAtFirst == Init => TypeOK
<1>1. <<>> \in Seq(Packet) /\ <<>> \in Seq(Response) /\ <<>> \in Seq(Nat)
  OBVIOUS
<1>2. Init => /\ buffer \in Seq(Packet) /\ plaintext \in Seq(Packet)
              /\ wire \in Seq(Packet) /\ responses \in Seq(Response)
              /\ downstream \in Seq(Response) /\ heard \in Seq(Nat)
  BY <1>1 DEF Init
<1>3. Init => asked \in Nat /\ strays \in Nat
  BY DEF Init
<1>4. QED
  BY <1>2, <1>3, Zenon DEF Init, TypeOK, States, Tunnels, Reasons, Places

(* The state variables of Connection keep their types.                     *)
THEOREM TypeCorrect == Spec => []TypeOK
<1>1. TypeOK /\ [Next]_vars => TypeOK'
  <2>1. TypeOK /\ UNCHANGED vars => TypeOK'
    BY DEF vars, server, client, TypeOK
  <2>2. QED
    BY <2>1, BridgeIsTyped, ClientIsTyped DEF Next
<1>2. QED
  BY <1>1, TypedAtFirst, PTL DEF Spec

-------------------------------------------------------------------------------
(* What is sent is wrapped as agreed.  What is queued is what will be sent,*)
(* and it is wrapped by the bridge's own record of what was agreed.        *)

Wrapping(said) ==
    \A i \in DOMAIN said :
        said[i].tls = (Covered /\ said[i].kind \notin {"prelogin", "handshake"})

Wrapped ==
    /\ Wrapping(responses) /\ Wrapping(downstream)
    /\ state \notin {"EXPECT_PRELOGIN", "FAILED"} => encrypted = Covered

LEMMA SayingIsWrapped ==
    ASSUME TypeOK, Wrapped,
           NEW kind \in {"prelogin", "handshake", "sspi", "login", "refusal",
                         "answer"},
           NEW tls \in BOOLEAN, NEW of \in Nat,
           tls = (Covered /\ kind \notin {"prelogin", "handshake"})
    PROVE  Wrapping(Append(responses, Says(kind, tls, of)))
<1>1. responses \in Seq(Response) /\ Says(kind, tls, of).tls = tls
      /\ Says(kind, tls, of).kind = kind
  BY DEF TypeOK, Says
<1> DEFINE r == Says(kind, tls, of)
<1> HIDE DEF r
<1>2. DOMAIN Append(responses, r) = 1..(Len(responses) + 1)
  BY <1>1
<1>3. ASSUME NEW i \in 1..(Len(responses) + 1)
      PROVE  Append(responses, r)[i].tls =
                (Covered /\ Append(responses, r)[i].kind \notin {"prelogin", "handshake"})
  <2>1. CASE i = Len(responses) + 1
    <3>1. Append(responses, r)[i] = r
      BY <1>1, <2>1
    <3>2. QED
      BY <1>1, <3>1 DEF r
  <2>2. CASE i # Len(responses) + 1
    <3>1. i \in DOMAIN responses /\ Append(responses, r)[i] = responses[i]
      BY <1>1, <2>2
    <3>2. QED
      BY <3>1 DEF Wrapped, Wrapping
  <2>3. QED
    BY <2>1, <2>2
<1>4. QED
  BY <1>2, <1>3 DEF Wrapping, r

LEMMA QueuedIsWrapped ==
    ASSUME TypeOK, Wrapped, state \notin {"EXPECT_PRELOGIN", "FAILED"},
           NEW kind \in {"sspi", "login", "refusal", "answer"}, NEW of \in Nat
    PROVE  Wrapping(Queued(kind, of))
<1>1. encrypted \in BOOLEAN /\ encrypted = Covered
  BY DEF TypeOK, Wrapped
<1>2. QED
  BY <1>1, SayingIsWrapped DEF Queued

LEMMA BridgeWraps ==
    ASSUME TypeOK, Wrapped, Bridge
    PROVE  Wrapped'
<1>1. Covered' = Covered
  BY DEF Bridge, StepPrelogin, StepHandshake, StepLogin, StepSspi, StepQuery,
         Answers, Receive, Closes, Raises, Stays, Stepping, Covered, Negotiated,
         client
<1>2. Wrapping(<<>>)
  BY DEF Wrapping
<1>3. ASSUME UNCHANGED downstream, NEW reason, Raises(reason)
      PROVE  Wrapped'
  BY <1>1, <1>2, <1>3 DEF Raises, Wrapped, Wrapping
<1>4. ASSUME UNCHANGED downstream, Wrapping(responses'),
             state' \notin {"EXPECT_PRELOGIN", "FAILED"} => encrypted' = Covered
      PROVE  Wrapped'
  BY <1>1, <1>4 DEF Wrapped, Wrapping
<1>5. CASE StepPrelogin
  <2>1. Wrapping(Append(responses, Says("prelogin", FALSE, 0)))
    BY SayingIsWrapped
  <2>2. QED
    BY <1>3, <1>4, <1>5, <2>1 DEF StepPrelogin, Stepping, Covered
<1>6. CASE StepHandshake
  <2>1. Wrapping(Append(responses, Says("handshake", FALSE, 0))) /\ Wrapping(responses)
    BY SayingIsWrapped DEF Wrapped
  <2>2. encrypted = Covered
    BY <1>6 DEF StepHandshake, Wrapped
  <2>3. QED
    BY <1>3, <1>4, <1>6, <2>1, <2>2 DEF StepHandshake, Stepping
<1>7. CASE StepLogin
  <2>1. state = "EXPECT_LOGIN" /\ encrypted = Covered /\ UNCHANGED downstream
    BY <1>7 DEF StepLogin, Stepping, Wrapped
  <2>2. /\ Wrapping(Queued("login", 0)) /\ Wrapping(Queued("refusal", 0))
        /\ Wrapping(Queued("sspi", 0)) /\ Wrapping(responses)
    BY <2>1, QueuedIsWrapped DEF Wrapped
  <2>3. \/ \E reason \in Reasons : Raises(reason)
        \/ UNCHANGED <<state, encrypted, responses>>
        \/ (AnswerSqlLogin \/ AcceptorSteps) /\ UNCHANGED encrypted
    BY <1>7 DEF StepLogin, Reasons
  <2>4. QED
    BY <1>3, <1>4, <2>1, <2>2, <2>3 DEF AnswerSqlLogin, AcceptorSteps, Admits
<1>8. CASE StepSspi
  <2>1. state = "EXPECT_SSPI" /\ encrypted = Covered /\ UNCHANGED downstream
    BY <1>8 DEF StepSspi, Stepping, Wrapped
  <2>2. Wrapping(Queued("login", 0)) /\ Wrapping(Queued("sspi", 0))
    BY <2>1, QueuedIsWrapped
  <2>3. \/ \E reason \in Reasons : Raises(reason)
        \/ AcceptorSteps /\ UNCHANGED encrypted
    BY <1>8 DEF StepSspi, Reasons
  <2>4. QED
    BY <1>3, <1>4, <2>1, <2>2, <2>3 DEF AcceptorSteps, Admits
<1>9. CASE StepQuery
  <2>1. state = "READY" /\ encrypted = Covered /\ UNCHANGED downstream
        /\ Wrapping(responses)
    BY <1>9 DEF StepQuery, Stepping, Wrapped
  <2>2. TakeMessage => Message(Stream).of \in Nat
    BY StreamIsASequence, AfterIsASequence DEF TakeMessage, Packet
  <2>3. TakeMessage => Wrapping(Queued("answer", Message(Stream).of))
    BY <2>1, <2>2, QueuedIsWrapped
  <2>4. \/ \E reason \in Reasons : Raises(reason)
        \/ UNCHANGED <<state, encrypted, responses>>
        \/ /\ TakeMessage
           /\ responses' = Queued("answer", Message(Stream).of)
           /\ UNCHANGED <<state, encrypted>>
    BY <1>9 DEF StepQuery, Reasons
  <2>5. QED
    BY <1>3, <1>4, <2>1, <2>3, <2>4
<1>10. CASE Answers
  <2>1. /\ downstream' = downstream \o responses /\ responses' = <<>>
        /\ UNCHANGED <<state, encrypted>>
    BY <1>10 DEF Answers
  <2>2. downstream \in Seq(Response) /\ responses \in Seq(Response)
    BY DEF TypeOK
  <2>3. ASSUME NEW i \in DOMAIN (downstream \o responses)
        PROVE  \/ /\ i \in DOMAIN downstream
                  /\ (downstream \o responses)[i] = downstream[i]
               \/ /\ i - Len(downstream) \in DOMAIN responses
                  /\ (downstream \o responses)[i] = responses[i - Len(downstream)]
    BY <2>2
  <2>4. Wrapping(downstream \o responses)
    BY <2>3 DEF Wrapped, Wrapping
  <2>5. QED
    BY <1>1, <1>2, <2>1, <2>4 DEF Wrapped, Wrapping
<1>11. CASE Receive \/ Closes
  BY <1>1, <1>11 DEF Receive, Closes, Wrapped, Wrapping
<1>12. QED
  BY <1>5, <1>6, <1>7, <1>8, <1>9, <1>10, <1>11 DEF Bridge

LEMMA ClientLeavesItWrapped ==
    ASSUME TypeOK, Wrapped, Client
    PROVE  Wrapped'
<1>1. Covered' = Covered /\ UNCHANGED <<state, encrypted, responses>>
  BY DEF Client, Opens, Shakes, LogsIn, SendsToken, Trails, Asks, Cancels, Hears,
         Strays, GoesAway, Sends, Covered, Negotiated, server
<1>2. CASE Hears
  <2>1. downstream # <<>> /\ downstream' = Tail(downstream)
        /\ downstream \in Seq(Response)
    BY <1>2 DEF Hears, TypeOK
  <2>2. \A i \in DOMAIN Tail(downstream) :
           i + 1 \in DOMAIN downstream /\ Tail(downstream)[i] = downstream[i + 1]
    BY <2>1
  <2>3. Wrapping(Tail(downstream))
    BY <2>2 DEF Wrapped, Wrapping
  <2>4. QED
    BY <1>1, <2>1, <2>3 DEF Wrapped, Wrapping
<1>3. CASE ~Hears
  <2>1. UNCHANGED downstream
    BY <1>3 DEF Client, Opens, Shakes, LogsIn, SendsToken, Trails, Asks, Cancels,
                Strays, GoesAway, Sends
  <2>2. QED
    BY <1>1, <2>1 DEF Wrapped, Wrapping
<1>4. QED
  BY <1>2, <1>3

LEMMA StaysWrapped == TypeOK /\ Wrapped /\ [Next]_vars => Wrapped'
<1>1. Wrapped /\ UNCHANGED vars => Wrapped'
  BY DEF vars, server, client, Wrapped, Wrapping, Covered, Negotiated
<1>2. QED
  BY <1>1, BridgeWraps, ClientLeavesItWrapped DEF Next

(* Whatever the client sends and however it arrives, everything sent to it *)
(* from the login on is encrypted exactly where encryption was agreed.     *)
THEOREM Readable == Spec => []ReadableByTheClient
<1>1. Init => Wrapped
  BY DEF Init, Wrapped, Wrapping
<1>2. Wrapped => ReadableByTheClient
  BY DEF Wrapped, Wrapping, ReadableByTheClient
<1>3. QED
  BY <1>1, <1>2, StaysWrapped, TypeCorrect, PTL DEF Spec

-------------------------------------------------------------------------------
(* What the bridge has of a stream and what is still to be read of it, the *)
(* wrapping apart.  What is left in plaintext by a login in the clear is   *)
(* not looked at again.                                                    *)

Kept == IF state \in {"EXPECT_SSPI", "READY"} /\ ~encrypted THEN <<>>
        ELSE plaintext
Held == Decrypted(Kept \o buffer)
Pending == Decrypted(Kept \o buffer \o wire)

LEMMA SameSequence ==
    ASSUME NEW S, NEW s \in Seq(S), NEW t \in Seq(S), Len(s) = Len(t),
           \A i \in 1..Len(s) : s[i] = t[i]
    PROVE  s = t
  OBVIOUS

LEMMA Joined ==
    ASSUME NEW S, NEW s \in Seq(S), NEW t \in Seq(S)
    PROVE  /\ s \o t \in Seq(S) /\ Len(s \o t) = Len(s) + Len(t)
           /\ \A i \in 1..Len(s) : (s \o t)[i] = s[i]
           /\ \A i \in 1..Len(t) : (s \o t)[Len(s) + i] = t[i]
  OBVIOUS

LEMMA JoinedPackets ==
    \A s, t \in Seq(Packet) :
        /\ Len(s \o t) = Len(s) + Len(t)
        /\ \A i \in 1..Len(s) : (s \o t)[i] = s[i]
        /\ \A i \in 1..Len(t) : (s \o t)[Len(s) + i] = t[i]
  BY Joined

LEMMA DecryptedIs ==
    ASSUME NEW s \in Seq(Packet)
    PROVE  /\ Len(Decrypted(s)) = Len(s)
           /\ \A i \in 1..Len(s) : /\ Decrypted(s)[i] = [s[i] EXCEPT !.tls = FALSE]
                                   /\ Decrypted(s)[i].kind = s[i].kind
                                   /\ Decrypted(s)[i].last = s[i].last
                                   /\ Decrypted(s)[i].of = s[i].of
<1>1. Decrypted(s) \in Seq(Packet)
  BY DecryptedIsASequence
<1>2. DOMAIN Decrypted(s) = 1..Len(s)
  BY DEF Decrypted
<1>3. Len(Decrypted(s)) = Len(s)
  BY <1>1, <1>2
<1>4. ASSUME NEW i \in 1..Len(s)
      PROVE  /\ Decrypted(s)[i] = [s[i] EXCEPT !.tls = FALSE]
             /\ s[i] \in Packet
  <2>1. s[i] \in Packet /\ i \in DOMAIN s
    OBVIOUS
  <2>2. QED
    BY <2>1 DEF Decrypted
<1>5. \A p \in Packet : LET q == [p EXCEPT !.tls = FALSE] IN
         q.kind = p.kind /\ q.last = p.last /\ q.of = p.of
  BY DEF Packet
<1>6. QED
  BY <1>3, <1>4, <1>5

LEMMA DecryptedTwice ==
    ASSUME NEW s \in Seq(Packet)
    PROVE  Decrypted(Decrypted(s)) = Decrypted(s)
<1>1. Decrypted(s) \in Seq(Packet) /\ Decrypted(Decrypted(s)) \in Seq(Packet)
  BY DecryptedIsASequence
<1>2. \A p \in Packet :
         [[p EXCEPT !.tls = FALSE] EXCEPT !.tls = FALSE] = [p EXCEPT !.tls = FALSE]
  BY DEF Packet
<1>3. ASSUME NEW i \in 1..Len(s)
      PROVE  Decrypted(Decrypted(s))[i] = Decrypted(s)[i]
  <2>1. Decrypted(s)[i] = [s[i] EXCEPT !.tls = FALSE] /\ Len(Decrypted(s)) = Len(s)
    BY DecryptedIs
  <2>2. Decrypted(Decrypted(s))[i] = [Decrypted(s)[i] EXCEPT !.tls = FALSE]
    BY <1>1, <2>1, DecryptedIs
  <2>3. s[i] \in Packet
    OBVIOUS
  <2>4. QED
    BY <1>2, <2>1, <2>2, <2>3
<1>4. QED
  BY <1>1, <1>3, DecryptedIs, SameSequence

LEMMA DecryptedOfBoth ==
    ASSUME NEW s \in Seq(Packet), NEW t \in Seq(Packet)
    PROVE  Decrypted(s \o t) = Decrypted(s) \o Decrypted(t)
<1>1. /\ s \o t \in Seq(Packet) /\ Len(s \o t) = Len(s) + Len(t)
      /\ Decrypted(s) \in Seq(Packet) /\ Decrypted(t) \in Seq(Packet)
      /\ Decrypted(s \o t) \in Seq(Packet)
      /\ Decrypted(s) \o Decrypted(t) \in Seq(Packet)
  <2>1. s \o t \in Seq(Packet) /\ Len(s \o t) = Len(s) + Len(t)
    OBVIOUS
  <2>2. Decrypted(s) \in Seq(Packet) /\ Decrypted(t) \in Seq(Packet)
        /\ Decrypted(s \o t) \in Seq(Packet)
    BY <2>1, DecryptedIsASequence
  <2>3. Decrypted(s) \o Decrypted(t) \in Seq(Packet)
    BY <2>2
  <2>4. QED
    BY <2>1, <2>2, <2>3
<1>2. /\ Len(Decrypted(s)) = Len(s) /\ Len(Decrypted(t)) = Len(t)
      /\ Len(Decrypted(s \o t)) = Len(s) + Len(t)
  BY <1>1, DecryptedIs
<1>3. ASSUME NEW i \in 1..(Len(s) + Len(t))
      PROVE  Decrypted(s \o t)[i] = (Decrypted(s) \o Decrypted(t))[i]
  <2>1. Decrypted(s \o t)[i] = [(s \o t)[i] EXCEPT !.tls = FALSE]
    BY <1>1, DecryptedIs
  <2>2. CASE i <= Len(s)
    <3>1. (s \o t)[i] = s[i] /\ (Decrypted(s) \o Decrypted(t))[i] = Decrypted(s)[i]
      BY <1>1, <1>2, <2>2
    <3>2. i \in 1..Len(s)
      BY <2>2
    <3>3. QED
      BY <2>1, <3>1, <3>2, DecryptedIs
  <2>3. CASE i > Len(s)
    <3>1. /\ (s \o t)[i] = t[i - Len(s)]
          /\ (Decrypted(s) \o Decrypted(t))[i] = Decrypted(t)[i - Len(s)]
      BY <1>1, <1>2, <2>3
    <3>2. i - Len(s) \in 1..Len(t)
      BY <2>3
    <3>3. QED
      BY <2>1, <3>1, <3>2, DecryptedIs
  <2>4. i <= Len(s) \/ i > Len(s)
    OBVIOUS
  <2>5. QED
    BY <2>2, <2>3, <2>4
<1>4. Len(Decrypted(s) \o Decrypted(t)) = Len(s) + Len(t)
  BY <1>1, <1>2, Joined
<1>5. QED
  BY <1>1, <1>2, <1>3, <1>4, SameSequence

LEMMA DecryptedNothing ==
    /\ <<>> \in Seq(Packet) /\ Decrypted(<<>>) = <<>>
    /\ \A s \in Seq(Packet) : s \o <<>> = s /\ <<>> \o s = s
<1>1. <<>> \in Seq(Packet) /\ Len(<<>>) = 0
  OBVIOUS
<1>2. Decrypted(<<>>) \in Seq(Packet) /\ Len(Decrypted(<<>>)) = 0
  BY <1>1, DecryptedIs, DecryptedIsASequence
<1>3. Decrypted(<<>>) = <<>>
  BY <1>2
<1>4. QED
  BY <1>1, <1>3

(* Framing does not look at the wrapping.                                  *)
LEMMA FramesAlike ==
    ASSUME NEW s \in Seq(Packet)
    PROVE  /\ Whole(Decrypted(s)) <=> Whole(s)
           /\ FirstEnd(Decrypted(s)) = FirstEnd(s)
           /\ Whole(s) => After(Decrypted(s)) = Decrypted(After(s))
           /\ Whole(s) => /\ Message(Decrypted(s)).kind = Message(s).kind
                          /\ Message(Decrypted(s)).of = Message(s).of
<1> DEFINE d == Decrypted(s)
<1>0. d \in Seq(Packet) /\ Len(d) = Len(s)
  BY DecryptedIs, DecryptedIsASequence
<1>1. Ends(d) = Ends(s)
  <2>1. DOMAIN d = 1..Len(s) /\ DOMAIN s = 1..Len(s)
    BY <1>0
  <2>2. \A i \in 1..Len(s) : d[i].last = s[i].last
    BY DecryptedIs
  <2> HIDE DEF d
  <2>3. QED
    BY <2>1, <2>2 DEF Ends
<1>2. FirstEnd(d) = FirstEnd(s) /\ (Whole(d) <=> Whole(s))
  BY <1>1 DEF FirstEnd, Whole
<1>3. ASSUME Whole(s)
      PROVE  After(d) = Decrypted(After(s))
  <2> DEFINE m == FirstEnd(s)
  <2>1. m \in 1..Len(s) /\ FirstEnd(d) = m
    BY <1>2, <1>3, FirstEndIsOne
  <2> HIDE DEF d, m
  <2>2. After(s) = SubSeq(s, m + 1, Len(s)) /\ After(d) = SubSeq(d, m + 1, Len(s))
    BY <1>0, <2>1 DEF After, m
  <2>3. After(s) \in Seq(Packet) /\ After(d) \in Seq(Packet)
        /\ Len(After(s)) = Len(s) - m /\ Len(After(d)) = Len(s) - m
        /\ \A i \in 1..(Len(s) - m) : /\ After(s)[i] = s[m + i]
                                      /\ After(d)[i] = d[m + i]
    <3>1. \A i \in (m + 1)..Len(s) : s[i] \in Packet /\ d[i] \in Packet
      BY <1>0, <2>1
    <3>2. QED
      BY <2>1, <2>2, <3>1, SubSeqProperties
  <2>4. Decrypted(After(s)) \in Seq(Packet)
        /\ Len(Decrypted(After(s))) = Len(s) - m
    BY <2>3, DecryptedIs, DecryptedIsASequence
  <2>5. ASSUME NEW i \in 1..(Len(s) - m)
        PROVE  After(d)[i] = Decrypted(After(s))[i]
    <3>1. Decrypted(After(s))[i] = [s[m + i] EXCEPT !.tls = FALSE]
      BY <2>3, DecryptedIs
    <3>2. m + i \in 1..Len(s)
      BY <2>1
    <3>3. d[m + i] = [s[m + i] EXCEPT !.tls = FALSE]
      BY <3>2, DecryptedIs DEF d
    <3>4. QED
      BY <2>3, <3>1, <3>3
  <2>6. QED
    BY <2>3, <2>4, <2>5, SameSequence
<1>4. ASSUME Whole(s)
      PROVE  Message(d).kind = Message(s).kind /\ Message(d).of = Message(s).of
  <2>1. 1 \in 1..Len(s)
    BY <1>4, FirstEndIsOne
  <2>2. QED
    BY <2>1, DecryptedIs DEF Message
<1>5. QED
  BY <1>2, <1>3, <1>4

-------------------------------------------------------------------------------
(* Between two reads nothing is queued and nothing whole is left, and      *)
(* plaintext is begun by the login.                                        *)
Settles ==
    /\ thread # "stepping" => responses = <<>>
    /\ thread = "reading" /\ state # "FAILED" => ~Whole(Held)
    /\ state \in {"EXPECT_PRELOGIN", "TLS_HANDSHAKE"} => plaintext = <<>>

LEMMA HeldIs ==
    ASSUME TypeOK
    PROVE  /\ Kept \in Seq(Packet) /\ Held \in Seq(Packet) /\ Pending \in Seq(Packet)
           /\ Held = Decrypted(Kept) \o Decrypted(buffer)
           /\ Pending = Held \o Decrypted(wire)
           /\ Len(Pending) = Len(Held) + Len(wire)
<1>1. buffer \in Seq(Packet) /\ wire \in Seq(Packet) /\ plaintext \in Seq(Packet)
  BY DEF TypeOK
<1>2. Kept \in Seq(Packet)
  BY <1>1, DecryptedNothing DEF Kept
<1>3. \A s, t \in Seq(Packet) : s \o t \in Seq(Packet) /\ Len(s \o t) = Len(s) + Len(t)
  OBVIOUS
<1>4. Kept \o buffer \in Seq(Packet) /\ (Kept \o buffer) \o wire \in Seq(Packet)
  BY <1>1, <1>2, <1>3
<1>5. Held \in Seq(Packet) /\ Pending \in Seq(Packet) /\ Decrypted(wire) \in Seq(Packet)
  BY <1>1, <1>4, DecryptedIsASequence DEF Held, Pending
<1>6. Held = Decrypted(Kept) \o Decrypted(buffer)
  BY <1>1, <1>2, DecryptedOfBoth DEF Held
<1>7. Pending = Held \o Decrypted(wire)
  BY <1>1, <1>4, DecryptedOfBoth DEF Held, Pending
<1>8. Len(Decrypted(wire)) = Len(wire)
  BY <1>1, DecryptedIs
<1>9. QED
  BY <1>2, <1>3, <1>5, <1>6, <1>7, <1>8

(* What each state reads from holds what is held.                          *)
LEMMA ReadsWhatIsHeld ==
    ASSUME TypeOK, Settles
    PROVE  /\ state \in {"EXPECT_PRELOGIN", "TLS_HANDSHAKE"} => Decrypted(buffer) = Held
           /\ state = "EXPECT_LOGIN" => Decrypted(plaintext \o Decrypted(buffer)) = Held
           /\ state \in {"EXPECT_SSPI", "READY"} => Decrypted(Stream) = Held
<1>1. buffer \in Seq(Packet) /\ plaintext \in Seq(Packet)
      /\ Decrypted(buffer) \in Seq(Packet)
  BY StreamIsASequence DEF TypeOK
<1>2. Decrypted(plaintext \o Decrypted(buffer)) = Decrypted(plaintext) \o Decrypted(buffer)
  <2>1. Decrypted(plaintext \o Decrypted(buffer))
            = Decrypted(plaintext) \o Decrypted(Decrypted(buffer))
    BY <1>1, DecryptedOfBoth, Zenon
  <2>2. Decrypted(Decrypted(buffer)) = Decrypted(buffer)
    BY <1>1, DecryptedTwice, Zenon
  <2>3. QED
    BY <2>1, <2>2, Zenon
<1>3. CASE state \in {"EXPECT_PRELOGIN", "TLS_HANDSHAKE"}
  <2>1. Kept = <<>>
    BY <1>3 DEF Kept, Settles
  <2>2. QED
    BY <1>1, <1>3, <2>1, DecryptedNothing DEF Held
<1>4. CASE state = "EXPECT_LOGIN"
  BY <1>2, <1>4, HeldIs DEF Kept
<1>5. CASE state \in {"EXPECT_SSPI", "READY"} /\ encrypted
  BY <1>2, <1>5, HeldIs DEF Kept, Stream
<1>6. CASE state \in {"EXPECT_SSPI", "READY"} /\ ~encrypted
  <2>1. Kept = <<>>
    BY <1>6 DEF Kept
  <2>2. QED
    BY <1>1, <1>6, <2>1, DecryptedNothing DEF Held, Stream
<1>7. QED
  BY <1>3, <1>4, <1>5, <1>6

LEMMA LeavesWhatIsHeld ==
    ASSUME TypeOK, NEW rest \in Seq(Packet), Leaves(rest), UNCHANGED encrypted,
           state' \in {"EXPECT_SSPI", "READY"}
    PROVE  Held' = Decrypted(rest)
<1>1. CASE encrypted
  <2>1. Kept' = rest /\ buffer' = <<>>
    BY <1>1 DEF Leaves, Kept
  <2>2. QED
    BY <2>1, DecryptedNothing DEF Held
<1>2. CASE ~encrypted
  <2>1. Kept' = <<>> /\ buffer' = rest
    BY <1>2 DEF Leaves, Kept
  <2>2. QED
    BY <2>1, DecryptedNothing DEF Held
<1>3. QED
  BY <1>1, <1>2

(* A message is taken off the front of what is held; a login in the clear  *)
(* takes all of it.                                                        *)
Takes == /\ Whole(Held) /\ UNCHANGED wire
         /\ \/ Held' = After(Held)
            \/ state = "EXPECT_LOGIN" /\ Held' = <<>>
Keeps == Held' = Held /\ Pending' = Pending
Drops(m) == /\ m \in FirstEnd(Held)..Len(Held)
            /\ state # "EXPECT_LOGIN" => m = FirstEnd(Held)
            /\ Len(Pending') = Len(Pending) - m
            /\ \A i \in 1..(Len(Pending) - m) : Pending'[i] = Pending[i + m]

LEMMA TakingDrops ==
    ASSUME TypeOK, TypeOK', Takes
    PROVE  \E m \in FirstEnd(Held)..Len(Held) : Drops(m)
<1> DEFINE f == FirstEnd(Held)  n == Len(Held)  tail == Decrypted(wire)
<1>1. /\ Held \in Seq(Packet) /\ Pending = Held \o tail /\ n \in Nat
      /\ Held' \in Seq(Packet) /\ Pending' = Held' \o tail
      /\ tail \in Seq(Packet) /\ f \in 1..n
  <2>1. wire \in Seq(Packet) /\ UNCHANGED wire
    BY DEF TypeOK, Takes
  <2>2. Held' \in Seq(Packet) /\ Pending' = Held' \o Decrypted(wire')
    <3>1. buffer' \in Seq(Packet) /\ wire' \in Seq(Packet) /\ plaintext' \in Seq(Packet)
      BY DEF TypeOK
    <3>2. Kept' \in Seq(Packet)
      BY <3>1, DecryptedNothing DEF Kept
    <3>3. Kept' \o buffer' \in Seq(Packet)
      BY <3>1, <3>2
    <3>4. QED
      BY <3>1, <3>3, DecryptedOfBoth, DecryptedIsASequence DEF Held, Pending
  <2>3. f \in 1..n
    BY HeldIs, FirstEndIsOne DEF Takes
  <2>4. QED
    BY <2>1, <2>2, <2>3, HeldIs, DecryptedIsASequence
<1>2. ASSUME NEW m \in f..n, Len(Held') = n - m,
             state # "EXPECT_LOGIN" => m = f,
             \A i \in 1..(n - m) : Held'[i] = Held[i + m]
      PROVE  Drops(m)
  <2>0. m \in Nat /\ m <= n /\ Len(tail) \in Nat
    <3> HIDE DEF tail, f, n
    <3>1. QED
      BY <1>1
  <2> HIDE DEF tail, f, n
  <2>1. Len(Pending) = n + Len(tail) /\ Len(Pending') = n - m + Len(tail)
    <3>1. \A u, v \in Seq(Packet) : Len(u \o v) = Len(u) + Len(v)
      OBVIOUS
    <3>2. n = Len(Held)
      BY DEF n
    <3>3. QED
      BY <1>1, <1>2, <3>1, <3>2
  <2>2. ASSUME NEW i \in 1..(n + Len(tail) - m)
        PROVE  Pending'[i] = Pending[i + m]
    <3>1. CASE i <= n - m
      <4>1. Pending'[i] = Held'[i] /\ Pending[i + m] = Held[i + m]
        BY <1>1, <1>2, <2>0, <3>1 DEF n
      <4>2. QED
        BY <1>2, <3>1, <4>1
    <3>2. CASE i > n - m
      <4> DEFINE k == i - (n - m)
      <4>1. k \in 1..Len(tail) /\ i = (n - m) + k /\ i + m = n + k
        BY <1>1, <2>0, <3>2
      <4> HIDE DEF k
      <4>2. Pending'[(n - m) + k] = tail[k]
        BY <1>1, <1>2, <4>1, Joined
      <4>3. Pending[n + k] = tail[k]
        BY <1>1, <4>1, Joined DEF n
      <4>4. QED
        BY <4>1, <4>2, <4>3
    <3>3. i <= n - m \/ i > n - m
      BY <1>1, <2>0
    <3>4. QED
      BY <3>1, <3>2, <3>3
  <2>3. QED
    <3>1. /\ Len(Pending') = Len(Pending) - m
          /\ Len(Pending) - m = n + Len(tail) - m
      BY <1>1, <2>0, <2>1
    <3>2. \A i \in 1..(Len(Pending) - m) : Pending'[i] = Pending[i + m]
      BY <2>2, <3>1, Zenon
    <3>3. QED
      BY <1>2, <3>1, <3>2 DEF Drops, f, n
<1>3. CASE Held' = After(Held)
  <2>1. \A i \in (f + 1)..n : Held[i] \in Packet
    BY <1>1
  <2>2. Len(Held') = n - f /\ \A i \in 1..(n - f) : Held'[i] = Held[i + f]
    <3>1. After(Held) = SubSeq(Held, f + 1, n)
      BY DEF After
    <3> HIDE DEF f, n
    <3>2. f \in Nat /\ n \in Nat /\ f + 1 \in Nat /\ n + 1 \in Nat /\ f + 1 <= n + 1
      BY <1>1
    <3>3. /\ Len(SubSeq(Held, f + 1, n)) = n - f
          /\ \A i \in 1..(n - f) : SubSeq(Held, f + 1, n)[i] = Held[i + f]
      BY <2>1, <3>2, SubSeqProperties
    <3>4. QED
      BY <1>3, <3>1, <3>3
  <2>3. f \in f..n
    BY <1>1
  <2>4. QED
    BY <1>2, <2>2, <2>3
<1>4. CASE state = "EXPECT_LOGIN" /\ Held' = <<>>
  <2>1. Len(Held') = n - n /\ n \in f..n
    <3> HIDE DEF tail, f, n
    <3>1. QED
      BY <1>1, <1>4
  <2>2. \A i \in 1..(n - n) : Held'[i] = Held[i + n]
    <3> HIDE DEF tail, f, n
    <3>1. n - n = 0
      BY <1>1
    <3>2. QED
      BY <3>1
  <2>3. QED
    BY <1>2, <1>4, <2>1, <2>2
<1>5. QED
  BY <1>3, <1>4 DEF Takes

-------------------------------------------------------------------------------
(* The steps of receive's loop, told by what they take and what they say.  *)

Expected ==
    CASE state = "EXPECT_PRELOGIN" -> {"prelogin"}
      [] state = "TLS_HANDSHAKE" -> {"part", "flight"}
      [] state = "EXPECT_LOGIN" -> {"login7"}
      [] state = "EXPECT_SSPI" -> {"sspi"}
      [] OTHER -> Requests \cup {"sspi"}

Unreadable ==
    \/ state \in {"EXPECT_PRELOGIN", "TLS_HANDSHAKE"} /\ Garbled(buffer)
    \/ state = "EXPECT_LOGIN" /\ Undecipherable(buffer)
    \/ state \in {"EXPECT_SSPI", "READY"} /\ Unread
OutOfTurn == Unreadable \/ (Whole(Held) /\ Message(Held).kind \notin Expected)

Fails(reason) == Raises(reason) /\ (reason = "protocol" => OutOfTurn)

Tells(kind, of) ==
    \E tls \in BOOLEAN : responses' = Append(responses, Says(kind, tls, of))

Shaken == IF tunnel = "hello" THEN tunnel' = "finish" /\ UNCHANGED state
          ELSE state' = "EXPECT_LOGIN"
Admitted == state' = "READY" /\ Tells("login", 0) /\ UNCHANGED why
Turns ==
    LET kind == Message(Held).kind IN
    \/ /\ state = "EXPECT_PRELOGIN" /\ kind = "prelogin"
       /\ state' = "TLS_HANDSHAKE" /\ tunnel' = "hello"
       /\ Tells("prelogin", 0) /\ UNCHANGED <<plaintext, why>>
    \/ /\ state = "TLS_HANDSHAKE" /\ kind = "part"
       /\ UNCHANGED <<state, tunnel, responses, plaintext, why>>
    \/ /\ state = "TLS_HANDSHAKE" /\ kind = "flight"
       /\ Shaken /\ Tells("handshake", 0) /\ UNCHANGED <<plaintext, why>>
    \/ /\ \/ state = "EXPECT_LOGIN" /\ kind = "login7"
          \/ state = "EXPECT_SSPI" /\ kind = "sspi"
       /\ \/ Admitted
          \/ state' = "EXPECT_SSPI" /\ Tells("sspi", 0) /\ UNCHANGED why
    \/ /\ state = "READY" /\ kind = "sspi"
       /\ UNCHANGED <<state, responses, why>>
    \/ /\ state = "READY" /\ kind \in Requests
       /\ Tells("answer", Message(Held).of) /\ UNCHANGED <<state, why>>

Refuses == /\ state = "EXPECT_LOGIN" /\ state' = "FAILED" /\ why' = "refused"
           /\ Tells("refusal", 0)
Gathers == Keeps /\ UNCHANGED <<state, tunnel, responses, why>>
           /\ state = "EXPECT_LOGIN"

Outcome ==
    /\ thread = "stepping" /\ state # "FAILED"
    /\ UNCHANGED <<policy, wire, downstream, client>>
    /\ \/ \E reason \in Reasons \ {"refused"} : Fails(reason)
       \/ thread' = thread /\ Gathers
       \/ thread' = thread /\ Refuses
       \/ thread' = thread /\ Takes /\ Turns

LEMMA HeldFrames ==
    ASSUME TypeOK, NEW s \in Seq(Packet), Decrypted(s) = Held
    PROVE  /\ Whole(s) <=> Whole(Held)
           /\ Whole(s) => /\ Message(s).kind = Message(Held).kind
                          /\ Message(s).of = Message(Held).of
                          /\ Decrypted(After(s)) = After(Held)
                          /\ After(s) \in Seq(Packet)
  BY FramesAlike, AfterIsASequence

LEMMA PreloginOutcome ==
    ASSUME TypeOK, Settles, StepPrelogin
    PROVE  Outcome
<1>1. /\ thread = "stepping" /\ UNCHANGED <<wire, downstream, client>>
      /\ state = "EXPECT_PRELOGIN" /\ plaintext = <<>>
  BY DEF StepPrelogin, Stepping, Settles
<1>2. buffer \in Seq(Packet) /\ Decrypted(buffer) = Held
  BY <1>1, ReadsWhatIsHeld DEF TypeOK
<1>3. Expected = {"prelogin"}
  BY <1>1 DEF Expected
<1>4. ASSUME Raises("protocol"),
             Garbled(buffer) \/ (Whole(buffer) /\ Message(buffer).kind # "prelogin")
      PROVE  Outcome
  <2>1. OutOfTurn
    BY <1>1, <1>2, <1>3, <1>4, HeldFrames DEF OutOfTurn, Unreadable
  <2>2. Fails("protocol") /\ UNCHANGED policy
    BY <1>4, <2>1 DEF Fails, Raises
  <2>3. QED
    BY <1>1, <2>2 DEF Outcome, Reasons
<1>5. ASSUME Whole(buffer), Message(buffer).kind = "prelogin",
             responses' = Append(responses, Says("prelogin", FALSE, 0)),
             buffer' = After(buffer), tunnel' = "hello", state' = "TLS_HANDSHAKE",
             Stays, UNCHANGED plaintext
      PROVE  Outcome
  <2>1. Kept' = <<>>
    BY <1>1, <1>5 DEF Kept
  <2>2. Held' = After(Held) /\ Whole(Held) /\ Message(Held).kind = "prelogin"
    BY <1>2, <1>5, <2>1, HeldFrames, DecryptedNothing DEF Held
  <2>3. Tells("prelogin", 0)
    BY <1>5 DEF Tells
  <2>4. Takes /\ Turns
    BY <1>1, <1>5, <2>2, <2>3 DEF Takes, Turns, Stays
  <2>5. QED
    BY <1>1, <1>5, <2>4 DEF Outcome, Stays
<1>6. QED
  BY <1>4, <1>5 DEF StepPrelogin

LEMMA HandshakeOutcome ==
    ASSUME TypeOK, Settles, StepHandshake
    PROVE  Outcome
<1>1. /\ thread = "stepping" /\ UNCHANGED <<wire, downstream, client>>
      /\ state = "TLS_HANDSHAKE" /\ plaintext = <<>>
  BY DEF StepHandshake, Stepping, Settles
<1>2. buffer \in Seq(Packet) /\ Decrypted(buffer) = Held
  BY <1>1, ReadsWhatIsHeld DEF TypeOK
<1>3. Expected = {"part", "flight"}
  BY <1>1 DEF Expected
<1>4. ASSUME Raises("protocol"),
             Garbled(buffer) \/ (Whole(buffer) /\ Message(buffer).kind \notin {"part", "flight"})
      PROVE  Outcome
  <2>1. OutOfTurn
    BY <1>1, <1>2, <1>3, <1>4, HeldFrames DEF OutOfTurn, Unreadable
  <2>2. Fails("protocol") /\ UNCHANGED policy
    BY <1>4, <2>1 DEF Fails, Raises
  <2>3. QED
    BY <1>1, <2>2 DEF Outcome, Reasons
<1>5. ASSUME Raises("handshake")
      PROVE  Outcome
  <2>1. Fails("handshake") /\ UNCHANGED policy
    BY <1>5 DEF Fails, Raises
  <2>2. QED
    BY <1>1, <2>1 DEF Outcome, Reasons
<1>6. ASSUME Whole(buffer), Message(buffer).kind \in {"part", "flight"},
             buffer' = After(buffer),
             IF Message(buffer).kind = "part"
             THEN UNCHANGED <<responses, tunnel, state>>
             ELSE /\ responses' = Append(responses, Says("handshake", FALSE, 0))
                  /\ tunnel' = IF tunnel = "hello" THEN "finish" ELSE "established"
                  /\ state' = IF tunnel = "hello" THEN state ELSE "EXPECT_LOGIN",
             Stays, UNCHANGED <<encrypted, plaintext, stamped>>
      PROVE  Outcome
  <2>1. Kept' = <<>>
    BY <1>1, <1>6 DEF Kept
  <2>2. Held' = After(Held) /\ Whole(Held)
        /\ Message(Held).kind = Message(buffer).kind
    BY <1>2, <1>6, <2>1, HeldFrames, DecryptedNothing DEF Held
  <2>3. Message(Held).kind = "flight" => Tells("handshake", 0) /\ Shaken
    BY <1>6, <2>2 DEF Tells, Shaken
  <2>4. Takes
    BY <1>1, <2>2 DEF Takes
  <2>5. Turns
    BY <1>1, <1>6, <2>2, <2>3 DEF Turns, Stays
  <2>6. QED
    BY <1>1, <1>6, <2>4, <2>5 DEF Outcome, Stays
<1>7. QED
  BY <1>4, <1>5, <1>6 DEF StepHandshake

LEMMA LoginOutcome ==
    ASSUME TypeOK, Settles, StepLogin
    PROVE  Outcome
<1> DEFINE plain == plaintext \o Decrypted(buffer)
<1>1. /\ thread = "stepping" /\ UNCHANGED <<wire, downstream, client>>
      /\ state = "EXPECT_LOGIN" /\ encrypted \in BOOLEAN
  BY DEF StepLogin, Stepping, TypeOK
<1>2. plain \in Seq(Packet) /\ Decrypted(plain) = Held
  BY <1>1, ReadsWhatIsHeld, StreamIsASequence
<1>3. Expected = {"login7"}
  BY <1>1 DEF Expected
<1>4. \/ Undecipherable(buffer) /\ Raises("protocol")
      \/ /\ ~Whole(plain) /\ plaintext' = plain /\ buffer' = <<>> /\ Stays
         /\ UNCHANGED <<state, encrypted, tunnel, stamped, responses>>
      \/ /\ Whole(plain) /\ Message(plain).kind # "login7" /\ Raises("protocol")
      \/ Raises("authentication")
      \/ /\ Whole(plain) /\ Message(plain).kind = "login7"
         /\ plaintext' = After(plain) /\ buffer' = <<>>
         /\ AnswerSqlLogin \/ AcceptorSteps
         /\ UNCHANGED <<policy, thread, encrypted, tunnel>>
  BY DEF StepLogin
<1> HIDE DEF plain
<1>5. ASSUME Raises("protocol"),
             Undecipherable(buffer) \/ (Whole(plain) /\ Message(plain).kind # "login7")
      PROVE  Outcome
  <2>1. OutOfTurn
    BY <1>1, <1>2, <1>3, <1>5, HeldFrames DEF OutOfTurn, Unreadable
  <2>2. Fails("protocol") /\ UNCHANGED policy
    BY <1>5, <2>1 DEF Fails, Raises
  <2>3. QED
    BY <1>1, <2>2 DEF Outcome, Reasons
<1>6. ASSUME Raises("authentication")
      PROVE  Outcome
  <2>1. Fails("authentication") /\ UNCHANGED policy
    BY <1>6 DEF Fails, Raises
  <2>2. QED
    BY <1>1, <2>1 DEF Outcome, Reasons
<1>7. ASSUME plaintext' = plain, buffer' = <<>>, Stays,
             UNCHANGED <<state, encrypted, tunnel, stamped, responses>>
      PROVE  Outcome
  <2>1. Kept' = plain
    BY <1>1, <1>7 DEF Kept
  <2>2. Held' = Held
    BY <1>2, <1>7, <2>1, DecryptedNothing DEF Held
  <2>3. Pending' = Decrypted(plain) \o Decrypted(wire)
    <3>1. Pending' = Decrypted(plain \o wire)
      BY <1>1, <1>2, <1>7, <2>1, DecryptedNothing DEF Pending
    <3>2. wire \in Seq(Packet)
      BY DEF TypeOK
    <3>3. QED
      BY <1>2, <3>1, <3>2, DecryptedOfBoth
  <2>4. Gathers
    BY <1>1, <1>2, <1>7, <2>2, <2>3, HeldIs DEF Gathers, Keeps, Stays
  <2>5. QED
    BY <1>1, <1>7, <2>4 DEF Outcome, Stays
<1>8. ASSUME Whole(plain), Message(plain).kind = "login7",
             plaintext' = After(plain), buffer' = <<>>,
             AnswerSqlLogin \/ AcceptorSteps,
             UNCHANGED <<policy, thread, encrypted, tunnel>>
      PROVE  Outcome
  <2>1. /\ After(plain) \in Seq(Packet) /\ Decrypted(After(plain)) = After(Held)
        /\ Whole(Held) /\ Message(Held).kind = "login7"
    BY <1>2, <1>8, HeldFrames
  <2>2. Kept' = After(plain) \/ Kept' = <<>>
    BY <1>8 DEF Kept
  <2>3. Held' = After(Held) \/ Held' = <<>>
    BY <1>8, <2>1, <2>2, DecryptedNothing DEF Held
  <2>4. Takes
    BY <1>1, <2>1, <2>3 DEF Takes
  <2>5. Admits => Admitted
    BY <1>1 DEF Admits, Admitted, Tells, Queued
  <2>6. \/ Admitted
        \/ Refuses
        \/ state' = "EXPECT_SSPI" /\ Tells("sspi", 0) /\ UNCHANGED why
    <3>1. CASE Admits
      BY <2>5, <3>1
    <3>2. CASE state' = "FAILED" /\ responses' = Queued("refusal", 0) /\ why' = "refused"
      BY <1>1, <3>2 DEF Refuses, Tells, Queued
    <3>3. CASE state' = "EXPECT_SSPI" /\ responses' = Queued("sspi", 0) /\ UNCHANGED why
      BY <1>1, <3>3 DEF Tells, Queued
    <3>4. QED
      BY <1>8, <3>1, <3>2, <3>3 DEF AnswerSqlLogin, AcceptorSteps
  <2>7. Refuses \/ Turns
    BY <1>1, <2>1, <2>6 DEF Turns
  <2>8. QED
    BY <1>1, <1>8, <2>4, <2>7 DEF Outcome
<1>9. QED
  BY <1>4, <1>5, <1>6, <1>7, <1>8

LEMMA TakeMessageTakes ==
    ASSUME TypeOK, Settles, TakeMessage, UNCHANGED <<wire, encrypted>>,
           state \in {"EXPECT_SSPI", "READY"}, state' \in {"EXPECT_SSPI", "READY"}
    PROVE  Takes
<1>1. Stream \in Seq(Packet) /\ Decrypted(Stream) = Held
  BY StreamIsASequence, ReadsWhatIsHeld
<1>2. Whole(Held) /\ After(Stream) \in Seq(Packet)
      /\ Decrypted(After(Stream)) = After(Held)
  BY <1>1, HeldFrames DEF TakeMessage
<1>3. Leaves(After(Stream))
  BY DEF TakeMessage
<1>4. Held' = After(Held)
  BY <1>2, <1>3, LeavesWhatIsHeld
<1>5. QED
  BY <1>2, <1>4 DEF Takes

LEMMA SspiOutcome ==
    ASSUME TypeOK, Settles, StepSspi
    PROVE  Outcome
<1>1. /\ thread = "stepping" /\ UNCHANGED <<wire, downstream, client>>
      /\ state = "EXPECT_SSPI" /\ encrypted \in BOOLEAN
  BY DEF StepSspi, Stepping, TypeOK
<1>2. Stream \in Seq(Packet) /\ Decrypted(Stream) = Held
  BY <1>1, StreamIsASequence, ReadsWhatIsHeld
<1>3. Expected = {"sspi"}
  BY <1>1 DEF Expected
<1>4. ASSUME Raises("protocol"), Unread \/ (Whole(Stream) /\ Message(Stream).kind # "sspi")
      PROVE  Outcome
  <2>1. OutOfTurn
    BY <1>1, <1>2, <1>3, <1>4, HeldFrames DEF OutOfTurn, Unreadable
  <2>2. Fails("protocol") /\ UNCHANGED policy
    BY <1>4, <2>1 DEF Fails, Raises
  <2>3. QED
    BY <1>1, <2>2 DEF Outcome, Reasons
<1>5. ASSUME Raises("authentication")
      PROVE  Outcome
  <2>1. Fails("authentication") /\ UNCHANGED policy
    BY <1>5 DEF Fails, Raises
  <2>2. QED
    BY <1>1, <2>1 DEF Outcome, Reasons
<1>6. ASSUME TakeMessage, Message(Stream).kind = "sspi", AcceptorSteps,
             UNCHANGED <<policy, thread, encrypted, tunnel>>
      PROVE  Outcome
  <2>1. Takes
    BY <1>1, <1>6, TakeMessageTakes DEF AcceptorSteps, Admits
  <2>2. Message(Held).kind = "sspi"
    BY <1>2, <1>6, HeldFrames DEF TakeMessage
  <2>3. Admitted \/ (state' = "EXPECT_SSPI" /\ Tells("sspi", 0) /\ UNCHANGED why)
    BY <1>1, <1>6 DEF AcceptorSteps, Admits, Admitted, Tells, Queued
  <2>4. Turns
    BY <1>1, <2>2, <2>3 DEF Turns
  <2>5. QED
    BY <1>1, <1>6, <2>1, <2>4 DEF Outcome
<1>7. QED
  BY <1>4, <1>5, <1>6 DEF StepSspi

LEMMA QueryOutcome ==
    ASSUME TypeOK, Settles, StepQuery
    PROVE  Outcome
<1>1. /\ thread = "stepping" /\ UNCHANGED <<wire, downstream, client>>
      /\ state = "READY" /\ encrypted \in BOOLEAN
  BY DEF StepQuery, Stepping, TypeOK
<1>2. Stream \in Seq(Packet) /\ Decrypted(Stream) = Held
  BY <1>1, StreamIsASequence, ReadsWhatIsHeld
<1>3. Expected = Requests \cup {"sspi"}
  BY <1>1 DEF Expected
<1>4. ASSUME Raises("protocol"),
             Unread \/ (Whole(Stream) /\ Message(Stream).kind \notin Requests \cup {"sspi"})
      PROVE  Outcome
  <2>1. OutOfTurn
    BY <1>1, <1>2, <1>3, <1>4, HeldFrames DEF OutOfTurn, Unreadable
  <2>2. Fails("protocol") /\ UNCHANGED policy
    BY <1>4, <2>1 DEF Fails, Raises
  <2>3. QED
    BY <1>1, <2>2 DEF Outcome, Reasons
<1>5. ASSUME NEW reason \in {"unreadable", "handler"}, Raises(reason)
      PROVE  Outcome
  <2>1. Fails(reason) /\ UNCHANGED policy
    BY <1>5 DEF Fails, Raises
  <2>2. QED
    BY <1>1, <2>1 DEF Outcome, Reasons
<1>6. ASSUME TakeMessage, Stays, UNCHANGED <<state, encrypted, tunnel, stamped>>,
             \/ Message(Stream).kind = "sspi" /\ UNCHANGED responses
             \/ /\ Message(Stream).kind \in Requests
                /\ responses' = Queued("answer", Message(Stream).of)
      PROVE  Outcome
  <2>1. Takes
    BY <1>1, <1>6, TakeMessageTakes
  <2>2. Message(Held).kind = Message(Stream).kind /\ Message(Held).of = Message(Stream).of
    BY <1>2, <1>6, HeldFrames DEF TakeMessage
  <2>3. \/ Message(Held).kind = "sspi" /\ UNCHANGED responses
        \/ Message(Held).kind \in Requests /\ Tells("answer", Message(Held).of)
    BY <1>1, <1>6, <2>2 DEF Tells, Queued
  <2>4. Turns
    BY <1>1, <1>6, <2>3 DEF Turns, Stays
  <2>5. QED
    BY <1>1, <1>6, <2>1, <2>4 DEF Outcome, Stays
<1>7. QED
  BY <1>4, <1>5, <1>6 DEF StepQuery, PassesOver

LEMMA StepsComeOut ==
    ASSUME TypeOK, Settles,
           StepPrelogin \/ StepHandshake \/ StepLogin \/ StepSspi \/ StepQuery
    PROVE  Outcome
  BY PreloginOutcome, HandshakeOutcome, LoginOutcome, SspiOutcome, QueryOutcome

-------------------------------------------------------------------------------
(* What the other steps of the bridge do to the stream.                    *)

LEMMA AnsweringKeeps ==
    ASSUME TypeOK, Settles, Answers
    PROVE  Keeps /\ (state # "FAILED" => ~Whole(Held))
<1>1. Settled /\ UNCHANGED <<state, encrypted, wire>>
  BY DEF Answers
<1>2. CASE UNCHANGED <<buffer, plaintext>>
  <2>1. Keeps
    BY <1>1, <1>2 DEF Keeps, Held, Pending, Kept
  <2>2. CASE state \in {"EXPECT_PRELOGIN", "TLS_HANDSHAKE"}
    <3>1. ~Whole(buffer) /\ Decrypted(buffer) = Held /\ buffer \in Seq(Packet)
      BY <1>1, <2>2, ReadsWhatIsHeld DEF Settled, TypeOK
    <3>2. QED
      BY <2>1, <3>1, HeldFrames
  <2>3. CASE state = "EXPECT_LOGIN"
    <3>1. buffer = <<>> /\ ~Whole(plaintext) /\ plaintext \in Seq(Packet)
      BY <1>1, <2>3 DEF Settled, TypeOK
    <3>2. Decrypted(plaintext) = Held
      BY <2>3, <3>1, DecryptedNothing DEF Held, Kept
    <3>3. QED
      BY <2>1, <3>1, <3>2, HeldFrames
  <2>4. CASE state \in {"EXPECT_SSPI", "READY"}
    <3>1. ~Whole(Stream) /\ Stream \in Seq(Packet) /\ Decrypted(Stream) = Held
      BY <1>1, <2>4, StreamIsASequence, ReadsWhatIsHeld DEF Settled
    <3>2. QED
      BY <2>1, <3>1, HeldFrames
  <2>5. QED
    BY <2>1, <2>2, <2>3, <2>4 DEF TypeOK, States
<1>3. CASE state \in {"EXPECT_SSPI", "READY"} /\ Leaves(Stream)
  <2>1. /\ ~Whole(Stream) /\ Stream \in Seq(Packet) /\ Decrypted(Stream) = Held
        /\ buffer \in Seq(Packet) /\ wire \in Seq(Packet)
    BY <1>1, <1>3, StreamIsASequence, ReadsWhatIsHeld DEF Settled, TypeOK
  <2>2. Held' = Held
    BY <1>1, <1>3, <2>1, LeavesWhatIsHeld
  <2>3. Pending' = Decrypted(Stream \o wire)
    <3>1. CASE encrypted
      <4>1. Kept' = Stream /\ buffer' = <<>>
        BY <1>1, <1>3, <3>1 DEF Leaves, Kept
      <4>2. QED
        BY <1>1, <2>1, <4>1, DecryptedNothing DEF Pending
    <3>2. CASE ~encrypted
      <4>1. Kept' = <<>> /\ buffer' = Stream
        BY <1>1, <1>3, <3>2 DEF Leaves, Kept
      <4>2. QED
        BY <1>1, <2>1, <4>1, DecryptedNothing DEF Pending
    <3>3. QED
      BY <3>1, <3>2
  <2>4. Pending' = Pending
    BY <2>1, <2>3, HeldIs, DecryptedOfBoth
  <2>5. QED
    BY <2>1, <2>2, <2>4, HeldFrames DEF Keeps
<1>4. QED
  BY <1>1, <1>2, <1>3 DEF Settled, TypeOK, States

LEMMA ReceivingKeeps ==
    ASSUME TypeOK, Receive, state # "FAILED"
    PROVE  Pending' = Pending
<1>1. PICK n \in 1..Len(wire) :
         /\ wire' = SubSeq(wire, n + 1, Len(wire))
         /\ buffer' = buffer \o SubSeq(wire, 1, n)
  BY DEF Receive
<1> DEFINE read == SubSeq(wire, 1, n)  rest == SubSeq(wire, n + 1, Len(wire))
<1>2. wire \in Seq(Packet) /\ buffer \in Seq(Packet) /\ Kept \in Seq(Packet)
  BY HeldIs DEF TypeOK
<1>3. read \o rest = wire
  <2>1. 1 \in 1..(Len(wire) + 1) /\ n \in 0..Len(wire) /\ Len(wire) \in n..Len(wire)
    BY <1>2
  <2>2. read \o rest = SubSeq(wire, 1, Len(wire))
    BY <1>2, <2>1, ConcatAdjacentSubSeq
  <2>3. QED
    BY <1>2, <2>2, SubSeqFull
<1>4. read \in Seq(Packet) /\ rest \in Seq(Packet)
  <2>1. \A i \in 1..n : wire[i] \in Packet
    BY <1>2
  <2>2. n \in Nat
    OBVIOUS
  <2>3. read \in Seq(Packet)
    BY <2>1, <2>2, SubSeqProperties
  <2>4. rest \in Seq(Packet)
    BY <1>2, <2>2, SuffixIsASequence
  <2>5. QED
    BY <2>3, <2>4
<1>5. Kept' = Kept /\ wire' = rest /\ buffer' = buffer \o read
  BY <1>1 DEF Receive, Kept
<1> HIDE DEF read, rest
<1>6. Pending' = Decrypted(Kept \o (buffer \o read) \o rest)
  BY <1>5 DEF Pending
<1>7. ASSUME NEW s \in Seq(Packet), NEW t \in Seq(Packet), NEW u \in Seq(Packet)
      PROVE  (s \o t) \o u = s \o (t \o u)
  <2>1. (s \o t) \o u \in Seq(Packet) /\ s \o (t \o u) \in Seq(Packet)
        /\ Len((s \o t) \o u) = Len(s \o (t \o u))
    OBVIOUS
  <2>2. \A i \in 1..Len((s \o t) \o u) : ((s \o t) \o u)[i] = (s \o (t \o u))[i]
    OBVIOUS
  <2>3. QED
    BY <2>1, <2>2, SameSequence
<1>8. Kept \o (buffer \o read) = (Kept \o buffer) \o read
  BY <1>2, <1>4, <1>7, Zenon
<1>9. (Kept \o buffer) \o read \o rest = (Kept \o buffer) \o (read \o rest)
  <2>1. Kept \o buffer \in Seq(Packet)
    BY <1>2
  <2>2. QED
    BY <1>4, <1>7, <2>1, Zenon
<1>10. QED
  BY <1>3, <1>6, <1>8, <1>9 DEF Pending

LEMMA SettlesOn ==
    ASSUME TypeOK, Settles, [Next]_vars
    PROVE  Settles'
<1>1. CASE Outcome
  <2>1. ASSUME NEW reason, Fails(reason)
        PROVE  Settles'
    BY <2>1 DEF Fails, Raises, Settles
  <2>2. CASE thread' = thread /\ (Gathers \/ Refuses \/ Turns)
    <3>1. thread' = "stepping"
      BY <1>1, <2>2 DEF Outcome
    <3>2. state' \in {"EXPECT_PRELOGIN", "TLS_HANDSHAKE"} => plaintext' = <<>>
      BY <2>2 DEF Gathers, Refuses, Turns, Shaken, Admitted, Settles
    <3>3. QED
      BY <3>1, <3>2 DEF Settles
  <2>3. QED
    BY <1>1, <2>1, <2>2 DEF Outcome
<1>2. CASE Answers
  <2>1. Keeps /\ (state # "FAILED" => ~Whole(Held))
    BY <1>2, AnsweringKeeps
  <2>2. responses' = <<>> /\ UNCHANGED <<state, encrypted>>
    BY <1>2 DEF Answers
  <2>3. state \in {"EXPECT_PRELOGIN", "TLS_HANDSHAKE"} => UNCHANGED plaintext
    BY <1>2 DEF Answers, Settled
  <2>4. QED
    BY <2>1, <2>2, <2>3 DEF Keeps, Settles
<1>3. CASE Receive
  <2>1. thread = "reading" /\ UNCHANGED <<responses, plaintext, state>>
        /\ thread' \in {"stepping", "ended"}
    BY <1>3 DEF Receive
  <2>2. QED
    BY <2>1 DEF Settles
<1>4. CASE Closes
  BY <1>4 DEF Closes, Settles
<1>5. CASE UNCHANGED server
  <2>1. Held' = Held
    BY <1>5 DEF Held, Kept, server
  <2>2. QED
    BY <1>5, <2>1 DEF server, Settles
<1>6. CASE Client
  BY <1>5, <1>6 DEF Client, Opens, Shakes, LogsIn, SendsToken, Trails, Asks,
                    Cancels, Hears, Strays, GoesAway, Sends
<1>7. QED
  BY <1>1, <1>2, <1>3, <1>4, <1>5, <1>6, StepsComeOut DEF Next, Bridge, vars

-------------------------------------------------------------------------------
(* What is on its way to the client: a step of the bridge adds to the end  *)
(* of it, a failure loses what was not sent yet, and the client takes its  *)
(* front.                                                                  *)

Said == {"prelogin", "handshake", "sspi", "login", "refusal", "answer"}
Adds(kind, of) ==
    /\ Len(Coming') = Len(Coming) + 1
    /\ \A i \in 1..Len(Coming) : Coming'[i] = Coming[i]
    /\ Coming'[Len(Coming) + 1].kind = kind
    /\ Coming'[Len(Coming) + 1].of = of
Loses == /\ Len(Coming') <= Len(Coming)
         /\ \A i \in 1..Len(Coming') : Coming'[i] = Coming[i]

LEMMA ComingIs ==
    ASSUME TypeOK
    PROVE  /\ Coming \in Seq(Response) /\ DOMAIN Coming = 1..Len(Coming)
           /\ Len(Coming) = Len(downstream) + Len(responses)
           /\ heard \in Seq(Nat) /\ asked \in Nat
           /\ \A i \in 1..Len(Coming) : Coming[i].of \in Nat
<1>1. downstream \in Seq(Response) /\ responses \in Seq(Response)
  BY DEF TypeOK
<1>2. Coming \in Seq(Response) /\ Len(Coming) = Len(downstream) + Len(responses)
  BY <1>1 DEF Coming
<1>3. \A r \in Response : r.of \in Nat
  BY DEF Response
<1>4. \A i \in 1..Len(Coming) : Coming[i] \in Response
  BY <1>2
<1>5. QED
  BY <1>2, <1>3, <1>4 DEF TypeOK

LEMMA TellingAdds ==
    ASSUME TypeOK, NEW kind \in Said, NEW of \in Nat, Tells(kind, of),
           UNCHANGED downstream
    PROVE  Adds(kind, of)
<1>1. PICK tls \in BOOLEAN : responses' = Append(responses, Says(kind, tls, of))
  BY DEF Tells
<1> DEFINE r == Says(kind, tls, of)
<1>2. r \in Response /\ r.kind = kind /\ r.of = of
  BY DEF Says, Response, Said
<1> HIDE DEF r
<1>3. downstream \in Seq(Response) /\ responses \in Seq(Response)
  BY DEF TypeOK
<1>4. responses' = Append(responses, r)
  BY <1>1 DEF r
<1>5. Coming' = downstream \o Append(responses, r)
  BY <1>4 DEF Coming
<1>6. /\ Len(Coming') = Len(Coming) + 1
      /\ Coming'[Len(Coming) + 1] = r
      /\ Len(Coming) = Len(downstream) + Len(responses)
  BY <1>2, <1>3, <1>5 DEF Coming
<1>7. ASSUME NEW i \in 1..Len(Coming)
      PROVE  Coming'[i] = Coming[i]
  <2>1. CASE i <= Len(downstream)
    BY <1>2, <1>3, <1>5, <1>6, <2>1 DEF Coming
  <2>2. CASE i > Len(downstream)
    <3>1. i - Len(downstream) \in 1..Len(responses)
      BY <1>3, <1>6, <2>2
    <3>2. Coming[i] = responses[i - Len(downstream)]
      BY <1>3, <1>6, <2>2 DEF Coming
    <3>3. Coming'[i] = Append(responses, r)[i - Len(downstream)]
      BY <1>2, <1>3, <1>5, <1>6, <2>2
    <3>4. QED
      BY <1>2, <1>3, <3>1, <3>2, <3>3
  <2>3. i <= Len(downstream) \/ i > Len(downstream)
    BY <1>3, <1>6
  <2>4. QED
    BY <2>1, <2>2, <2>3
<1>8. QED
  BY <1>2, <1>6, <1>7 DEF Adds

LEMMA FailingLoses ==
    ASSUME TypeOK, responses' = <<>>, UNCHANGED downstream
    PROVE  Loses
<1>1. downstream \in Seq(Response) /\ responses \in Seq(Response)
  BY DEF TypeOK
<1>2. Coming' = downstream
  BY <1>1 DEF Coming
<1>3. Len(Coming) = Len(downstream) + Len(responses)
      /\ \A i \in 1..Len(downstream) : Coming[i] = downstream[i]
  BY <1>1 DEF Coming
<1>4. QED
  BY <1>1, <1>2, <1>3 DEF Loses

LEMMA SendingOn ==
    ASSUME TypeOK, Answers
    PROVE  Coming' = Coming
<1>1. downstream \in Seq(Response) /\ responses \in Seq(Response)
  BY DEF TypeOK
<1>2. downstream' = downstream \o responses /\ responses' = <<>>
  BY DEF Answers
<1>3. \A s \in Seq(Response) : s \o <<>> = s
  OBVIOUS
<1>4. QED
  BY <1>1, <1>2, <1>3 DEF Coming

LEMMA HearingTakes ==
    ASSUME TypeOK, Hears
    PROVE  /\ Len(Coming) > 0 /\ Len(Coming') = Len(Coming) - 1
           /\ Head(downstream) = Coming[1]
           /\ \A i \in 1..(Len(Coming) - 1) : Coming'[i] = Coming[i + 1]
           /\ heard' = IF Coming[1].kind = "answer" THEN Append(heard, Coming[1].of)
                       ELSE heard
           /\ place' = Moves(Coming[1].kind)
<1>1. /\ downstream \in Seq(Response) /\ responses \in Seq(Response)
      /\ downstream # <<>> /\ UNCHANGED responses
      /\ downstream' = Tail(downstream)
  BY DEF TypeOK, Hears, server
<1>2. /\ Len(downstream) > 0 /\ Head(downstream) = downstream[1]
      /\ Tail(downstream) \in Seq(Response)
      /\ Len(Tail(downstream)) = Len(downstream) - 1
      /\ \A i \in 1..(Len(downstream) - 1) : Tail(downstream)[i] = downstream[i + 1]
  BY <1>1
<1>3. Coming' = Tail(downstream) \o responses
  BY <1>1 DEF Coming
<1>4. /\ Len(Coming) = Len(downstream) + Len(responses)
      /\ Len(Coming') = Len(downstream) - 1 + Len(responses)
      /\ Coming[1] = downstream[1]
  BY <1>1, <1>2, <1>3 DEF Coming
<1>5. ASSUME NEW i \in 1..(Len(Coming) - 1)
      PROVE  Coming'[i] = Coming[i + 1]
  <2>1. CASE i <= Len(downstream) - 1
    BY <1>1, <1>2, <1>3, <1>4, <2>1 DEF Coming
  <2>2. CASE i > Len(downstream) - 1
    <3>1. Coming'[i] = responses[i - (Len(downstream) - 1)]
      BY <1>1, <1>2, <1>3, <1>4, <2>2
    <3>2. Coming[i + 1] = responses[i + 1 - Len(downstream)]
      BY <1>1, <1>4, <2>2 DEF Coming
    <3>3. i - (Len(downstream) - 1) = i + 1 - Len(downstream)
      BY <1>1, <1>2
    <3>4. QED
      BY <3>1, <3>2, <3>3
  <2>3. i <= Len(downstream) - 1 \/ i > Len(downstream) - 1
    BY <1>1, <1>2
  <2>4. QED
    BY <2>1, <2>2, <2>3
<1>6. QED
  BY <1>1, <1>2, <1>4, <1>5 DEF Hears

(* What the client sends comes after all that is on its way.               *)
Brings(packets) ==
    /\ Len(Pending') = Len(Pending) + Len(packets)
    /\ \A i \in 1..Len(Pending) : Pending'[i] = Pending[i]
    /\ \A i \in 1..Len(packets) :
          /\ Pending'[Len(Pending) + i].kind = packets[i].kind
          /\ Pending'[Len(Pending) + i].last = packets[i].last
          /\ Pending'[Len(Pending) + i].of = packets[i].of

LEMMA SendingBrings ==
    ASSUME TypeOK, NEW packets \in Seq(Packet), wire' = wire \o packets,
           UNCHANGED server
    PROVE  Brings(packets) /\ UNCHANGED Held
<1>1. UNCHANGED Kept /\ UNCHANGED buffer /\ UNCHANGED Held
  BY DEF Kept, server, Held
<1>2. /\ Kept \o buffer \in Seq(Packet) /\ wire \in Seq(Packet)
      /\ (Kept \o buffer) \o wire \in Seq(Packet)
  <2>1. Kept \in Seq(Packet) /\ buffer \in Seq(Packet) /\ wire \in Seq(Packet)
    BY HeldIs DEF TypeOK
  <2>2. \A s, t \in Seq(Packet) : s \o t \in Seq(Packet)
    OBVIOUS
  <2>3. QED
    BY <2>1, <2>2
<1> DEFINE before == Kept \o buffer
<1>3. before \o (wire \o packets) = (before \o wire) \o packets
  <2> HIDE DEF before
  <2>1. before \in Seq(Packet)
    BY <1>2 DEF before
  <2>2. (before \o wire) \o packets \in Seq(Packet)
        /\ before \o (wire \o packets) \in Seq(Packet)
        /\ Len((before \o wire) \o packets) = Len(before \o (wire \o packets))
    BY <1>2, <2>1
  <2>3. \A i \in 1..Len((before \o wire) \o packets) :
           ((before \o wire) \o packets)[i] = (before \o (wire \o packets))[i]
    BY <1>2, <2>1
  <2>4. QED
    BY <2>2, <2>3, SameSequence
<1>4. Pending' = Pending \o Decrypted(packets)
  BY <1>1, <1>2, <1>3, DecryptedOfBoth DEF Pending
<1>5. /\ Pending \in Seq(Packet) /\ Decrypted(packets) \in Seq(Packet)
      /\ Len(Decrypted(packets)) = Len(packets)
  BY HeldIs, DecryptedIs, DecryptedIsASequence
<1>6. /\ Len(Pending') = Len(Pending) + Len(packets)
      /\ \A i \in 1..Len(Pending) : Pending'[i] = Pending[i]
      /\ \A i \in 1..Len(packets) : Pending'[Len(Pending) + i] = Decrypted(packets)[i]
  <2> DEFINE sent == Decrypted(packets)
  <2>1. /\ Pending \in Seq(Packet) /\ sent \in Seq(Packet)
        /\ Pending' = Pending \o sent /\ Len(sent) = Len(packets)
    BY <1>4, <1>5
  <2> HIDE DEF sent
  <2>2. /\ Len(Pending') = Len(Pending) + Len(sent)
        /\ \A i \in 1..Len(Pending) : Pending'[i] = Pending[i]
        /\ \A i \in 1..Len(sent) : Pending'[Len(Pending) + i] = sent[i]
    <3>1. /\ Len(Pending \o sent) = Len(Pending) + Len(sent)
          /\ \A i \in 1..Len(Pending) : (Pending \o sent)[i] = Pending[i]
          /\ \A i \in 1..Len(sent) : (Pending \o sent)[Len(Pending) + i] = sent[i]
      <4>1. Pending \in Seq(Packet) /\ sent \in Seq(Packet)
        BY <2>1
      <4>2. QED
        BY <4>1, JoinedPackets, Zenon
    <3>2. QED
      BY <2>1, <3>1, Zenon
  <2>3. QED
    BY <2>1, <2>2 DEF sent
<1>7. \A i \in 1..Len(packets) :
         /\ Decrypted(packets)[i].kind = packets[i].kind
         /\ Decrypted(packets)[i].last = packets[i].last
         /\ Decrypted(packets)[i].of = packets[i].of
  BY DecryptedIs
<1>8. QED
  BY <1>1, <1>6, <1>7 DEF Brings

-------------------------------------------------------------------------------
(* A refusal is told, and requests are answered in their order: what is    *)
(* answered is behind what waits, and what waits is in order too.          *)

RefusalIsTold ==
    /\ thread # "ended" /\ state = "FAILED" => why = "refused"
    /\ why = "refused" =>
          /\ state = "FAILED"
          /\ place = "out" \/ \E i \in DOMAIN Coming : Coming[i].kind = "refusal"

Replies == {i \in DOMAIN Coming : Coming[i].kind = "answer"}
RepliesInOrder ==
    /\ \A i, j \in DOMAIN heard : i < j => heard[i] < heard[j]
    /\ \A i \in DOMAIN heard : heard[i] \in 1..asked
    /\ \A i \in Replies : Coming[i].of \in 1..asked
    /\ \A i \in Replies, n \in DOMAIN heard : heard[n] < Coming[i].of
    /\ \A i, j \in Replies : i < j => Coming[i].of < Coming[j].of

Waiting == {i \in DOMAIN Pending : Pending[i].kind \in Requests}
WaitingInOrder ==
    /\ \A i \in Waiting : Pending[i].of \in 1..asked
    /\ \A i \in Waiting, n \in DOMAIN heard : heard[n] < Pending[i].of
    /\ \A i \in Waiting, j \in Replies : Coming[j].of < Pending[i].of
    /\ \A i, j \in Waiting : i < j =>
          \/ Pending[i].of < Pending[j].of
          \/ Pending[i].of = Pending[j].of /\ ~Pending[i].last /\ j = i + 1

Orderly == /\ RefusalIsTold /\ RepliesInOrder
           /\ state # "FAILED" => WaitingInOrder

LEMMA RepliesStay ==
    ASSUME TypeOK, TypeOK', RepliesInOrder, UNCHANGED heard, asked' \in Nat,
           asked <= asked', Loses
    PROVE  RepliesInOrder'
<1>1. /\ DOMAIN Coming = 1..Len(Coming) /\ Len(Coming) \in Nat /\ asked \in Nat
      /\ DOMAIN Coming' = 1..Len(Coming') /\ Len(Coming') \in Nat
  <2>1. Coming' \in Seq(Response)
    BY DEF TypeOK, Coming
  <2>2. QED
    BY <2>1, ComingIs
<1>2. \A i \in Replies' : i \in Replies /\ Coming'[i] = Coming[i]
  BY <1>1 DEF Replies, Loses
<1>3. \A n : n \in 1..asked => n \in 1..asked'
  BY <1>1
<1>4. QED
  BY <1>2, <1>3 DEF RepliesInOrder

LEMMA ComingStays ==
    ASSUME TypeOK, UNCHANGED Coming
    PROVE  Loses
  BY ComingIs DEF Loses

LEMMA RepliesAdded ==
    ASSUME TypeOK, TypeOK', RepliesInOrder, UNCHANGED <<heard, asked>>,
           NEW kind, NEW of, Adds(kind, of),
           kind = "answer" => /\ of \in 1..asked
                              /\ \A n \in DOMAIN heard : heard[n] < of
                              /\ \A i \in Replies : Coming[i].of < of
    PROVE  RepliesInOrder'
<1>1. /\ DOMAIN Coming = 1..Len(Coming) /\ Len(Coming) \in Nat /\ asked \in Nat
      /\ DOMAIN Coming' = 1..Len(Coming') /\ Len(Coming') \in Nat
  <2>1. Coming' \in Seq(Response)
    BY DEF TypeOK, Coming
  <2>2. QED
    BY <2>1, ComingIs
<1>2. \A i \in Replies' : \/ i \in Replies /\ Coming'[i] = Coming[i] /\ i <= Len(Coming)
                          \/ i = Len(Coming) + 1 /\ kind = "answer" /\ Coming'[i].of = of
  BY <1>1 DEF Replies, Adds
<1>3. \A i \in Replies : i \in Nat /\ i <= Len(Coming)
  BY <1>1 DEF Replies
<1>4. \A i, j \in Replies' : i < j => Coming'[i].of < Coming'[j].of
  BY <1>1, <1>2, <1>3 DEF RepliesInOrder
<1>5. QED
  BY <1>2, <1>4 DEF RepliesInOrder

LEMMA RepliesHeard ==
    ASSUME TypeOK, TypeOK', RepliesInOrder, Hears
    PROVE  RepliesInOrder'
<1>1. /\ DOMAIN Coming = 1..Len(Coming) /\ Len(Coming) \in Nat /\ asked \in Nat
      /\ DOMAIN Coming' = 1..Len(Coming') /\ Len(Coming') \in Nat
      /\ heard \in Seq(Nat) /\ UNCHANGED asked
      /\ \A i \in 1..Len(Coming) : Coming[i].of \in Nat
  <2>1. Coming' \in Seq(Response)
    BY DEF TypeOK, Coming
  <2>2. QED
    BY <2>1, ComingIs DEF Hears
<1>2. /\ Len(Coming) > 0 /\ Len(Coming') = Len(Coming) - 1
      /\ \A i \in 1..(Len(Coming) - 1) : Coming'[i] = Coming[i + 1]
      /\ heard' = IF Coming[1].kind = "answer" THEN Append(heard, Coming[1].of)
                  ELSE heard
  BY HearingTakes
<1>3. \A i \in Replies' : /\ i \in Nat /\ i + 1 \in Replies /\ 1 < i + 1
                          /\ Coming'[i] = Coming[i + 1]
  BY <1>1, <1>2 DEF Replies
<1>4. \A i, j \in Replies' : i < j => Coming'[i].of < Coming'[j].of
  BY <1>3 DEF RepliesInOrder
<1>5. CASE Coming[1].kind = "answer"
  <2>1. 1 \in Replies
    BY <1>1, <1>2, <1>5 DEF Replies
  <2>2. \A n \in DOMAIN heard' : \/ n \in DOMAIN heard /\ heard'[n] = heard[n] /\ n <= Len(heard)
                                 \/ n = Len(heard) + 1 /\ heard'[n] = Coming[1].of
    BY <1>1, <1>2, <1>5
  <2>3. \A n \in DOMAIN heard' : heard'[n] \in 1..asked
    BY <2>1, <2>2 DEF RepliesInOrder
  <2>4. \A m, n \in DOMAIN heard' : m < n => heard'[m] < heard'[n]
    <3>1. \A n \in DOMAIN heard' : n \in Nat
      BY <1>1, <1>2, <1>5
    <3>2. Len(heard) \in Nat
      BY <1>1
    <3>3. QED
      BY <2>1, <2>2, <3>1, <3>2 DEF RepliesInOrder
  <2>5. \A i \in Replies', n \in DOMAIN heard' : heard'[n] < Coming'[i].of
    BY <1>3, <2>1, <2>2 DEF RepliesInOrder
  <2>6. QED
    BY <1>1, <1>3, <1>4, <2>3, <2>4, <2>5 DEF RepliesInOrder
<1>6. CASE Coming[1].kind # "answer"
  BY <1>1, <1>2, <1>3, <1>4, <1>6 DEF RepliesInOrder
<1>7. QED
  BY <1>5, <1>6

LEMMA HeldComesFirst ==
    ASSUME TypeOK
    PROVE  /\ Len(Held) \in Nat /\ Len(Held) <= Len(Pending) /\ Len(Pending) \in Nat
           /\ DOMAIN Pending = 1..Len(Pending) /\ DOMAIN Held = 1..Len(Held)
           /\ \A i \in 1..Len(Held) : Pending[i] = Held[i]
           /\ \A i \in 1..Len(Pending) : Pending[i].of \in Nat
           /\ Whole(Held) => /\ FirstEnd(Held) \in 1..Len(Held)
                             /\ Held[FirstEnd(Held)].last
                             /\ \A i \in 1..Len(Held) : Held[i].last => FirstEnd(Held) <= i
                             /\ Message(Held) = Pending[1]
<1>1. /\ Held \in Seq(Packet) /\ Pending \in Seq(Packet)
      /\ Pending = Held \o Decrypted(wire) /\ Decrypted(wire) \in Seq(Packet)
  BY HeldIs, DecryptedIsASequence DEF TypeOK
<1>2. /\ Len(Held) \in Nat /\ Len(Held) <= Len(Pending) /\ Len(Pending) \in Nat
      /\ \A i \in 1..Len(Held) : Pending[i] = Held[i]
  <2>1. ASSUME NEW u \in Seq(Packet), NEW v \in Seq(Packet)
        PROVE  Len(u) <= Len(u \o v) /\ \A i \in 1..Len(u) : (u \o v)[i] = u[i]
    OBVIOUS
  <2>2. QED
    BY <1>1, <2>1
<1>3. \A p \in Packet : p.of \in Nat
  BY DEF Packet
<1>4. DOMAIN Held = 1..Len(Held) /\ DOMAIN Pending = 1..Len(Pending)
      /\ \A i \in 1..Len(Pending) : Pending[i] \in Packet
  BY <1>1
<1>5. ASSUME Whole(Held)
      PROVE  /\ FirstEnd(Held) \in 1..Len(Held) /\ Held[FirstEnd(Held)].last
             /\ \A i \in 1..Len(Held) : Held[i].last => FirstEnd(Held) <= i
             /\ Message(Held) = Pending[1]
  <2>1. Ends(Held) \subseteq Nat /\ Ends(Held) # {}
    BY <1>4, <1>5 DEF Ends, Whole
  <2>2. \E i \in Ends(Held) : \A j \in Ends(Held) : i <= j
    BY <2>1, Smallest
  <2>3. FirstEnd(Held) \in Ends(Held) /\ \A j \in Ends(Held) : FirstEnd(Held) <= j
    BY <2>2, Zenon DEF FirstEnd
  <2>4. FirstEnd(Held) \in 1..Len(Held) /\ Held[FirstEnd(Held)].last
        /\ \A i \in 1..Len(Held) : Held[i].last => FirstEnd(Held) <= i
    BY <1>4, <2>3 DEF Ends
  <2>5. 1 \in 1..Len(Held)
    BY <1>2, <2>4
  <2>6. QED
    BY <1>2, <2>4, <2>5 DEF Message
<1>6. QED
  BY <1>2, <1>3, <1>4, <1>5

LEMMA WaitingStays ==
    ASSUME WaitingInOrder, UNCHANGED <<Pending, Coming, heard, asked>>
    PROVE  WaitingInOrder'
  BY DEF WaitingInOrder, Waiting, Replies

LEMMA WaitingTaken ==
    ASSUME TypeOK, TypeOK', WaitingInOrder, Takes, UNCHANGED <<heard, asked>>,
           \/ UNCHANGED Coming
           \/ \E kind, of : /\ Adds(kind, of)
                            /\ kind = "answer" => /\ Message(Held).kind \in Requests
                                                  /\ of = Message(Held).of
    PROVE  WaitingInOrder'
<1>1. PICK m \in FirstEnd(Held)..Len(Held) : Drops(m)
  BY TakingDrops
<1>2. /\ Len(Pending) \in Nat /\ Len(Held) \in Nat /\ Len(Held) <= Len(Pending)
      /\ FirstEnd(Held) \in 1..Len(Held) /\ Pending[FirstEnd(Held)].last
      /\ Message(Held) = Pending[1] /\ DOMAIN Pending = 1..Len(Pending)
      /\ \A i \in 1..Len(Pending) : Pending[i].of \in Nat
  BY HeldComesFirst DEF Takes
<1>3. /\ DOMAIN Pending' = 1..Len(Pending') /\ Len(Pending') = Len(Pending) - m
      /\ \A i \in 1..(Len(Pending) - m) : Pending'[i] = Pending[i + m]
      /\ m \in Nat /\ m >= 1 /\ m >= FirstEnd(Held)
  <2>1. Pending' \in Seq(Packet)
    <3>1. buffer' \in Seq(Packet) /\ wire' \in Seq(Packet) /\ plaintext' \in Seq(Packet)
      BY DEF TypeOK
    <3>2. Kept' \in Seq(Packet)
      BY <3>1, DecryptedNothing DEF Kept
    <3>3. \A s, t \in Seq(Packet) : s \o t \in Seq(Packet)
      OBVIOUS
    <3>4. Kept' \o buffer' \o wire' \in Seq(Packet)
      BY <3>1, <3>2, <3>3
    <3>5. QED
      BY <3>4, DecryptedIsASequence DEF Pending
  <2>2. QED
    BY <1>1, <1>2, <2>1 DEF Drops
<1>4. \A i \in Waiting' : /\ i \in Nat /\ i >= 1 /\ i + m \in Waiting /\ i + m > 1
                          /\ Pending'[i] = Pending[i + m]
  BY <1>2, <1>3 DEF Waiting
<1>5. ASSUME 1 \in Waiting, NEW i \in Waiting'
      PROVE  Pending[1].of < Pending'[i].of
  <2>1. \/ Pending[1].of < Pending[i + m].of
        \/ ~Pending[1].last /\ i + m = 1 + 1
    BY <1>4, <1>5 DEF WaitingInOrder
  <2>2. ASSUME ~Pending[1].last, i + m = 1 + 1
        PROVE  FALSE
    <3>0. i \in Nat /\ i >= 1
      BY <1>4
    <3>1. m = 1
      BY <1>3, <2>2, <3>0
    <3>2. FirstEnd(Held) = 1
      BY <1>2, <1>3, <3>1
    <3>3. QED
      BY <1>2, <2>2, <3>2
  <2>3. QED
    BY <1>4, <2>1, <2>2
<1>6. \A i \in Replies' : \/ i \in Replies /\ Coming'[i] = Coming[i]
                          \/ 1 \in Waiting /\ Coming'[i].of = Pending[1].of
  <2>1. CASE UNCHANGED Coming
    BY <2>1 DEF Replies
  <2>2. ASSUME NEW kind, NEW of, Adds(kind, of),
               kind = "answer" => Pending[1].kind \in Requests /\ of = Pending[1].of
        PROVE  \A i \in Replies' : \/ i \in Replies /\ Coming'[i] = Coming[i]
                                   \/ 1 \in Waiting /\ Coming'[i].of = Pending[1].of
    <3>1. /\ DOMAIN Coming = 1..Len(Coming) /\ Len(Coming) \in Nat
          /\ DOMAIN Coming' = 1..(Len(Coming) + 1)
      <4>1. Coming' \in Seq(Response)
        BY DEF TypeOK, Coming
      <4>2. QED
        BY <2>2, <4>1, ComingIs DEF Adds
    <3>2. 1 \in DOMAIN Pending
      BY <1>2
    <3>3. QED
      BY <2>2, <3>1, <3>2 DEF Adds, Replies, Waiting
  <2>3. QED
    BY <1>2, <2>1, <2>2
<1>7. \A i \in Waiting' :
         /\ Pending'[i].of \in 1..asked
         /\ \A n \in DOMAIN heard : heard[n] < Pending'[i].of
         /\ \A j \in Replies : Coming[j].of < Pending'[i].of
  BY <1>4 DEF WaitingInOrder
<1>8. ASSUME NEW i \in Waiting', NEW j \in Replies'
      PROVE  Coming'[j].of < Pending'[i].of
  <2>1. CASE j \in Replies /\ Coming'[j] = Coming[j]
    BY <1>7, <2>1
  <2>2. CASE 1 \in Waiting /\ Coming'[j].of = Pending[1].of
    BY <1>5, <2>2
  <2>3. QED
    BY <1>6, <2>1, <2>2
<1>9. ASSUME NEW i \in Waiting', NEW j \in Waiting', i < j
      PROVE  \/ Pending'[i].of < Pending'[j].of
             \/ Pending'[i].of = Pending'[j].of /\ ~Pending'[i].last /\ j = i + 1
  <2>1. /\ i \in Nat /\ i + m \in Waiting /\ Pending'[i] = Pending[i + m]
        /\ j \in Nat /\ j + m \in Waiting /\ Pending'[j] = Pending[j + m]
    BY <1>4
  <2>2. i + m < j + m
    BY <1>3, <1>9, <2>1
  <2>3. \/ Pending[i + m].of < Pending[j + m].of
        \/ Pending[i + m].of = Pending[j + m].of /\ ~Pending[i + m].last /\ j + m = i + m + 1
    BY <2>1, <2>2 DEF WaitingInOrder
  <2>4. j + m = i + m + 1 => j = i + 1
    BY <1>3, <2>1
  <2>5. QED
    BY <2>1, <2>3, <2>4
<1>10. QED
  BY <1>7, <1>8, <1>9 DEF WaitingInOrder

LEMMA WaitingBrought ==
    ASSUME TypeOK, TypeOK', RepliesInOrder, WaitingInOrder,
           UNCHANGED <<Coming, heard>>, NEW packets \in Seq(Packet), Brings(packets),
           asked <= asked',
           \A i \in 1..Len(packets) : packets[i].kind \in Requests =>
               packets[i].of = asked' /\ asked' = asked + 1,
           \A i, j \in 1..Len(packets) :
               packets[i].kind \in Requests /\ packets[j].kind \in Requests /\ i < j =>
                   ~packets[i].last /\ j = i + 1
    PROVE  WaitingInOrder'
<1>1. /\ Len(Pending) \in Nat /\ DOMAIN Pending = 1..Len(Pending)
      /\ asked \in Nat /\ asked' \in Nat /\ Len(packets) \in Nat
      /\ \A i \in 1..Len(Pending) : Pending[i].of \in Nat
  BY HeldComesFirst DEF TypeOK
<1>2. DOMAIN Pending' = 1..(Len(Pending) + Len(packets))
  <2>1. Pending' \in Seq(Packet)
    <3>1. buffer' \in Seq(Packet) /\ wire' \in Seq(Packet) /\ plaintext' \in Seq(Packet)
      BY DEF TypeOK
    <3>2. Kept' \in Seq(Packet)
      BY <3>1, DecryptedNothing DEF Kept
    <3>3. \A s, t \in Seq(Packet) : s \o t \in Seq(Packet)
      OBVIOUS
    <3>4. Kept' \o buffer' \o wire' \in Seq(Packet)
      BY <3>1, <3>2, <3>3
    <3>5. QED
      BY <3>4, DecryptedIsASequence DEF Pending
  <2>2. QED
    BY <2>1 DEF Brings
<1> DEFINE New(i) == /\ i - Len(Pending) \in 1..Len(packets)
                     /\ packets[i - Len(Pending)].kind \in Requests
                     /\ Pending'[i].of = asked' /\ asked' = asked + 1
                     /\ Pending'[i].last = packets[i - Len(Pending)].last
<1>3. ASSUME NEW i \in Waiting'
      PROVE  (i \in Waiting /\ Pending'[i] = Pending[i] /\ i <= Len(Pending)) \/ New(i)
  <2>1. i \in 1..(Len(Pending) + Len(packets)) /\ Pending'[i].kind \in Requests
    BY <1>2 DEF Waiting
  <2>2. CASE i <= Len(Pending)
    <3>1. i \in 1..Len(Pending) /\ Pending'[i] = Pending[i]
      BY <1>1, <2>1, <2>2 DEF Brings
    <3>2. QED
      BY <1>1, <2>1, <2>2, <3>1 DEF Waiting
  <2>3. CASE i > Len(Pending)
    <3> DEFINE k == i - Len(Pending)
    <3>1. k \in 1..Len(packets) /\ i = Len(Pending) + k
      BY <1>1, <2>1, <2>3
    <3> HIDE DEF k
    <3>2. /\ packets[k].kind \in Requests /\ Pending'[i].of = packets[k].of
          /\ Pending'[i].last = packets[k].last
      BY <2>1, <3>1 DEF Brings
    <3>3. packets[k].of = asked' /\ asked' = asked + 1
      BY <3>1, <3>2
    <3>4. QED
      BY <3>1, <3>2, <3>3 DEF k
  <2>4. QED
    BY <1>1, <2>1, <2>2, <2>3
<1>4. ASSUME NEW i \in Waiting'
      PROVE  /\ Pending'[i].of \in 1..asked'
             /\ \A n \in DOMAIN heard : heard[n] < Pending'[i].of
             /\ \A j \in Replies : Coming[j].of < Pending'[i].of
  <2>1. CASE i \in Waiting /\ Pending'[i] = Pending[i]
    BY <1>1, <2>1 DEF WaitingInOrder
  <2>2. CASE New(i)
    BY <1>1, <2>2 DEF RepliesInOrder
  <2>3. QED
    BY <1>3, <2>1, <2>2
<1>5. ASSUME NEW i \in Waiting', NEW j \in Waiting', i < j
      PROVE  \/ Pending'[i].of < Pending'[j].of
             \/ Pending'[i].of = Pending'[j].of /\ ~Pending'[i].last /\ j = i + 1
  <2>0. i \in Nat /\ j \in Nat
    BY <1>1, <1>2 DEF Waiting
  <2>1. CASE i \in Waiting /\ Pending'[i] = Pending[i] /\ New(j)
    <3>1. Pending[i].of \in 1..asked
      BY <2>1 DEF WaitingInOrder
    <3>2. Pending'[j].of = asked + 1
      BY <2>1
    <3>3. QED
      BY <1>1, <2>1, <3>1, <3>2
  <2>2. CASE i \in Waiting /\ Pending'[i] = Pending[i] /\ j \in Waiting /\ Pending'[j] = Pending[j]
    BY <1>5, <2>2 DEF WaitingInOrder
  <2>3. CASE New(i) /\ New(j)
    <3> DEFINE k == i - Len(Pending)  l == j - Len(Pending)
    <3>1. k \in 1..Len(packets) /\ l \in 1..Len(packets) /\ k < l
      BY <1>1, <1>5, <2>0, <2>3
    <3>2. packets[k].kind \in Requests /\ packets[l].kind \in Requests
          /\ Pending'[i].of = Pending'[j].of /\ Pending'[i].last = packets[k].last
      BY <2>3
    <3> HIDE DEF k, l
    <3>3. ~packets[k].last /\ l = k + 1
      BY <3>1, <3>2
    <3>4. j = i + 1
      BY <1>1, <2>0, <3>3 DEF k, l
    <3>5. QED
      BY <3>2, <3>3, <3>4
  <2>4. CASE New(i) /\ j <= Len(Pending)
    BY <1>1, <1>5, <2>0, <2>4
  <2>5. QED
    BY <1>3, <2>1, <2>2, <2>3, <2>4
<1>6. \A i \in Replies' : i \in Replies /\ Coming'[i] = Coming[i]
  BY DEF Replies
<1>7. QED
  BY <1>4, <1>5, <1>6 DEF WaitingInOrder

(* What a client sends of a request is numbered next, and is of one number.*)
Follows(packets) ==
    /\ \A i \in 1..Len(packets) : packets[i].kind \in Requests =>
           packets[i].of = asked' /\ asked' = asked + 1
    /\ \A i, j \in 1..Len(packets) :
           packets[i].kind \in Requests /\ packets[j].kind \in Requests /\ i < j =>
               ~packets[i].last /\ j = i + 1
Sending(packets) ==
    /\ wire' = wire \o packets /\ UNCHANGED <<server, downstream, heard>>
    /\ asked <= asked' /\ place # "out" /\ place' # "out"
    /\ Follows(packets)

LEMMA OneFollows ==
    ASSUME NEW p \in Packet,
           p.kind \in Requests => p.of = asked' /\ asked' = asked + 1
    PROVE  <<p>> \in Seq(Packet) /\ Follows(<<p>>)
  BY DEF Follows

LEMMA TwoFollow ==
    ASSUME NEW p \in Packet, NEW q \in Packet, ~p.last,
           p.kind \in Requests => p.of = asked' /\ asked' = asked + 1,
           q.kind \in Requests => q.of = asked' /\ asked' = asked + 1
    PROVE  <<p, q>> \in Seq(Packet) /\ Follows(<<p, q>>)
<1>1. <<p, q>> \in Seq(Packet) /\ Len(<<p, q>>) = 2
      /\ <<p, q>>[1] = p /\ <<p, q>>[2] = q
  OBVIOUS
<1> DEFINE s == <<p, q>>
<1>2. \A i \in 1..2 : i = 1 \/ i = 2
  OBVIOUS
<1>3. Len(s) = 2 /\ s[1] = p /\ s[2] = q
  BY <1>1
<1> HIDE DEF s
<1>4. Follows(s)
  BY <1>2, <1>3 DEF Follows
<1>5. QED
  BY <1>1, <1>4 DEF s

LEMMA MessagesFollow ==
    ASSUME NEW kind \in Kinds, NEW tls \in BOOLEAN, NEW of \in Nat,
           NEW packets \in Packets(kind, tls, of),
           kind \in Requests => of = asked' /\ asked' = asked + 1
    PROVE  packets \in Seq(Packet) /\ Follows(packets)
<1> DEFINE p == Bytes(kind, tls, TRUE, of)  q == Bytes(kind, tls, FALSE, of)
<1>1. /\ p \in Packet /\ p.kind = kind /\ p.of = of
      /\ q \in Packet /\ q.kind = kind /\ q.of = of /\ ~q.last
  BY DEF Bytes, Packet
<1>2. packets = <<p>> \/ packets = <<q, p>>
  BY DEF Packets
<1> HIDE DEF p, q
<1>3. QED
  BY <1>1, <1>2, OneFollows, TwoFollow

LEMMA OtherKinds ==
    /\ {"prelogin", "part", "flight", "login7", "sspi"} \subseteq Kinds \ Requests
    /\ Requests \subseteq Kinds
  BY DEF Kinds, Requests

LEMMA OtherIs ==
    ASSUME NEW kind \in Kinds \ Requests, NEW tls \in BOOLEAN
    PROVE  /\ <<Bytes(kind, tls, TRUE, 0)>> \in Seq(Packet)
           /\ Follows(<<Bytes(kind, tls, TRUE, 0)>>)
<1> DEFINE p == Bytes(kind, tls, TRUE, 0)
<1>1. TRUE \in BOOLEAN /\ 0 \in Nat /\ kind \in Kinds
  OBVIOUS
<1>2. p \in Packet /\ p.kind = kind
  BY <1>1 DEF Bytes, Packet
<1> HIDE DEF p
<1>3. <<p>> \in Seq(Packet) /\ Follows(<<p>>)
  BY <1>2, OneFollows
<1>4. QED
  BY <1>3 DEF p

LEMMA ClientSends ==
    ASSUME TypeOK, Client, ~Hears, ~GoesAway
    PROVE  \E packets \in Seq(Packet) : Sending(packets)
<1>0. /\ asked \in Nat /\ asked + 1 \in Nat /\ Covered \in BOOLEAN
      /\ asked <= asked /\ asked <= asked + 1
  BY DEF TypeOK, Covered
<1>2. ASSUME NEW packets \in Seq(Packet), Sends(packets), Follows(packets),
             place # "out", place' # "out", asked <= asked'
      PROVE  \E s \in Seq(Packet) : Sending(s)
  BY <1>2 DEF Sends, Sending
<1>3. CASE Opens
  <2>1. /\ <<Bytes("prelogin", FALSE, TRUE, 0)>> \in Seq(Packet)
        /\ Follows(<<Bytes("prelogin", FALSE, TRUE, 0)>>)
    BY OtherKinds, OtherIs
  <2>2. Sends(<<Bytes("prelogin", FALSE, TRUE, 0)>>)
    BY <1>3 DEF Opens
  <2>3. place # "out" /\ place' # "out" /\ asked <= asked'
    BY <1>0, <1>3 DEF Opens
  <2>4. QED
    BY <1>2, <2>1, <2>2, <2>3
<1>4. CASE Shakes
  <2> DEFINE p == Bytes("part", FALSE, TRUE, 0)  q == Bytes("flight", FALSE, TRUE, 0)
  <2>1. <<q>> \in Seq(Packet) /\ Follows(<<q>>)
    BY OtherKinds, OtherIs
  <2>2. <<p, q>> \in Seq(Packet) /\ Follows(<<p, q>>)
    <3>1. /\ p \in Packet /\ q \in Packet
          /\ p.kind = "part" /\ q.kind = "flight"
      BY DEF Bytes, Packet, Kinds
    <3> HIDE DEF p, q
    <3>2. <<p, q>> \in Seq(Packet) /\ Len(<<p, q>>) = 2
          /\ <<p, q>>[1] = p /\ <<p, q>>[2] = q
      BY <3>1
    <3>3. \A i \in 1..2 : <<p, q>>[i].kind \notin Requests
      BY <3>1, <3>2 DEF Requests
    <3>4. Follows(<<p, q>>)
      BY <3>2, <3>3 DEF Follows
    <3>5. QED
      BY <3>2, <3>4
  <2>3. place # "out" /\ place' # "out" /\ asked <= asked'
    BY <1>0, <1>4 DEF Shakes
  <2>4. Sends(<<q>>) \/ Sends(<<p, q>>)
    BY <1>4 DEF Shakes
  <2> HIDE DEF p, q
  <2>5. QED
    BY <1>2, <2>1, <2>2, <2>3, <2>4
<1>5. CASE LogsIn
  <2>1. PICK packets \in Packets("login7", TRUE, 0) : Sends(packets)
    BY <1>5 DEF LogsIn
  <2>2. packets \in Seq(Packet) /\ Follows(packets)
    BY MessagesFollow DEF Kinds, Requests
  <2>3. QED
    BY <1>0, <1>2, <1>5, <2>1, <2>2 DEF LogsIn
<1>6. CASE SendsToken \/ Trails
  <2> DEFINE p == Bytes("sspi", Covered, TRUE, 0)
  <2>1. <<p>> \in Seq(Packet) /\ Follows(<<p>>)
    BY <1>0, OtherKinds, OtherIs
  <2>2. Sends(<<p>>) /\ place # "out" /\ place' # "out" /\ asked <= asked'
    BY <1>0, <1>6 DEF SendsToken, Trails
  <2> HIDE DEF p
  <2>3. QED
    BY <1>2, <2>1, <2>2
<1>7. CASE Asks
  <2>1. PICK kind \in Requests \ {"attention"} :
           \E packets \in Packets(kind, Covered, asked') : Sends(packets)
    BY <1>7 DEF Asks
  <2>2. PICK packets \in Packets(kind, Covered, asked') : Sends(packets)
    BY <2>1
  <2>3. asked' = asked + 1 /\ place # "out" /\ place' # "out"
    BY <1>7 DEF Asks
  <2>4. packets \in Seq(Packet) /\ Follows(packets)
    BY <1>0, <2>3, MessagesFollow DEF Kinds
  <2>5. QED
    BY <1>0, <1>2, <2>2, <2>3, <2>4
<1>8. CASE Cancels
  <2> DEFINE p == Bytes("attention", Covered, TRUE, asked')
  <2>1. asked' = asked + 1 /\ place # "out" /\ place' # "out" /\ Sends(<<p>>)
    BY <1>8 DEF Cancels
  <2>2. p \in Packet /\ p.of = asked'
    BY <1>0, <2>1 DEF Bytes, Packet, Kinds, Requests
  <2> HIDE DEF p
  <2>3. <<p>> \in Seq(Packet) /\ Follows(<<p>>)
    BY <2>1, <2>2, OneFollows
  <2>4. QED
    BY <1>0, <1>2, <2>1, <2>3
<1>9. CASE Strays
  <2>1. PICK kind \in Kinds, tls \in BOOLEAN, last \in BOOLEAN :
          /\ asked' = IF kind \in Requests THEN asked + 1 ELSE asked
          /\ wire' = Append(wire, Bytes(kind, tls, last,
                                IF kind \in Requests THEN asked' ELSE 0))
    BY <1>9 DEF Strays
  <2> DEFINE p == Bytes(kind, tls, last, IF kind \in Requests THEN asked' ELSE 0)
  <2>2. asked' \in Nat /\ asked <= asked'
    BY <1>0, <2>1
  <2>3. p \in Packet /\ p.kind = kind /\ (kind \in Requests => p.of = asked')
    BY <2>1, <2>2 DEF Bytes, Packet
  <2>4. wire' = Append(wire, p)
    BY <2>1
  <2> HIDE DEF p
  <2>5. <<p>> \in Seq(Packet) /\ Follows(<<p>>)
    BY <2>1, <2>3, OneFollows
  <2>6. wire' = wire \o <<p>>
    BY <2>3, <2>4 DEF TypeOK
  <2>7. QED
    BY <1>9, <2>2, <2>5, <2>6 DEF Strays, Sending
<1>10. QED
  BY <1>3, <1>4, <1>5, <1>6, <1>7, <1>8, <1>9 DEF Client

LEMMA BridgeIsOrderly ==
    ASSUME TypeOK, TypeOK', Settles, Orderly, Bridge
    PROVE  Orderly'
<1> USE DEF Said
<1>1. CASE Outcome
  <2>1. /\ thread = "stepping" /\ UNCHANGED <<wire, downstream, place, heard, asked>>
        /\ RepliesInOrder /\ RefusalIsTold /\ asked' \in Nat /\ asked <= asked'
        /\ DOMAIN Coming = 1..Len(Coming) /\ DOMAIN Coming' = 1..Len(Coming')
        /\ Len(Coming) \in Nat
    <3>1. Coming' \in Seq(Response)
      BY DEF TypeOK, Coming
    <3>2. QED
      BY <1>1, <3>1, ComingIs DEF Outcome, client, Orderly, TypeOK
  <2>2. ASSUME NEW reason \in Reasons \ {"refused"}, Fails(reason)
        PROVE  Orderly'
    <3>1. /\ state' = "FAILED" /\ why' = reason /\ responses' = <<>>
          /\ thread' = "ended"
      BY <2>2 DEF Fails, Raises
    <3>2. RepliesInOrder'
      BY <2>1, <3>1, FailingLoses, RepliesStay
    <3>3. RefusalIsTold'
      BY <3>1 DEF RefusalIsTold
    <3>4. QED
      BY <3>1, <3>2, <3>3 DEF Orderly
  <2>3. CASE Gathers
    <3>1. UNCHANGED <<Coming, Pending, state, why>>
      BY <2>1, <2>3 DEF Gathers, Keeps, Coming
    <3>2. RepliesInOrder'
      BY <2>1, <3>1, ComingStays, RepliesStay
    <3>3. RefusalIsTold' /\ state # "FAILED"
      BY <2>1, <2>3, <3>1 DEF RefusalIsTold, Gathers
    <3>4. WaitingInOrder'
      BY <2>1, <3>1, <3>3, WaitingStays DEF Orderly
    <3>5. QED
      BY <3>2, <3>3, <3>4 DEF Orderly
  <2>4. CASE Refuses
    <3>1. Adds("refusal", 0)
      BY <2>1, <2>4, TellingAdds DEF Refuses
    <3>2. RepliesInOrder'
      BY <2>1, <3>1, RepliesAdded
    <3>3. Len(Coming) + 1 \in DOMAIN Coming' /\ Coming'[Len(Coming) + 1].kind = "refusal"
      BY <2>1, <3>1 DEF Adds
    <3>4. RefusalIsTold'
      BY <2>4, <3>3 DEF RefusalIsTold, Refuses
    <3>5. QED
      BY <2>4, <3>2, <3>4 DEF Orderly, Refuses
  <2>5. CASE Takes /\ Turns
    <3>1. state # "FAILED" /\ state' # "FAILED" /\ UNCHANGED why
      BY <2>5 DEF Turns, Shaken, Admitted
    <3>2. WaitingInOrder /\ why # "refused" /\ why' # "refused"
      BY <3>1 DEF Orderly, RefusalIsTold
    <3>3. RefusalIsTold'
      BY <3>1, <3>2 DEF RefusalIsTold
    <3>4. Message(Held).of \in Nat /\ Message(Held).of = Pending[1].of
          /\ Message(Held).kind = Pending[1].kind /\ 1 \in DOMAIN Pending
      BY <2>5, HeldComesFirst DEF Takes
    <3>5. \/ UNCHANGED responses
          \/ \E kind \in Said \ {"answer"} : Tells(kind, 0)
          \/ Message(Held).kind \in Requests /\ Tells("answer", Message(Held).of)
      BY <2>5 DEF Turns, Shaken, Admitted
    <3>6. \/ UNCHANGED Coming
          \/ \E kind \in Said \ {"answer"} : Adds(kind, 0)
          \/ Message(Held).kind \in Requests /\ Adds("answer", Message(Held).of)
      <4>1. UNCHANGED responses => UNCHANGED Coming
        BY <2>1 DEF Coming
      <4>2. ASSUME NEW kind \in Said \ {"answer"}, Tells(kind, 0)
            PROVE  Adds(kind, 0)
        BY <2>1, <4>2, TellingAdds
      <4>3. Tells("answer", Message(Held).of) => Adds("answer", Message(Held).of)
        BY <2>1, <3>4, TellingAdds
      <4>4. QED
        BY <3>5, <4>1, <4>2, <4>3
    <3>7. WaitingInOrder'
      BY <2>1, <2>5, <3>2, <3>6, WaitingTaken
    <3>8. RepliesInOrder'
      <4>1. CASE UNCHANGED Coming
        BY <2>1, <4>1, ComingStays, RepliesStay
      <4>2. ASSUME NEW kind \in Said \ {"answer"}, Adds(kind, 0)
            PROVE  RepliesInOrder'
        BY <2>1, <4>2, RepliesAdded
      <4>3. CASE Message(Held).kind \in Requests /\ Adds("answer", Message(Held).of)
        <5>1. 1 \in Waiting
          BY <3>4, <4>3 DEF Waiting
        <5>2. /\ Message(Held).of \in 1..asked
              /\ \A n \in DOMAIN heard : heard[n] < Message(Held).of
              /\ \A i \in Replies : Coming[i].of < Message(Held).of
          BY <3>2, <3>4, <5>1 DEF WaitingInOrder
        <5>3. QED
          BY <2>1, <4>3, <5>2, RepliesAdded
      <4>4. QED
        BY <3>6, <4>1, <4>2, <4>3
    <3>9. QED
      BY <3>3, <3>7, <3>8 DEF Orderly
  <2>6. QED
    BY <1>1, <2>2, <2>3, <2>4, <2>5 DEF Outcome
<1>2. ASSUME UNCHANGED <<Coming, heard, asked, place, state, why>>,
             thread = "ended" => thread' = "ended",
             state # "FAILED" => UNCHANGED Pending
      PROVE  Orderly'
  <2>1. asked \in Nat /\ asked <= asked
    BY DEF TypeOK
  <2>2. RepliesInOrder'
    BY <1>2, <2>1, ComingStays, RepliesStay DEF Orderly
  <2>3. RefusalIsTold'
    BY <1>2 DEF Orderly, RefusalIsTold
  <2>4. state # "FAILED" => WaitingInOrder'
    BY <1>2, WaitingStays DEF Orderly
  <2>5. QED
    BY <1>2, <2>2, <2>3, <2>4 DEF Orderly
<1>3. CASE Answers
  <2>1. UNCHANGED Coming /\ UNCHANGED Pending
    BY <1>3, SendingOn, AnsweringKeeps DEF Keeps
  <2>2. QED
    BY <1>2, <1>3, <2>1 DEF Answers, client
<1>4. CASE Receive
  <2>1. state # "FAILED" => UNCHANGED Pending
    BY <1>4, ReceivingKeeps
  <2>2. UNCHANGED Coming
    BY <1>4 DEF Receive, Coming
  <2>3. QED
    BY <1>2, <1>4, <2>1, <2>2 DEF Receive, client
<1>5. CASE Closes
  BY <1>2, <1>5 DEF Closes, client, Coming, Pending, Kept
<1>6. QED
  BY <1>1, <1>3, <1>4, <1>5, StepsComeOut DEF Bridge

LEMMA ClientIsOrderly ==
    ASSUME TypeOK, TypeOK', Orderly, Client
    PROVE  Orderly'
<1>1. CASE Hears
  <2>1. /\ UNCHANGED <<state, why, thread, asked, Pending>> /\ place # "out"
        /\ RepliesInOrder /\ RefusalIsTold
        /\ DOMAIN Coming = 1..Len(Coming) /\ DOMAIN Coming' = 1..Len(Coming')
        /\ Len(Coming) \in Nat /\ heard \in Seq(Nat)
    <3>1. Coming' \in Seq(Response)
      BY DEF TypeOK, Coming
    <3>2. QED
      BY <1>1, <3>1, ComingIs DEF Hears, Orderly, server, Pending, Kept
  <2>2. /\ Len(Coming) > 0 /\ Len(Coming') = Len(Coming) - 1
        /\ \A i \in 1..(Len(Coming) - 1) : Coming'[i] = Coming[i + 1]
        /\ heard' = IF Coming[1].kind = "answer" THEN Append(heard, Coming[1].of)
                    ELSE heard
        /\ place' = Moves(Coming[1].kind)
    BY <1>1, HearingTakes
  <2>3. RepliesInOrder'
    BY <1>1, <2>1, RepliesHeard
  <2>4. RefusalIsTold'
    <3>1. ASSUME why = "refused"
          PROVE  place' = "out" \/ \E i \in DOMAIN Coming' : Coming'[i].kind = "refusal"
      <4>1. PICK i \in DOMAIN Coming : Coming[i].kind = "refusal"
        BY <2>1, <3>1 DEF RefusalIsTold
      <4>2. CASE i = 1
        BY <2>2, <4>1, <4>2 DEF Moves
      <4>3. CASE i # 1
        <5>1. i - 1 \in DOMAIN Coming' /\ Coming'[i - 1] = Coming[i]
          BY <2>1, <2>2, <4>3
        <5>2. QED
          BY <4>1, <5>1
      <4>4. QED
        BY <4>2, <4>3
    <3>2. QED
      BY <2>1, <3>1 DEF RefusalIsTold
  <2>5. state # "FAILED" => WaitingInOrder'
    <3>1. ASSUME WaitingInOrder
          PROVE  WaitingInOrder'
      <4>1. \A i \in Replies' : i + 1 \in Replies /\ Coming'[i] = Coming[i + 1]
        BY <2>1, <2>2 DEF Replies
      <4>2. \A n \in DOMAIN heard' : \/ n \in DOMAIN heard /\ heard'[n] = heard[n]
                                     \/ 1 \in Replies /\ heard'[n] = Coming[1].of
        <5>1. Coming[1].kind = "answer" => 1 \in Replies
          BY <2>1, <2>2 DEF Replies
        <5>2. \A i \in 1..Len(Coming) : Coming[i].of \in Nat
          BY ComingIs
        <5>3. Coming[1].of \in Nat
          BY <2>1, <2>2, <5>2
        <5>4. QED
          BY <2>1, <2>2, <5>1, <5>3
      <4>3. Waiting' = Waiting
        BY <2>1 DEF Waiting
      <4>4. \A i \in Waiting : Pending[i].of \in 1..asked
                              /\ \A j \in Replies' : Coming'[j].of < Pending[i].of
        BY <3>1, <4>1 DEF WaitingInOrder
      <4>5. \A i \in Waiting, n \in DOMAIN heard' : heard'[n] < Pending[i].of
        BY <3>1, <4>2 DEF WaitingInOrder
      <4>6. \A i, j \in Waiting : i < j =>
               \/ Pending[i].of < Pending[j].of
               \/ Pending[i].of = Pending[j].of /\ ~Pending[i].last /\ j = i + 1
        BY <3>1 DEF WaitingInOrder
      <4>7. UNCHANGED <<asked, Pending>>
        BY <2>1
      <4>8. QED
        BY <4>3, <4>4, <4>5, <4>6, <4>7 DEF WaitingInOrder
    <3>2. QED
      BY <3>1 DEF Orderly
  <2>6. QED
    BY <2>1, <2>3, <2>4, <2>5 DEF Orderly
<1>2. CASE GoesAway
  <2>1. /\ UNCHANGED <<Coming, Pending, heard, asked, state, why, thread>>
        /\ place' = "out" /\ asked \in Nat /\ asked <= asked
    BY <1>2 DEF GoesAway, server, Coming, Pending, Kept, TypeOK
  <2>2. RepliesInOrder'
    BY <2>1, ComingStays, RepliesStay DEF Orderly
  <2>3. state # "FAILED" => WaitingInOrder'
    BY <2>1, WaitingStays DEF Orderly
  <2>4. RefusalIsTold'
    BY <2>1 DEF Orderly, RefusalIsTold
  <2>5. QED
    BY <2>1, <2>2, <2>3, <2>4 DEF Orderly
<1>3. CASE ~Hears /\ ~GoesAway
  <2>1. PICK packets \in Seq(Packet) : Sending(packets)
    BY <1>3, ClientSends
  <2>2. /\ UNCHANGED <<Coming, heard, state, why, thread>> /\ Brings(packets)
        /\ place # "out" /\ asked <= asked' /\ Follows(packets) /\ asked' \in Nat
    BY <2>1, SendingBrings DEF Sending, server, Coming, TypeOK
  <2>3. RepliesInOrder'
    BY <2>2, ComingStays, RepliesStay DEF Orderly
  <2>4. state # "FAILED" => WaitingInOrder'
    BY <2>2, WaitingBrought DEF Orderly, Follows
  <2>5. RefusalIsTold'
    BY <2>2 DEF Orderly, RefusalIsTold
  <2>6. QED
    BY <2>2, <2>3, <2>4, <2>5 DEF Orderly
<1>4. QED
  BY <1>1, <1>2, <1>3

LEMMA StaysOrderly ==
    TypeOK /\ TypeOK' /\ Settles /\ Orderly /\ [Next]_vars => Orderly'
<1>1. UNCHANGED vars /\ Orderly => Orderly'
  BY DEF vars, server, client, Orderly, RefusalIsTold, RepliesInOrder, Replies,
         WaitingInOrder, Waiting, Coming, Pending, Kept
<1>2. QED
  BY <1>1, BridgeIsOrderly, ClientIsOrderly DEF Next

-------------------------------------------------------------------------------
(* A client that follows the protocol.  What it has on the way is what the *)
(* state the bridge is in expects: until it is logged in one message at a  *)
(* time, and all of it, so that nothing is left over when the state moves  *)
(* on.                                                                     *)

Continues(p) == ~p.last \/ p.kind = "part"
Script(s) ==
    \A i \in DOMAIN s :
        /\ s[i].kind \in Expected
        /\ Continues(s[i]) => i + 1 \in DOMAIN s
        /\ ~s[i].last => /\ s[i + 1].last /\ s[i + 1].of = s[i].of
                         /\ s[i].kind \in Requests \cup {"login7"}
        /\ ~Continues(s[i]) /\ state # "READY" => i = Len(s)

Under == \/ state = "EXPECT_LOGIN"
         \/ state \in {"EXPECT_SSPI", "READY"} /\ Covered
Agreed == /\ \A i \in DOMAIN buffer : buffer[i].tls = Under
          /\ \A i \in DOMAIN wire : wire[i].tls = Under

(* Where it is in the protocol says where the bridge is, and which of them *)
(* has something for the other.                                            *)
Silent == Len(Pending) = 0 /\ Len(Coming) = 0
Due == Len(Pending) > 0 /\ Len(Coming) = 0
Spoken(kind) == Len(Pending) = 0 /\ Len(Coming) = 1 /\ Coming[1].kind = kind

Placed ==
    /\ place \notin {"in", "out"} => asked = 0 /\ Len(heard) = 0
    /\ place = "opening" => state = "EXPECT_PRELOGIN" /\ Silent
    /\ place = "prelogin" =>
          \/ state = "EXPECT_PRELOGIN" /\ Due
          \/ state = "TLS_HANDSHAKE" /\ tunnel = "hello" /\ Spoken("prelogin")
    /\ place = "hello" => state = "TLS_HANDSHAKE" /\ tunnel = "hello" /\ Silent
    /\ place = "helloed" =>
          \/ state = "TLS_HANDSHAKE" /\ tunnel = "hello" /\ Due
          \/ state = "TLS_HANDSHAKE" /\ tunnel = "finish" /\ Spoken("handshake")
    /\ place = "finish" => state = "TLS_HANDSHAKE" /\ tunnel = "finish" /\ Silent
    /\ place = "finished" =>
          \/ state = "TLS_HANDSHAKE" /\ tunnel = "finish" /\ Due
          \/ state = "EXPECT_LOGIN" /\ Spoken("handshake")
    /\ place = "login" => state = "EXPECT_LOGIN" /\ Silent
    /\ place = "admission" =>
          \/ state \in {"EXPECT_LOGIN", "EXPECT_SSPI"} /\ Due
          \/ state = "EXPECT_SSPI" /\ Spoken("sspi")
          \/ state = "READY" /\ Spoken("login")
    /\ place = "token" => state = "EXPECT_SSPI" /\ Silent
    /\ place = "in" => /\ state = "READY"
                       /\ \A i \in DOMAIN Coming : Coming[i].kind = "answer"

(* Every request it sent waits or was answered, and none was passed over.  *)
IsAnswered(n) == \/ \E m \in DOMAIN heard : heard[m] = n
                 \/ \E i \in Replies : Coming[i].of = n
NonePassedOver ==
    /\ \A m \in DOMAIN heard : heard[m] = m
    /\ \A i \in Replies : \A n \in 1..Coming[i].of : IsAnswered(n)
Accounted ==
    \A n \in 1..asked : IsAnswered(n) \/ \E i \in Waiting : Pending[i].of = n

OnScript == Script(Pending) /\ Agreed /\ Placed /\ Accounted

Followed ==
    Conforming => /\ why # "protocol" /\ NonePassedOver
                  /\ state # "FAILED" => OnScript

Shrinks == \/ UNCHANGED buffer
           \/ buffer' = <<>>
           \/ Whole(buffer) /\ buffer' = After(buffer)

LEMMA BufferShrinks ==
    ASSUME TypeOK, Settles,
           StepPrelogin \/ StepHandshake \/ StepLogin \/ StepSspi \/ StepQuery \/ Answers
    PROVE  Shrinks
<1>1. CASE StepPrelogin \/ StepHandshake \/ StepLogin
  BY <1>1 DEF StepPrelogin, StepHandshake, StepLogin, Raises, Shrinks
<1>2. TakeMessage => Shrinks
  BY DEF TakeMessage, Leaves, Stream, Shrinks
<1>3. CASE StepSspi \/ StepQuery
  <2>1. TakeMessage \/ UNCHANGED buffer
    BY <1>3 DEF StepSspi, StepQuery, Raises
  <2>2. QED
    BY <1>2, <2>1 DEF Shrinks
<1>4. CASE Answers
  <2>1. UNCHANGED buffer \/ Leaves(Stream)
    BY <1>4 DEF Answers, Settled, TypeOK, States
  <2>2. Leaves(Stream) => UNCHANGED buffer \/ buffer' = <<>>
    BY DEF Leaves, Stream
  <2>3. QED
    BY <2>1, <2>2 DEF Shrinks
<1>5. QED
  BY <1>1, <1>3, <1>4

LEMMA AgreedStays ==
    ASSUME TypeOK, Agreed, Shrinks, UNCHANGED <<wire, state, Covered>>
    PROVE  Agreed'
<1>1. Under' = Under
  BY DEF Under
<1>2. ASSUME Whole(buffer), buffer' = After(buffer)
      PROVE  \A i \in DOMAIN buffer' : \E j \in DOMAIN buffer : buffer'[i] = buffer[j]
  <2> DEFINE f == FirstEnd(buffer)  n == Len(buffer)
  <2>1. buffer \in Seq(Packet) /\ f \in 1..n /\ n \in Nat
    BY <1>2, FirstEndIsOne DEF TypeOK
  <2>2. \A i \in (f + 1)..n : buffer[i] \in Packet
    BY <2>1
  <2>3. /\ After(buffer) \in Seq(Packet) /\ Len(After(buffer)) = n - f
        /\ \A i \in 1..(n - f) : After(buffer)[i] = buffer[i + f]
    BY <2>1, <2>2, SubSeqProperties DEF After
  <2>4. DOMAIN buffer' = 1..(n - f) /\ DOMAIN buffer = 1..n
    BY <1>2, <2>1, <2>3
  <2> HIDE DEF f, n
  <2>5. ASSUME NEW i \in 1..(n - f)
        PROVE  i + f \in 1..n
    BY <2>1
  <2>6. QED
    BY <1>2, <2>3, <2>4, <2>5
<1>3. \A i \in DOMAIN buffer' : \E j \in DOMAIN buffer : buffer'[i] = buffer[j]
  BY <1>2 DEF Shrinks
<1>4. QED
  BY <1>1, <1>3 DEF Agreed

LEMMA NothingOnTheWay ==
    ASSUME TypeOK', Len(Pending') = 0
    PROVE  Agreed' /\ Script(Pending)'
<1>1. buffer' \in Seq(Packet) /\ wire' \in Seq(Packet) /\ Kept' \in Seq(Packet)
  BY DecryptedNothing DEF TypeOK, Kept
<1>2. \A s, t \in Seq(Packet) : s \o t \in Seq(Packet) /\ Len(s \o t) = Len(s) + Len(t)
  OBVIOUS
<1>3. /\ Kept' \o buffer' \o wire' \in Seq(Packet)
      /\ Len(Kept' \o buffer' \o wire') = Len(Kept') + Len(buffer') + Len(wire')
  BY <1>1, <1>2
<1>4. Pending' \in Seq(Packet) /\ Len(Pending') = Len(Kept') + Len(buffer') + Len(wire')
  <2>1. \A s \in Seq(Packet) : Decrypted(s) \in Seq(Packet) /\ Len(Decrypted(s)) = Len(s)
    BY DecryptedIs, DecryptedIsASequence
  <2>2. Pending' = Decrypted(Kept' \o buffer' \o wire')
    BY DEF Pending
  <2>3. QED
    BY <1>3, <2>1, <2>2
<1>5. Len(buffer') = 0 /\ Len(wire') = 0
  <2>1. Len(Kept') \in Nat /\ Len(buffer') \in Nat /\ Len(wire') \in Nat
    BY <1>1
  <2>2. Len(Kept') + Len(buffer') + Len(wire') = 0
    BY <1>4
  <2>3. QED
    BY <2>1, <2>2
<1>6. DOMAIN buffer' = {} /\ DOMAIN wire' = {} /\ DOMAIN Pending' = {}
  BY <1>1, <1>4, <1>5
<1>7. QED
  BY <1>6 DEF Agreed, Script

LEMMA NotOutOfTurn ==
    ASSUME TypeOK, Wrapped, state # "FAILED", Script(Pending), Agreed
    PROVE  ~OutOfTurn
<1>1. encrypted = Covered \/ state = "EXPECT_PRELOGIN"
  BY DEF Wrapped
<1>2. ~Unreadable
  <2>1. Walked(buffer) \subseteq DOMAIN buffer
    <3>1. Whole(buffer) => FirstEnd(buffer) \in 1..Len(buffer)
      BY FirstEndIsOne DEF TypeOK
    <3>2. DOMAIN buffer = 1..Len(buffer) /\ Len(buffer) \in Nat
      BY DEF TypeOK
    <3>3. QED
      BY <3>1, <3>2 DEF Walked
  <2>2. \A i \in DOMAIN buffer : buffer[i].tls = Under
    BY DEF Agreed
  <2>3. Garbled(buffer) => Under
    BY <2>1, <2>2 DEF Garbled
  <2>4. Undecipherable(buffer) => ~Under
    BY <2>2 DEF Undecipherable
  <2>5. QED
    BY <1>1, <2>3, <2>4 DEF Unreadable, Unread, Under
<1>3. ASSUME Whole(Held)
      PROVE  Message(Held).kind \in Expected
  <2>1. 1 \in DOMAIN Pending /\ Message(Held) = Pending[1]
    BY <1>3, HeldComesFirst
  <2>2. QED
    BY <2>1 DEF Script
<1>4. QED
  BY <1>2, <1>3 DEF OutOfTurn

-------------------------------------------------------------------------------
(* What a step does to a script.                                           *)

LEMMA PendingThen ==
    ASSUME TypeOK'
    PROVE  /\ Pending' \in Seq(Packet) /\ Coming' \in Seq(Response)
           /\ DOMAIN Pending' = 1..Len(Pending') /\ Len(Pending') \in Nat
           /\ DOMAIN Coming' = 1..Len(Coming') /\ Len(Coming') \in Nat
<1>1. buffer' \in Seq(Packet) /\ wire' \in Seq(Packet) /\ Kept' \in Seq(Packet)
  BY DecryptedNothing DEF TypeOK, Kept
<1>2. \A s, t \in Seq(Packet) : s \o t \in Seq(Packet)
  OBVIOUS
<1>3. Kept' \o buffer' \o wire' \in Seq(Packet)
  BY <1>1, <1>2
<1>4. Pending' \in Seq(Packet)
  BY <1>3, DecryptedIsASequence DEF Pending
<1>5. Coming' \in Seq(Response)
  BY DEF TypeOK, Coming
<1>6. QED
  BY <1>4, <1>5

LEMMA ScriptStays ==
    ASSUME Script(Pending), UNCHANGED <<Pending, state>>
    PROVE  Script(Pending)'
  BY DEF Script, Expected

LEMMA ScriptDrops ==
    ASSUME TypeOK, TypeOK', Script(Pending), UNCHANGED state, NEW m \in Nat,
           Len(Pending') = Len(Pending) - m,
           \A i \in 1..(Len(Pending) - m) : Pending'[i] = Pending[i + m]
    PROVE  Script(Pending)'
<1>1. /\ DOMAIN Pending = 1..Len(Pending) /\ Len(Pending) \in Nat
      /\ DOMAIN Pending' = 1..(Len(Pending) - m)
  BY HeldComesFirst, PendingThen
<1>2. Expected' = Expected
  BY DEF Expected
<1>3. ASSUME NEW i \in DOMAIN Pending'
      PROVE  /\ i + m \in DOMAIN Pending /\ i \in Nat /\ i + 1 + m = i + m + 1
             /\ Pending'[i] = Pending[i + m]
             /\ i + m + 1 \in DOMAIN Pending => /\ i + 1 \in DOMAIN Pending'
                                                /\ Pending'[i + 1] = Pending[i + m + 1]
             /\ i + m = Len(Pending) => i = Len(Pending')
  BY <1>1
<1>4. ASSUME NEW i \in DOMAIN Pending'
      PROVE  /\ Pending'[i].kind \in Expected'
             /\ Continues(Pending'[i]) => i + 1 \in DOMAIN Pending'
             /\ ~Pending'[i].last =>
                    /\ Pending'[i + 1].last /\ Pending'[i + 1].of = Pending'[i].of
                    /\ Pending'[i].kind \in Requests \cup {"login7"}
             /\ ~Continues(Pending'[i]) /\ state' # "READY" => i = Len(Pending')
  <2> DEFINE j == i + m
  <2>1. /\ j \in DOMAIN Pending /\ Pending'[i] = Pending[j]
        /\ j + 1 \in DOMAIN Pending => /\ i + 1 \in DOMAIN Pending'
                                       /\ Pending'[i + 1] = Pending[j + 1]
        /\ j = Len(Pending) => i = Len(Pending')
    BY <1>3
  <2> HIDE DEF j
  <2>2. /\ Pending[j].kind \in Expected
        /\ Continues(Pending[j]) => j + 1 \in DOMAIN Pending
        /\ ~Pending[j].last =>
               /\ Pending[j + 1].last /\ Pending[j + 1].of = Pending[j].of
               /\ Pending[j].kind \in Requests \cup {"login7"}
        /\ ~Continues(Pending[j]) /\ state # "READY" => j = Len(Pending)
    BY <2>1 DEF Script
  <2>3. ~Pending[j].last => Continues(Pending[j])
    BY DEF Continues
  <2>4. QED
    BY <1>2, <2>1, <2>2, <2>3
<1>5. QED
  BY <1>4 DEF Script, Continues

LEMMA ScriptExtends ==
    ASSUME TypeOK, TypeOK', Script(Pending), UNCHANGED state,
           NEW packets \in Seq(Packet), Brings(packets), Script(packets),
           Len(Pending) = 0 \/ state = "READY"
    PROVE  Script(Pending)'
<1> DEFINE n == Len(Pending)
<1>1. /\ DOMAIN Pending = 1..n /\ n \in Nat /\ Len(packets) \in Nat
      /\ DOMAIN packets = 1..Len(packets)
      /\ DOMAIN Pending' = 1..(n + Len(packets)) /\ Len(Pending') = n + Len(packets)
  BY HeldComesFirst, PendingThen DEF Brings
<1>2. Expected' = Expected
  BY DEF Expected
<1>3. \A i \in 1..n : Pending'[i] = Pending[i]
  BY DEF Brings
<1>4. \A k \in 1..Len(packets) : /\ Pending'[n + k].kind = packets[k].kind
                                 /\ Pending'[n + k].last = packets[k].last
                                 /\ Pending'[n + k].of = packets[k].of
  BY DEF Brings
<1> HIDE DEF n
<1> DEFINE Right(i) ==
             /\ Pending'[i].kind \in Expected
             /\ Continues(Pending'[i]) => i + 1 \in DOMAIN Pending'
             /\ ~Pending'[i].last =>
                    /\ Pending'[i + 1].last /\ Pending'[i + 1].of = Pending'[i].of
                    /\ Pending'[i].kind \in Requests \cup {"login7"}
             /\ ~Continues(Pending'[i]) /\ state # "READY" => i = Len(Pending')
<1>5. ASSUME NEW i \in 1..n
      PROVE  Right(i)
  <2>1. /\ Pending[i].kind \in Expected
        /\ Continues(Pending[i]) => i + 1 \in 1..n
        /\ ~Pending[i].last =>
               /\ Pending[i + 1].last /\ Pending[i + 1].of = Pending[i].of
               /\ Pending[i].kind \in Requests \cup {"login7"}
    BY <1>1 DEF Script
  <2>2. state = "READY"
    BY <1>1 DEF n
  <2>3. i + 1 \in 1..n => i + 1 \in DOMAIN Pending' /\ Pending'[i + 1] = Pending[i + 1]
    BY <1>1, <1>3
  <2>4. Pending'[i] = Pending[i] /\ (~Pending[i].last => Continues(Pending[i]))
    BY <1>3 DEF Continues
  <2>5. QED
    BY <2>1, <2>2, <2>3, <2>4
<1>6. ASSUME NEW k \in 1..Len(packets)
      PROVE  Right(n + k)
  <2>1. /\ packets[k].kind \in Expected
        /\ Continues(packets[k]) => k + 1 \in 1..Len(packets)
        /\ ~packets[k].last =>
               /\ packets[k + 1].last /\ packets[k + 1].of = packets[k].of
               /\ packets[k].kind \in Requests \cup {"login7"}
        /\ ~Continues(packets[k]) /\ state # "READY" => k = Len(packets)
    BY <1>1 DEF Script
  <2>2. k + 1 \in 1..Len(packets) =>
           /\ n + k + 1 \in DOMAIN Pending'
           /\ Pending'[n + k + 1].last = packets[k + 1].last
           /\ Pending'[n + k + 1].of = packets[k + 1].of
    <3>1. n + k + 1 = n + (k + 1)
      BY <1>1
    <3>2. k + 1 \in 1..Len(packets) => n + (k + 1) \in 1..(n + Len(packets))
      BY <1>1
    <3>3. QED
      BY <1>1, <1>4, <3>1, <3>2
  <2>3. /\ Pending'[n + k].kind = packets[k].kind
        /\ Pending'[n + k].last = packets[k].last
        /\ Pending'[n + k].of = packets[k].of
        /\ Continues(Pending'[n + k]) <=> Continues(packets[k])
        /\ ~packets[k].last => Continues(packets[k])
    BY <1>4 DEF Continues
  <2>4. k = Len(packets) => n + k = Len(Pending')
    BY <1>1
  <2>5. QED
    BY <2>1, <2>2, <2>3, <2>4
<1>7. ASSUME NEW i \in DOMAIN Pending'
      PROVE  Right(i)
  <2>1. CASE i <= n
    BY <1>1, <1>5, <2>1
  <2>2. CASE i > n
    <3>1. i - n \in 1..Len(packets) /\ n + (i - n) = i
      BY <1>1, <2>2
    <3>2. Right(n + (i - n))
      BY <1>6, <3>1
    <3>3. QED
      BY <3>1, <3>2
  <2>3. QED
    BY <1>1, <2>1, <2>2
<1>8. QED
  BY <1>2, <1>7 DEF Script, Continues

LEMMA ScriptOfOne ==
    ASSUME NEW p \in Packet, p.kind \in Expected, p.last, p.kind # "part"
    PROVE  Script(<<p>>)
<1>1. <<p>> \in Seq(Packet) /\ DOMAIN <<p>> = {1} /\ <<p>>[1] = p /\ Len(<<p>>) = 1
  OBVIOUS
<1>2. QED
  BY <1>1 DEF Script, Continues

LEMMA ScriptOfTwo ==
    ASSUME NEW p \in Packet, NEW q \in Packet,
           p.kind \in Expected, q.kind \in Expected, q.last, q.kind # "part",
           Continues(p),
           ~p.last => q.of = p.of /\ p.kind \in Requests \cup {"login7"}
    PROVE  Script(<<p, q>>)
<1> DEFINE s == <<p, q>>
<1>1. /\ DOMAIN s = {1, 2} /\ s[1] = p /\ s[2] = q /\ Len(s) = 2
      /\ 1 + 1 = 2 /\ 1 \in DOMAIN s /\ 2 \in DOMAIN s
  OBVIOUS
<1> HIDE DEF s
<1>2. Script(s)
  BY <1>1 DEF Script, Continues
<1>3. QED
  BY <1>2 DEF s

LEMMA ScriptOfAMessage ==
    ASSUME NEW kind \in Kinds, NEW tls \in BOOLEAN, NEW of \in Nat,
           kind \in Expected, kind \in Requests \cup {"login7"},
           NEW packets \in Packets(kind, tls, of)
    PROVE  /\ packets \in Seq(Packet) /\ Script(packets) /\ Len(packets) > 0
           /\ packets[1].kind = kind /\ packets[1].of = of
           /\ \A i \in DOMAIN packets : packets[i].tls = tls
<1> DEFINE p == Bytes(kind, tls, TRUE, of)  q == Bytes(kind, tls, FALSE, of)
<1>1. /\ p \in Packet /\ p.kind = kind /\ p.of = of /\ p.last /\ p.tls = tls
      /\ q \in Packet /\ q.kind = kind /\ q.of = of /\ ~q.last /\ q.tls = tls
      /\ kind # "part"
  BY DEF Bytes, Packet, Requests
<1>2. packets = <<p>> \/ packets = <<q, p>>
  BY DEF Packets
<1> HIDE DEF p, q
<1>3. CASE packets = <<p>>
  BY <1>1, <1>3, ScriptOfOne
<1>4. CASE packets = <<q, p>>
  <2>1. Script(packets)
    BY <1>1, <1>4, ScriptOfTwo DEF Continues
  <2>2. packets \in Seq(Packet) /\ Len(packets) = 2 /\ packets[1] = q /\ packets[2] = p
        /\ DOMAIN packets = {1, 2}
    BY <1>1, <1>4
  <2>3. QED
    BY <1>1, <2>1, <2>2
<1>5. QED
  BY <1>2, <1>3, <1>4

LEMMA AgreedSent ==
    ASSUME TypeOK, Agreed, UNCHANGED <<buffer, state, Covered>>,
           NEW packets \in Seq(Packet), wire' = wire \o packets,
           \A i \in DOMAIN packets : packets[i].tls = Under
    PROVE  Agreed'
<1>1. Under' = Under
  BY DEF Under
<1>2. wire \in Seq(Packet)
  BY DEF TypeOK
<1>3. ASSUME NEW i \in DOMAIN wire'
      PROVE  \/ i \in DOMAIN wire /\ wire'[i] = wire[i]
             \/ \E k \in DOMAIN packets : wire'[i] = packets[k]
  <2>1. i \in 1..(Len(wire) + Len(packets)) /\ Len(wire) \in Nat /\ Len(packets) \in Nat
    BY <1>2
  <2>2. CASE i <= Len(wire)
    BY <1>2, <2>1, <2>2
  <2>3. CASE i > Len(wire)
    <3>1. i - Len(wire) \in DOMAIN packets /\ wire'[i] = packets[i - Len(wire)]
      BY <1>2, <2>1, <2>3
    <3>2. QED
      BY <3>1
  <2>4. QED
    BY <2>1, <2>2, <2>3
<1>4. QED
  BY <1>1, <1>3 DEF Agreed

LEMMA AgreedRead ==
    ASSUME TypeOK, Agreed, Receive, state # "FAILED"
    PROVE  Agreed'
<1>1. PICK n \in 1..Len(wire) :
         /\ wire' = SubSeq(wire, n + 1, Len(wire))
         /\ buffer' = buffer \o SubSeq(wire, 1, n)
  BY DEF Receive
<1> DEFINE read == SubSeq(wire, 1, n)  rest == SubSeq(wire, n + 1, Len(wire))
<1>2. /\ wire \in Seq(Packet) /\ buffer \in Seq(Packet) /\ n \in Nat
      /\ n <= Len(wire) /\ Len(wire) \in Nat
  BY DEF TypeOK
<1>3. /\ read \in Seq(Packet) /\ Len(read) = n
      /\ \A i \in 1..n : read[i] = wire[i]
  <2>1. \A i \in 1..n : wire[i] \in Packet
    BY <1>2
  <2>2. QED
    BY <1>2, <2>1, SubSeqProperties
<1>4. /\ rest \in Seq(Packet) /\ Len(rest) = Len(wire) - n
      /\ \A i \in 1..(Len(wire) - n) : rest[i] = wire[i + n]
  <2>1. \A i \in (n + 1)..Len(wire) : wire[i] \in Packet
    BY <1>2
  <2>2. QED
    BY <1>2, <2>1, SubSeqProperties
<1>5. wire' = rest /\ buffer' = buffer \o read
  BY <1>1
<1> HIDE DEF read, rest
<1>6. ASSUME NEW i \in DOMAIN wire'
      PROVE  i + n \in DOMAIN wire /\ wire'[i] = wire[i + n]
  BY <1>2, <1>4, <1>5
<1>7. ASSUME NEW i \in DOMAIN buffer'
      PROVE  \/ i \in DOMAIN buffer /\ buffer'[i] = buffer[i]
             \/ \E k \in DOMAIN wire : buffer'[i] = wire[k]
  <2>1. i \in 1..(Len(buffer) + n) /\ Len(buffer) \in Nat
    BY <1>2, <1>3, <1>5
  <2>2. CASE i <= Len(buffer)
    BY <1>2, <1>3, <1>5, <2>1, <2>2
  <2>3. CASE i > Len(buffer)
    <3>1. i - Len(buffer) \in 1..n /\ buffer'[i] = read[i - Len(buffer)]
      BY <1>2, <1>3, <1>5, <2>1, <2>3
    <3>2. i - Len(buffer) \in DOMAIN wire
      BY <1>2, <3>1
    <3>3. QED
      BY <1>3, <3>1, <3>2
  <2>4. QED
    BY <2>1, <2>2, <2>3
<1>8. Under' = Under
  BY DEF Receive, client, Under, Covered, Negotiated
<1>9. QED
  BY <1>6, <1>7, <1>8 DEF Agreed

-------------------------------------------------------------------------------
(* The bridge keeps to the script.                                         *)

LEMMA PassedOverStays ==
    ASSUME TypeOK, TypeOK', RepliesInOrder, NonePassedOver, Loses, UNCHANGED heard
    PROVE  NonePassedOver'
<1>1. /\ DOMAIN Coming = 1..Len(Coming) /\ Len(Coming) \in Nat
      /\ DOMAIN Coming' = 1..Len(Coming') /\ Len(Coming') \in Nat
      /\ \A i \in 1..Len(Coming) : Coming[i].of \in Nat
  BY ComingIs, PendingThen
<1>2. \A i \in Replies' : i \in Replies /\ Coming'[i] = Coming[i]
  BY <1>1 DEF Replies, Loses
<1>3. ASSUME NEW i \in Replies', NEW n \in 1..Coming'[i].of
      PROVE  IsAnswered(n)'
  <2>1. i \in Replies /\ Coming'[i] = Coming[i] /\ i \in 1..Len(Coming')
    BY <1>1, <1>2 DEF Replies
  <2>2. IsAnswered(n)
    BY <2>1 DEF NonePassedOver
  <2>3. ASSUME NEW j \in Replies, Coming[j].of = n
        PROVE  j \in Replies' /\ Coming'[j] = Coming[j]
    <3>1. j \in 1..Len(Coming) /\ i \in 1..Len(Coming) /\ Coming[i].of \in Nat
          /\ n <= Coming[i].of
      BY <1>1, <2>1 DEF Replies
    <3>2. ~(i < j)
      BY <2>1, <2>3, <3>1 DEF RepliesInOrder
    <3>3. j \in 1..Len(Coming')
      BY <1>1, <2>1, <3>1, <3>2
    <3>4. QED
      BY <1>1, <3>3 DEF Replies, Loses
  <2>4. QED
    BY <2>2, <2>3 DEF IsAnswered
<1>4. QED
  BY <1>3 DEF NonePassedOver

LEMMA AnsweredStays ==
    ASSUME TypeOK, TypeOK', UNCHANGED heard,
           UNCHANGED Coming \/ \E kind, of : Adds(kind, of), NEW n, IsAnswered(n)
    PROVE  IsAnswered(n)'
<1>1. /\ DOMAIN Coming = 1..Len(Coming) /\ Len(Coming) \in Nat
      /\ DOMAIN Coming' = 1..Len(Coming') /\ Len(Coming') \in Nat
  BY ComingIs, PendingThen
<1>2. ASSUME NEW i \in Replies
      PROVE  i \in Replies' /\ Coming'[i] = Coming[i]
  <2>1. i \in 1..Len(Coming) /\ Coming[i].kind = "answer"
    BY <1>1 DEF Replies
  <2>2. Coming'[i] = Coming[i] /\ Len(Coming) <= Len(Coming')
    <3>1. ASSUME NEW kind, NEW of, Adds(kind, of)
          PROVE  Coming'[i] = Coming[i] /\ Len(Coming) <= Len(Coming')
      BY <1>1, <2>1, <3>1 DEF Adds
    <3>2. CASE UNCHANGED Coming
      BY <1>1, <3>2
    <3>3. QED
      BY <3>1, <3>2
  <2>3. i \in DOMAIN Coming'
    BY <1>1, <2>1, <2>2
  <2>4. QED
    BY <2>1, <2>2, <2>3 DEF Replies
<1>3. QED
  BY <1>2 DEF IsAnswered

LEMMA OtherRepliesStay ==
    ASSUME TypeOK, TypeOK', NonePassedOver, UNCHANGED heard,
           UNCHANGED Coming \/ \E kind, of : Adds(kind, of) /\ kind # "answer"
    PROVE  NonePassedOver'
<1>1. /\ DOMAIN Coming = 1..Len(Coming) /\ Len(Coming) \in Nat
      /\ DOMAIN Coming' = 1..Len(Coming') /\ Len(Coming') \in Nat
  BY ComingIs, PendingThen
<1>2. ASSUME NEW i \in Replies'
      PROVE  i \in Replies /\ Coming'[i] = Coming[i]
  <2>1. i \in 1..Len(Coming') /\ Coming'[i].kind = "answer"
    BY <1>1 DEF Replies
  <2>2. CASE UNCHANGED Coming
    BY <1>1, <2>1, <2>2 DEF Replies
  <2>3. ASSUME NEW kind, NEW of, Adds(kind, of), kind # "answer"
        PROVE  i \in Replies /\ Coming'[i] = Coming[i]
    <3>1. i <= Len(Coming) \/ i = Len(Coming) + 1
      BY <1>1, <2>1, <2>3 DEF Adds
    <3>2. i # Len(Coming) + 1
      BY <2>1, <2>3 DEF Adds
    <3>3. i \in 1..Len(Coming)
      BY <1>1, <2>1, <3>1, <3>2
    <3>4. QED
      BY <1>1, <2>1, <2>3, <3>3 DEF Adds, Replies
  <2>4. QED
    BY <2>2, <2>3
<1>3. QED
  BY <1>2, AnsweredStays DEF NonePassedOver

(* A message other than a part of a flight is the last thing the client    *)
(* has sent, until it is logged in.                                        *)
LEMMA NothingIsLeft ==
    ASSUME TypeOK, TypeOK', Script(Pending), Takes,
           state \notin {"READY", "FAILED"},
           Message(Held).kind # "part"
    PROVE  Len(Pending') = 0 /\ Waiting = {}
<1>1. PICK m \in FirstEnd(Held)..Len(Held) : Drops(m)
  BY TakingDrops
<1> DEFINE f == FirstEnd(Held)  n == Len(Pending)
<1>2. /\ f \in 1..Len(Held) /\ Pending[f].last /\ Message(Held) = Pending[1]
      /\ \A i \in 1..Len(Held) : Held[i].last => f <= i
      /\ \A i \in 1..Len(Held) : Pending[i] = Held[i]
      /\ DOMAIN Pending = 1..n /\ n \in Nat /\ Len(Held) \in Nat /\ Len(Held) <= n
  BY HeldComesFirst DEF Takes
<1> HIDE DEF f, n
<1>3. f \in DOMAIN Pending /\ 1 \in DOMAIN Pending /\ 1 \in 1..Len(Held)
  BY <1>2
<1>4. Pending[f].kind # "part"
  <2>1. CASE state = "TLS_HANDSHAKE"
    <3>1. Pending[1].kind = "flight"
      BY <1>2, <1>3, <2>1 DEF Script, Expected
    <3>2. Pending[1].last
      BY <1>3, <3>1 DEF Script, Requests
    <3>3. f = 1
      BY <1>2, <1>3, <3>2
    <3>4. QED
      BY <3>1, <3>3
  <2>2. CASE state # "TLS_HANDSHAKE"
    BY <1>3, <2>2 DEF Script, Expected, Requests
  <2>3. QED
    BY <2>1, <2>2
<1>5. f = n
  BY <1>2, <1>3, <1>4 DEF Script, Continues, n
<1>6. Len(Pending') = 0
  BY <1>1, <1>2, <1>5 DEF Drops, n, f
<1>7. Waiting = {}
  <2>1. Expected \cap Requests = {} \/ state = "FAILED"
    BY DEF Expected, Requests, TypeOK, States
  <2>2. QED
    BY <1>2, <2>1 DEF Waiting, Script, Takes
<1>8. QED
  BY <1>6, <1>7

(* A part of a flight is a packet, and more of the flight is behind it.    *)
LEMMA MoreIsBehind ==
    ASSUME TypeOK, TypeOK', Script(Pending), Takes, state = "TLS_HANDSHAKE",
           UNCHANGED state, Message(Held).kind = "part"
    PROVE  Len(Pending') > 0 /\ Script(Pending)'
<1>1. PICK m \in FirstEnd(Held)..Len(Held) : Drops(m)
  BY TakingDrops
<1>2. /\ FirstEnd(Held) \in 1..Len(Held) /\ Message(Held) = Pending[1]
      /\ \A i \in 1..Len(Held) : Held[i].last => FirstEnd(Held) <= i
      /\ \A i \in 1..Len(Held) : Pending[i] = Held[i]
      /\ DOMAIN Pending = 1..Len(Pending) /\ Len(Pending) \in Nat
      /\ Len(Held) \in Nat /\ Len(Held) <= Len(Pending)
  BY HeldComesFirst DEF Takes
<1>3. 1 \in DOMAIN Pending /\ 1 \in 1..Len(Held)
  BY <1>2
<1>4. Pending[1].last /\ 2 \in DOMAIN Pending
  <2>1. Pending[1].kind = "part"
    BY <1>2
  <2>2. Pending[1].last
    BY <1>3, <2>1 DEF Script, Requests
  <2>3. 1 + 1 \in DOMAIN Pending
    BY <1>3, <2>1 DEF Script, Continues
  <2>4. QED
    BY <2>2, <2>3
<1>5. m = 1
  BY <1>1, <1>2, <1>3, <1>4 DEF Drops
<1>6. /\ Len(Pending') = Len(Pending) - 1
      /\ \A i \in 1..(Len(Pending) - 1) : Pending'[i] = Pending[i + 1]
  BY <1>1, <1>5 DEF Drops
<1>7. Script(Pending)'
  BY <1>6, ScriptDrops
<1>8. QED
  BY <1>2, <1>4, <1>6, <1>7

(* Logged in: what a message takes off is of one request.                  *)
LEMMA OneIsTaken ==
    ASSUME TypeOK, TypeOK', Script(Pending), Takes, state = "READY",
           UNCHANGED state
    PROVE  /\ Script(Pending)'
           /\ 1 \in DOMAIN Pending /\ Message(Held) = Pending[1]
           /\ \A i \in Waiting :
                 \/ 1 \in Waiting /\ Pending[i].of = Pending[1].of
                 \/ \E j \in Waiting' : Pending'[j].of = Pending[i].of
<1>1. PICK m \in FirstEnd(Held)..Len(Held) : Drops(m)
  BY TakingDrops
<1>2. /\ FirstEnd(Held) \in 1..Len(Held) /\ Message(Held) = Pending[1]
      /\ \A i \in 1..Len(Held) : Held[i].last => FirstEnd(Held) <= i
      /\ \A i \in 1..Len(Held) : Pending[i] = Held[i]
      /\ DOMAIN Pending = 1..Len(Pending) /\ Len(Pending) \in Nat
      /\ Len(Held) \in Nat /\ Len(Held) <= Len(Pending)
  BY HeldComesFirst DEF Takes
<1>3. 1 \in DOMAIN Pending /\ 1 \in 1..Len(Held)
  BY <1>2
<1>4. /\ m = FirstEnd(Held) /\ m \in Nat /\ m \in 1..Len(Held)
      /\ Len(Pending') = Len(Pending) - m
      /\ \A i \in 1..(Len(Pending) - m) : Pending'[i] = Pending[i + m]
  BY <1>1, <1>2 DEF Drops
<1>5. Script(Pending)'
  BY <1>4, ScriptDrops
<1>6. ASSUME NEW i \in Waiting, i <= m
      PROVE  1 \in Waiting /\ Pending[i].of = Pending[1].of
  <2>1. i \in 1..Len(Pending) /\ Pending[i].kind \in Requests
    BY <1>2 DEF Waiting
  <2>2. CASE i = 1
    BY <1>3, <2>1, <2>2 DEF Waiting
  <2>3. CASE i # 1
    <3>1. i > 1 /\ 2 \in 1..Len(Held) /\ m > 1
      BY <1>2, <1>4, <1>6, <2>1, <2>3
    <3>2. ~Pending[1].last
      BY <1>2, <1>3, <1>4, <3>1
    <3>3. /\ Pending[1 + 1].last /\ Pending[1 + 1].of = Pending[1].of
          /\ Pending[1].kind \in Requests \cup {"login7"}
          /\ Pending[1].kind \in Expected
      BY <1>3, <3>2 DEF Script
    <3>4. Held[2].last
      BY <1>2, <3>1, <3>3
    <3>5. m <= 2 /\ i = 2
      BY <1>2, <1>4, <1>6, <2>1, <3>1, <3>4
    <3>6. Pending[1].kind \in Requests
      BY <3>3 DEF Expected, Requests
    <3>7. QED
      BY <1>3, <3>3, <3>5, <3>6 DEF Waiting
  <2>4. QED
    BY <2>2, <2>3
<1>7. ASSUME NEW i \in Waiting, i > m
      PROVE  \E j \in Waiting' : Pending'[j].of = Pending[i].of
  <2>1. i \in 1..Len(Pending) /\ Pending[i].kind \in Requests
    BY <1>2 DEF Waiting
  <2>2. i - m \in 1..Len(Pending') /\ (i - m) + m = i
    BY <1>2, <1>4, <1>7, <2>1
  <2>3. Pending'[i - m] = Pending[i] /\ i - m \in DOMAIN Pending'
    BY <1>4, <2>2, PendingThen
  <2>4. i - m \in Waiting'
    BY <2>1, <2>3 DEF Waiting
  <2>5. QED
    BY <2>3, <2>4
<1>8. \A i \in Waiting : i <= m \/ i > m
  BY <1>2, <1>4 DEF Waiting
<1>9. QED
  BY <1>2, <1>3, <1>5, <1>6, <1>7, <1>8

LEMMA TurnsBeforeReady ==
    ASSUME TypeOK, TypeOK', OnScript, NonePassedOver, Takes, Turns, Shrinks,
           state \notin {"READY", "FAILED"},
           UNCHANGED <<policy, wire, downstream, client>>
    PROVE  NonePassedOver' /\ OnScript'
<1>1. UNCHANGED <<heard, asked, place, auth, wants, Covered>>
  BY DEF client, Covered, Negotiated
<1>2. /\ Len(Pending) > 0 /\ Len(Pending) \in Nat
      /\ Len(Coming) \in Nat /\ DOMAIN Coming = 1..Len(Coming)
      /\ DOMAIN Coming' = 1..Len(Coming')
  BY HeldComesFirst, ComingIs, PendingThen DEF Takes
<1>3. /\ place \notin {"in", "out"} => asked = 0 /\ Len(heard) = 0
      /\ place \in {"prelogin", "helloed", "finished", "admission"} =>
            Len(Coming) = 0
      /\ place \in {"prelogin", "helloed", "finished", "admission", "out"}
      /\ place = "prelogin" => state = "EXPECT_PRELOGIN"
      /\ place = "helloed" => state = "TLS_HANDSHAKE" /\ tunnel = "hello"
      /\ place = "finished" => state = "TLS_HANDSHAKE" /\ tunnel = "finish"
      /\ place = "admission" => state \in {"EXPECT_LOGIN", "EXPECT_SSPI"}
  <2>1. ~Silent /\ (Due => Len(Coming) = 0) /\ \A kind : ~Spoken(kind)
    BY <1>2 DEF Silent, Due, Spoken
  <2>2. Placed /\ place \in Places
    BY DEF OnScript, TypeOK
  <2>3. QED
    BY <2>1, <2>2 DEF Placed, Places
<1>4. CASE Message(Held).kind = "part"
  <2>1. state = "TLS_HANDSHAKE" /\ UNCHANGED <<state, tunnel, responses>>
    BY <1>4 DEF Turns, Requests
  <2>2. Len(Pending') > 0 /\ Script(Pending)'
    BY <1>4, <2>1, MoreIsBehind DEF OnScript
  <2>3. UNCHANGED Coming
    BY <2>1 DEF Coming
  <2>4. Agreed'
    BY <1>1, <2>1, AgreedStays DEF OnScript
  <2>5. NonePassedOver'
    BY <1>1, <2>3, OtherRepliesStay
  <2>6. Placed'
    BY <1>1, <1>3, <2>1, <2>2, <2>3 DEF Placed, Due
  <2>7. Waiting = {}
    <3>1. Expected \cap Requests = {}
      BY <2>1 DEF Expected, Requests
    <3>2. QED
      BY <3>1 DEF Waiting, OnScript, Script
  <2>8. Accounted'
    BY <1>1, <2>3, <2>7, AnsweredStays DEF Accounted, OnScript
  <2>9. QED
    BY <2>2, <2>4, <2>5, <2>6, <2>8 DEF OnScript
<1>5. CASE Message(Held).kind # "part"
  <2>1. Len(Pending') = 0 /\ Waiting = {}
    BY <1>5, NothingIsLeft DEF OnScript
  <2>2. Agreed' /\ Script(Pending)'
    BY <2>1, NothingOnTheWay
  <2>3. /\ state = "EXPECT_PRELOGIN" =>
              state' = "TLS_HANDSHAKE" /\ tunnel' = "hello" /\ Adds("prelogin", 0)
        /\ state = "TLS_HANDSHAKE" /\ tunnel = "hello" =>
              UNCHANGED state /\ tunnel' = "finish" /\ Adds("handshake", 0)
        /\ state = "TLS_HANDSHAKE" /\ tunnel # "hello" =>
              state' = "EXPECT_LOGIN" /\ Adds("handshake", 0)
        /\ state \in {"EXPECT_LOGIN", "EXPECT_SSPI"} =>
              \/ state' = "READY" /\ Adds("login", 0)
              \/ state' = "EXPECT_SSPI" /\ Adds("sspi", 0)
    <3>1. \A kind \in Said : Tells(kind, 0) => Adds(kind, 0)
      BY TellingAdds
    <3>2. {"prelogin", "handshake", "login", "sspi"} \subseteq Said
      BY DEF Said
    <3>3. QED
      BY <1>5, <3>1, <3>2 DEF Turns, Shaken, Admitted
  <2>4. \E kind \in {"prelogin", "handshake", "login", "sspi"} : Adds(kind, 0)
    BY <2>3 DEF TypeOK, States
  <2>5. NonePassedOver'
    BY <1>1, <2>4, OtherRepliesStay
  <2>6. Accounted'
    BY <1>1, <2>1, <2>4, AnsweredStays DEF Accounted, OnScript
  <2>7. \A kind \in {"prelogin", "handshake", "login", "sspi"} :
           Len(Coming) = 0 /\ Adds(kind, 0) => Spoken(kind)'
    BY <2>1 DEF Spoken, Adds
  <2>8. Placed'
    BY <1>1, <1>3, <2>3, <2>7 DEF Placed
  <2>9. QED
    BY <2>2, <2>5, <2>6, <2>8 DEF OnScript
<1>6. QED
  BY <1>4, <1>5

LEMMA TurnsWhenReady ==
    ASSUME TypeOK, TypeOK', RepliesInOrder, WaitingInOrder, OnScript,
           NonePassedOver, Takes, Turns, Shrinks, state = "READY",
           UNCHANGED <<policy, wire, downstream, client>>
    PROVE  NonePassedOver' /\ OnScript'
<1>1. UNCHANGED <<heard, asked, place, auth, wants, Covered>>
  BY DEF client, Covered, Negotiated
<1>2. UNCHANGED state
  BY DEF Turns
<1>3. /\ Len(Pending) > 0 /\ Len(Pending) \in Nat
      /\ Len(Coming) \in Nat /\ DOMAIN Coming = 1..Len(Coming)
      /\ DOMAIN Coming' = 1..Len(Coming') /\ Len(Coming') \in Nat
      /\ \A i \in 1..Len(Pending) : Pending[i].of \in Nat
      /\ DOMAIN Pending = 1..Len(Pending)
  BY HeldComesFirst, ComingIs, PendingThen DEF Takes
<1>4. /\ Script(Pending)'
      /\ 1 \in DOMAIN Pending /\ Message(Held) = Pending[1]
      /\ \A i \in Waiting :
            \/ 1 \in Waiting /\ Pending[i].of = Pending[1].of
            \/ \E j \in Waiting' : Pending'[j].of = Pending[i].of
  BY <1>2, OneIsTaken DEF OnScript
<1>5. Agreed'
  BY <1>1, <1>2, AgreedStays DEF OnScript
<1>6. \/ Pending[1].kind = "sspi" /\ UNCHANGED Coming
      \/ 1 \in Waiting /\ Adds("answer", Pending[1].of)
  <2>1. UNCHANGED responses => UNCHANGED Coming
    BY DEF Coming
  <2>2. Tells("answer", Pending[1].of) => Adds("answer", Pending[1].of)
    BY <1>3, <1>4, TellingAdds DEF Said
  <2>3. QED
    BY <1>4, <2>1, <2>2 DEF Turns, Waiting
<1>7. place \in {"in", "out"} /\ (place = "in" => \A i \in DOMAIN Coming : Coming[i].kind = "answer")
  BY <1>3 DEF OnScript, Placed, Silent, Due, Spoken, TypeOK, Places
<1>8. ASSUME Adds("answer", Pending[1].of)
      PROVE  /\ Len(Coming) + 1 \in Replies'
             /\ Coming'[Len(Coming) + 1].of = Pending[1].of
             /\ \A i \in DOMAIN Coming' : \/ i \in DOMAIN Coming /\ Coming'[i] = Coming[i]
                                          \/ i = Len(Coming) + 1
             /\ Coming'[Len(Coming) + 1].kind = "answer"
  BY <1>3, <1>8 DEF Adds, Replies
<1>9. Placed'
  BY <1>1, <1>2, <1>6, <1>7, <1>8 DEF Placed
<1>10. Accounted'
  <2>1. ASSUME NEW n \in 1..asked, ~IsAnswered(n)
        PROVE  IsAnswered(n)' \/ \E i \in Waiting' : Pending'[i].of = n
    <3>1. PICK i \in Waiting : Pending[i].of = n
      BY <2>1 DEF OnScript, Accounted
    <3>2. CASE 1 \in Waiting /\ Pending[i].of = Pending[1].of
      <4>1. Adds("answer", Pending[1].of)
        BY <1>6, <3>2 DEF Waiting, Requests
      <4>2. QED
        BY <1>8, <3>1, <3>2, <4>1 DEF IsAnswered
    <3>3. QED
      BY <1>4, <3>1, <3>2
  <2>2. \A n : IsAnswered(n) => IsAnswered(n)'
    BY <1>1, <1>6, AnsweredStays
  <2>3. QED
    BY <1>1, <2>1, <2>2 DEF Accounted
<1>11. NonePassedOver'
  <2>1. CASE UNCHANGED Coming
    BY <1>1, <2>1, OtherRepliesStay
  <2>2. CASE 1 \in Waiting /\ Adds("answer", Pending[1].of)
    <3> DEFINE k == Pending[1].of
    <3>1. k \in 1..asked /\ k \in Nat /\ asked \in Nat
      BY <1>3, <1>4, <2>2, ComingIs DEF WaitingInOrder
    <3>2. ASSUME NEW n \in 1..k, n # k
          PROVE  IsAnswered(n)
      <4>1. n \in 1..asked /\ n < k
        <5> HIDE DEF k
        <5>1. QED
          BY <3>1, <3>2
      <4>2. ASSUME NEW i \in Waiting, Pending[i].of = n
            PROVE  FALSE
        <5>1. i \in 1..Len(Pending)
          BY <1>3 DEF Waiting
        <5>2. i # 1
          BY <4>1, <4>2
        <5>3. 1 < i
          BY <5>1, <5>2
        <5>4. k < n \/ k = n
          BY <2>2, <4>2, <5>3 DEF WaitingInOrder
        <5>5. QED
          BY <3>1, <4>1, <5>4
      <4>3. QED
        BY <4>1, <4>2 DEF OnScript, Accounted
    <3>3. \A n \in 1..k : IsAnswered(n)'
      <4>1. ASSUME NEW n \in 1..k
            PROVE  IsAnswered(n)'
        <5>1. CASE n = k
          BY <1>8, <2>2, <5>1 DEF IsAnswered
        <5>2. CASE n # k
          BY <1>1, <2>2, <3>2, <5>2, AnsweredStays
        <5>3. QED
          BY <5>1, <5>2
      <4>2. QED
        BY <4>1
    <3>4. ASSUME NEW i \in Replies, NEW n \in 1..Coming[i].of
          PROVE  IsAnswered(n)'
      <4>1. IsAnswered(n)
        BY DEF NonePassedOver
      <4>2. QED
        BY <1>1, <2>2, <4>1, AnsweredStays
    <3>5. \A i \in Replies' : \/ i \in Replies /\ Coming'[i] = Coming[i]
                              \/ Coming'[i].of = k
      BY <1>8, <2>2 DEF Replies
    <3> HIDE DEF k
    <3>6. \A i \in Replies' : \A n \in 1..Coming'[i].of : IsAnswered(n)'
      BY <3>3, <3>4, <3>5
    <3>7. QED
      BY <1>1, <3>6 DEF NonePassedOver
  <2>3. QED
    BY <1>6, <2>1, <2>2
<1>12. QED
  BY <1>4, <1>5, <1>9, <1>10, <1>11 DEF OnScript

LEMMA BridgeFollows ==
    ASSUME TypeOK, TypeOK', Settles, Wrapped, Orderly, Followed, Bridge
    PROVE  Followed'
<1> SUFFICES ASSUME Conforming
             PROVE  Followed'
  <2>1. Conforming' <=> Conforming
    BY StepsComeOut DEF Conforming, Bridge, Outcome, Answers, Receive, Closes, client
  <2>2. QED
    BY <2>1 DEF Followed
<1>1. why # "protocol" /\ NonePassedOver /\ (state # "FAILED" => OnScript)
  BY DEF Followed
<1>2. CASE /\ Outcome
           /\ StepPrelogin \/ StepHandshake \/ StepLogin \/ StepSspi \/ StepQuery
  <2>1. /\ state # "FAILED" /\ OnScript
        /\ UNCHANGED <<policy, wire, downstream, client, heard, Covered>>
    BY <1>1, <1>2 DEF Outcome, client, Covered, Negotiated
  <2>2. Shrinks
    BY <1>2, BufferShrinks
  <2>3. ASSUME NEW reason \in Reasons \ {"refused"}, Fails(reason)
        PROVE  Followed'
    <3>1. reason # "protocol"
      BY <2>1, <2>3, NotOutOfTurn DEF Fails, OnScript
    <3>2. why' = reason /\ state' = "FAILED" /\ responses' = <<>>
      BY <2>3 DEF Fails, Raises
    <3>3. NonePassedOver'
      BY <1>1, <2>1, <3>2, FailingLoses, PassedOverStays DEF Orderly
    <3>4. QED
      BY <3>1, <3>2, <3>3 DEF Followed
  <2>4. CASE Gathers
    <3>1. /\ UNCHANGED <<state, tunnel, why, Pending, Coming>>
      BY <2>1, <2>4 DEF Gathers, Keeps, Coming
    <3>2. NonePassedOver'
      BY <2>1, <3>1, OtherRepliesStay, <1>1
    <3>3. Script(Pending)' /\ Agreed'
      BY <2>1, <2>2, <3>1, ScriptStays, AgreedStays DEF OnScript
    <3>4. Placed' /\ Accounted'
      BY <2>1, <3>1 DEF OnScript, Placed, Silent, Due, Spoken, Accounted, IsAnswered,
                        Replies, Waiting, client
    <3>5. QED
      BY <1>1, <3>1, <3>2, <3>3, <3>4 DEF Followed, OnScript
  <2>5. CASE Refuses
    <3>1. Adds("refusal", 0) /\ why' = "refused" /\ state' = "FAILED"
      BY <2>1, <2>5, TellingAdds DEF Refuses, Said
    <3>2. NonePassedOver'
      BY <1>1, <2>1, <3>1, OtherRepliesStay
    <3>3. QED
      BY <3>1, <3>2 DEF Followed
  <2>6. CASE Takes /\ Turns
    <3>1. UNCHANGED why
      BY <2>6 DEF Turns, Shaken, Admitted
    <3>2. NonePassedOver' /\ OnScript'
      <4>1. CASE state = "READY"
        BY <1>1, <2>1, <2>2, <2>6, <4>1, TurnsWhenReady DEF Orderly
      <4>2. CASE state # "READY"
        BY <1>1, <2>1, <2>2, <2>6, <4>2, TurnsBeforeReady
      <4>3. QED
        BY <4>1, <4>2
    <3>3. QED
      BY <1>1, <3>1, <3>2 DEF Followed
  <2>7. QED
    BY <1>2, <2>3, <2>4, <2>5, <2>6 DEF Outcome
<1>3. ASSUME UNCHANGED <<Coming, state, tunnel, why, heard, asked, place>>,
             state # "FAILED" => Agreed' /\ UNCHANGED Pending
      PROVE  Followed'
  <2>1. NonePassedOver'
    BY <1>1, <1>3, OtherRepliesStay
  <2>2. ASSUME state # "FAILED"
        PROVE  OnScript'
    <3>1. Script(Pending)'
      BY <1>1, <1>3, <2>2, ScriptStays DEF OnScript
    <3>2. Placed' /\ Accounted'
      BY <1>1, <1>3, <2>2 DEF OnScript, Placed, Silent, Due, Spoken, Accounted,
                              IsAnswered, Replies, Waiting
    <3>3. QED
      BY <1>3, <2>2, <3>1, <3>2 DEF OnScript
  <2>3. QED
    BY <1>1, <1>3, <2>1, <2>2 DEF Followed
<1>4. CASE Answers
  <2>1. UNCHANGED <<Coming, Pending, state, tunnel, why, heard, asked, place, wire, Covered>>
    BY <1>4, SendingOn, AnsweringKeeps DEF Answers, Keeps, client, Covered, Negotiated
  <2>2. state # "FAILED" => Agreed'
    BY <1>1, <1>4, <2>1, BufferShrinks, AgreedStays DEF OnScript
  <2>3. QED
    BY <1>3, <2>1, <2>2
<1>5. CASE Receive
  <2>1. UNCHANGED <<Coming, state, tunnel, why, heard, asked, place>>
    BY <1>5 DEF Receive, client, Coming
  <2>2. state # "FAILED" => Agreed' /\ UNCHANGED Pending
    BY <1>1, <1>5, ReceivingKeeps, AgreedRead DEF OnScript
  <2>3. QED
    BY <1>3, <2>1, <2>2
<1>6. CASE Closes
  <2>1. UNCHANGED <<Coming, state, tunnel, why, heard, asked, place, buffer, wire, Pending, Covered>>
    BY <1>6 DEF Closes, client, Coming, Pending, Kept, Covered, Negotiated
  <2>2. state # "FAILED" => Agreed'
    BY <1>1, <2>1, AgreedStays DEF OnScript, Shrinks
  <2>3. QED
    BY <1>3, <2>1, <2>2
<1>7. QED
  BY <1>2, <1>4, <1>5, <1>6, StepsComeOut DEF Bridge

-------------------------------------------------------------------------------
(* So does a client that follows the protocol.                             *)

LEMMA SendingFollows ==
    ASSUME TypeOK, TypeOK', OnScript, NEW packets \in Seq(Packet), Sends(packets),
           Script(packets), Len(packets) > 0,
           \A i \in DOMAIN packets : packets[i].tls = Under,
           Len(Pending) = 0 \/ state = "READY",
           \/ asked' = asked
           \/ /\ asked' = asked + 1 /\ packets[1].kind \in Requests
              /\ packets[1].of = asked',
           (Len(Pending') > 0 /\ UNCHANGED <<Coming, heard>>) => Placed'
    PROVE  OnScript'
<1>1. /\ wire' = wire \o packets /\ UNCHANGED <<server, downstream, auth, wants, heard>>
      /\ UNCHANGED <<state, tunnel, buffer, Covered, Coming>>
  BY DEF Sends, server, Covered, Negotiated, Coming
<1>2. Brings(packets)
  BY <1>1, SendingBrings
<1>3. Script(Pending)'
  BY <1>1, <1>2, ScriptExtends DEF OnScript
<1>4. Agreed'
  BY <1>1, AgreedSent DEF OnScript
<1>5. /\ DOMAIN Pending = 1..Len(Pending) /\ Len(Pending) \in Nat
      /\ DOMAIN Pending' = 1..(Len(Pending) + Len(packets))
      /\ Len(packets) \in Nat /\ asked \in Nat
      /\ Len(Pending') = Len(Pending) + Len(packets)
  BY <1>2, HeldComesFirst, PendingThen, ComingIs DEF Brings
<1>6. Placed'
  BY <1>1, <1>5
<1>7. ASSUME NEW i \in Waiting
      PROVE  i \in Waiting' /\ Pending'[i] = Pending[i]
  <2>1. i \in 1..Len(Pending) /\ Pending[i].kind \in Requests
    BY <1>5 DEF Waiting
  <2>2. Pending'[i] = Pending[i] /\ i \in DOMAIN Pending'
    BY <1>2, <1>5, <2>1 DEF Brings
  <2>3. QED
    BY <2>1, <2>2 DEF Waiting
<1>8. \A n : IsAnswered(n)' <=> IsAnswered(n)
  BY <1>1 DEF IsAnswered, Replies
<1>9. \A n \in 1..asked : IsAnswered(n)' \/ \E i \in Waiting' : Pending'[i].of = n
  BY <1>7, <1>8 DEF OnScript, Accounted
<1>10. ASSUME asked' = asked + 1, packets[1].kind \in Requests, packets[1].of = asked'
       PROVE  \E i \in Waiting' : Pending'[i].of = asked'
  <2>1. 1 \in 1..Len(packets) /\ Len(Pending) + 1 \in DOMAIN Pending'
    BY <1>5
  <2>2. /\ Pending'[Len(Pending) + 1].kind \in Requests
        /\ Pending'[Len(Pending) + 1].of = asked'
    BY <1>2, <1>10, <2>1 DEF Brings
  <2>3. QED
    BY <2>1, <2>2 DEF Waiting
<1>11. Accounted'
  <2>1. CASE asked' = asked
    BY <1>9, <2>1 DEF Accounted
  <2>2. CASE /\ asked' = asked + 1 /\ packets[1].kind \in Requests
             /\ packets[1].of = asked'
    <3>1. \A n \in 1..asked' : n \in 1..asked \/ n = asked'
      BY <1>5, <2>2
    <3>2. QED
      BY <1>9, <1>10, <2>2, <3>1 DEF Accounted
  <2>3. QED
    BY <2>1, <2>2
<1>12. QED
  BY <1>3, <1>4, <1>6, <1>11 DEF OnScript

(* One packet of a kind that is expected.                                  *)
LEMMA OnePacketFollows ==
    ASSUME TypeOK, TypeOK', OnScript, NEW kind \in Kinds, NEW tls \in BOOLEAN,
           NEW of \in Nat, Sends(<<Bytes(kind, tls, TRUE, of)>>),
           kind \in Expected, kind # "part", tls = Under,
           Len(Pending) = 0 \/ state = "READY",
           \/ asked' = asked
           \/ asked' = asked + 1 /\ kind \in Requests /\ of = asked',
           (Len(Pending') > 0 /\ UNCHANGED <<Coming, heard>>) => Placed'
    PROVE  OnScript'
<1> DEFINE p == Bytes(kind, tls, TRUE, of)
<1>1. p \in Packet /\ p.kind = kind /\ p.tls = tls /\ p.last /\ p.of = of
  BY DEF Bytes, Packet
<1>2. Sends(<<p>>)
  OBVIOUS
<1> HIDE DEF p
<1>3. /\ <<p>> \in Seq(Packet) /\ Len(<<p>>) = 1 /\ <<p>>[1] = p
      /\ \A i \in DOMAIN <<p>> : <<p>>[i] = p
  BY <1>1
<1>4. Script(<<p>>)
  BY <1>1, ScriptOfOne
<1> DEFINE packets == <<p>>
<1>5. /\ packets \in Seq(Packet) /\ Len(packets) > 0 /\ packets[1] = p
      /\ Script(packets) /\ Sends(packets)
  BY <1>2, <1>3, <1>4
<1>6. \A i \in DOMAIN packets : packets[i].tls = Under
  BY <1>1, <1>3
<1> HIDE DEF packets
<1>7. QED
  BY <1>1, <1>5, <1>6, SendingFollows

LEMMA ClientSendsOnScript ==
    ASSUME TypeOK, TypeOK', OnScript, Client, ~Hears, ~GoesAway, ~Strays
    PROVE  OnScript'
<1>1. /\ asked \in Nat /\ asked + 1 \in Nat /\ 0 \in Nat /\ Covered \in BOOLEAN
      /\ Under \in BOOLEAN /\ {"prelogin", "flight", "sspi", "attention"} \subseteq Kinds
  BY DEF TypeOK, Covered, Under, Kinds, Requests
<1>2. \A packets : Sends(packets) => UNCHANGED <<state, tunnel>>
  BY DEF Sends, server
<1>3. ASSUME Len(Pending') > 0, UNCHANGED <<Coming, heard>>
      PROVE  Len(Coming) = 0 => Due'
  BY <1>3 DEF Due
<1>4. CASE Opens
  <2>1. /\ place = "opening" /\ place' = "prelogin" /\ UNCHANGED asked
        /\ Sends(<<Bytes("prelogin", FALSE, TRUE, 0)>>)
    BY <1>4 DEF Opens
  <2>2. /\ state = "EXPECT_PRELOGIN" /\ Len(Pending) = 0 /\ Len(Coming) = 0
        /\ asked = 0 /\ Len(heard) = 0
    BY <2>1 DEF OnScript, Placed, Silent
  <2>3. (Len(Pending') > 0 /\ UNCHANGED <<Coming, heard>>) => Placed'
    BY <1>2, <1>3, <2>1, <2>2 DEF Placed
  <2>4. "prelogin" \in Expected /\ Under = FALSE
    BY <2>2 DEF Expected, Under
  <2>5. QED
    BY <1>1, <2>1, <2>2, <2>3, <2>4, OnePacketFollows
<1>5. CASE Shakes
  <2>1. /\ place \in {"hello", "finish"} /\ UNCHANGED asked
        /\ place' = IF place = "hello" THEN "helloed" ELSE "finished"
    BY <1>5 DEF Shakes
  <2>2. /\ state = "TLS_HANDSHAKE" /\ Len(Pending) = 0 /\ Len(Coming) = 0
        /\ tunnel = IF place = "hello" THEN "hello" ELSE "finish"
        /\ asked = 0 /\ Len(heard) = 0
    BY <2>1 DEF OnScript, Placed, Silent
  <2>3. ASSUME NEW packets, Sends(packets)
        PROVE  (Len(Pending') > 0 /\ UNCHANGED <<Coming, heard>>) => Placed'
    <3>1. UNCHANGED <<state, tunnel>>
      BY <1>2, <2>3
    <3>2. QED
      BY <1>3, <2>1, <2>2, <3>1 DEF Placed
  <2>4. Expected = {"part", "flight"} /\ Under = FALSE
    BY <2>2 DEF Expected, Under
  <2>5. CASE Sends(<<Bytes("flight", FALSE, TRUE, 0)>>)
    BY <1>1, <2>1, <2>2, <2>3, <2>4, <2>5, OnePacketFollows
  <2>6. CASE Sends(<<Bytes("part", FALSE, TRUE, 0), Bytes("flight", FALSE, TRUE, 0)>>)
    <3> DEFINE p == Bytes("part", FALSE, TRUE, 0)  q == Bytes("flight", FALSE, TRUE, 0)
               packets == <<p, q>>
    <3>1. /\ p \in Packet /\ q \in Packet /\ p.kind = "part" /\ q.kind = "flight"
          /\ p.last /\ q.last /\ p.tls = FALSE /\ q.tls = FALSE
      BY DEF Bytes, Packet, Kinds
    <3>2. Sends(packets)
      BY <2>6
    <3> HIDE DEF p, q
    <3>3. /\ packets \in Seq(Packet) /\ Len(packets) = 2
          /\ \A i \in DOMAIN packets : packets[i] = p \/ packets[i] = q
      BY <3>1
    <3>4. Script(packets)
      BY <2>4, <3>1, ScriptOfTwo DEF Continues
    <3> HIDE DEF packets
    <3>5. (Len(Pending') > 0 /\ UNCHANGED <<Coming, heard>>) => Placed'
      BY <2>3, <3>2
    <3>6. Len(packets) > 0 /\ \A i \in DOMAIN packets : packets[i].tls = Under
      <4>1. \A i \in DOMAIN packets : packets[i].tls = FALSE
        BY <3>1, <3>3, Zenon
      <4>2. Len(packets) > 0
        BY <3>3
      <4>3. QED
        BY <2>4, <4>1, <4>2, Zenon
    <3>7. QED
      BY <2>1, <2>2, <3>2, <3>3, <3>4, <3>5, <3>6, SendingFollows
  <2>7. QED
    BY <1>5, <2>5, <2>6 DEF Shakes
<1>6. CASE LogsIn
  <2>1. place = "login" /\ place' = "admission" /\ UNCHANGED asked
    BY <1>6 DEF LogsIn
  <2>2. PICK packets \in Packets("login7", TRUE, 0) : Sends(packets)
    BY <1>6 DEF LogsIn
  <2>3. /\ state = "EXPECT_LOGIN" /\ Len(Pending) = 0 /\ Len(Coming) = 0
        /\ asked = 0 /\ Len(heard) = 0
    BY <2>1 DEF OnScript, Placed, Silent
  <2>4. (Len(Pending') > 0 /\ UNCHANGED <<Coming, heard>>) => Placed'
    BY <1>2, <1>3, <2>1, <2>2, <2>3 DEF Placed
  <2>5. "login7" \in Expected /\ Under = TRUE /\ "login7" \in Kinds
    BY <2>3 DEF Expected, Under, Kinds
  <2>6. /\ packets \in Seq(Packet) /\ Script(packets) /\ Len(packets) > 0
        /\ \A i \in DOMAIN packets : packets[i].tls = Under
    BY <1>1, <2>5, ScriptOfAMessage
  <2>7. QED
    BY <2>1, <2>2, <2>3, <2>4, <2>6, SendingFollows
<1>7. CASE SendsToken
  <2>1. /\ place = "token" /\ place' = "admission" /\ UNCHANGED asked
        /\ Sends(<<Bytes("sspi", Covered, TRUE, 0)>>)
    BY <1>7 DEF SendsToken
  <2>2. /\ state = "EXPECT_SSPI" /\ Len(Pending) = 0 /\ Len(Coming) = 0
        /\ asked = 0 /\ Len(heard) = 0
    BY <2>1 DEF OnScript, Placed, Silent
  <2>3. (Len(Pending') > 0 /\ UNCHANGED <<Coming, heard>>) => Placed'
    BY <1>2, <1>3, <2>1, <2>2 DEF Placed
  <2>4. "sspi" \in Expected /\ Under = Covered
    BY <1>1, <2>2 DEF Expected, Under
  <2>5. QED
    BY <1>1, <2>1, <2>2, <2>3, <2>4, OnePacketFollows
<1>8. ASSUME place = "in"
      PROVE  /\ state = "READY" /\ Under = Covered
             /\ \A i \in DOMAIN Coming : Coming[i].kind = "answer"
             /\ Expected = Requests \cup {"sspi"}
  BY <1>1, <1>8 DEF OnScript, Placed, Under, Expected
<1>9. ASSUME place = "in", UNCHANGED <<place, Coming, state>>
      PROVE  Placed'
  BY <1>8, <1>9 DEF Placed
<1>10. CASE Trails
  <2>1. /\ place = "in" /\ UNCHANGED <<place, asked>>
        /\ Sends(<<Bytes("sspi", Covered, TRUE, 0)>>)
    BY <1>10 DEF Trails
  <2>2. QED
    BY <1>1, <1>2, <1>8, <1>9, <2>1, OnePacketFollows
<1>11. CASE Asks
  <2>1. place = "in" /\ UNCHANGED place /\ asked' = asked + 1
    BY <1>11 DEF Asks
  <2>2. PICK kind \in Requests \ {"attention"} :
           \E packets \in Packets(kind, Covered, asked') : Sends(packets)
    BY <1>11 DEF Asks
  <2>3. PICK packets \in Packets(kind, Covered, asked') : Sends(packets)
    BY <2>2
  <2>4. kind \in Kinds /\ kind \in Requests \cup {"login7"} /\ kind \in Expected
    BY <1>8, <2>1 DEF Kinds
  <2>5. /\ packets \in Seq(Packet) /\ Script(packets) /\ Len(packets) > 0
        /\ packets[1].kind = kind /\ packets[1].of = asked'
        /\ \A i \in DOMAIN packets : packets[i].tls = Covered
    BY <1>1, <2>1, <2>4, ScriptOfAMessage
  <2>6. UNCHANGED state
    BY <1>2, <2>3
  <2>7. UNCHANGED Coming => Placed'
    BY <1>9, <2>1, <2>6
  <2>8. QED
    BY <1>8, <2>1, <2>3, <2>5, <2>7, SendingFollows
<1>12. CASE Cancels
  <2>1. /\ place = "in" /\ UNCHANGED place /\ asked' = asked + 1
        /\ Sends(<<Bytes("attention", Covered, TRUE, asked')>>)
    BY <1>12 DEF Cancels
  <2>2. "attention" \in Requests /\ asked' \in Nat
    BY <1>1, <2>1 DEF Requests
  <2>3. QED
    BY <1>1, <1>2, <1>8, <1>9, <2>1, <2>2, OnePacketFollows
<1>13. QED
  BY <1>4, <1>5, <1>6, <1>7, <1>10, <1>11, <1>12 DEF Client

LEMMA HearingFollows ==
    ASSUME TypeOK, TypeOK', Orderly, NonePassedOver, state # "FAILED" => OnScript,
           Hears
    PROVE  NonePassedOver' /\ (state' # "FAILED" => OnScript')
<1>1. /\ Len(Coming) > 0 /\ Len(Coming') = Len(Coming) - 1
      /\ \A i \in 1..(Len(Coming) - 1) : Coming'[i] = Coming[i + 1]
      /\ heard' = IF Coming[1].kind = "answer" THEN Append(heard, Coming[1].of)
                  ELSE heard
      /\ place' = Moves(Coming[1].kind)
  BY HearingTakes
<1>2. /\ UNCHANGED <<state, tunnel, buffer, wire, Pending, Covered, asked>>
      /\ place # "out"
  BY DEF Hears, server, Pending, Kept, Covered, Negotiated
<1>3. /\ DOMAIN Coming = 1..Len(Coming) /\ Len(Coming) \in Nat /\ heard \in Seq(Nat)
      /\ DOMAIN Coming' = 1..(Len(Coming) - 1) /\ Len(heard) \in Nat
      /\ DOMAIN heard = 1..Len(heard)
      /\ \A i \in 1..Len(Coming) : Coming[i].of \in Nat
      /\ Coming[1].of \in Nat /\ 1 \in DOMAIN Coming
  BY <1>1, ComingIs, PendingThen
<1>4. ASSUME NEW i \in Replies'
      PROVE  i + 1 \in Replies /\ Coming'[i] = Coming[i + 1]
  BY <1>1, <1>3 DEF Replies
<1>5. CASE Coming[1].kind = "answer"
  <2> DEFINE k == Coming[1].of  l == Len(heard)
  <2>1. 1 \in Replies /\ k \in Nat /\ l \in Nat
    BY <1>3, <1>5 DEF Replies
  <2>2. /\ \A m \in 1..l : heard'[m] = heard[m]
        /\ heard'[l + 1] = k /\ DOMAIN heard' = 1..(l + 1)
    BY <1>1, <1>3, <1>5
  <2>3. \A m \in 1..l : heard[m] = m
    BY <1>3 DEF NonePassedOver
  <2>4. k >= 1 /\ (l >= 1 => l < k)
    <3>1. k \in 1..asked /\ \A m \in DOMAIN heard : heard[m] < k
      BY <2>1 DEF Orderly, RepliesInOrder
    <3>2. l >= 1 => l \in DOMAIN heard /\ heard[l] = l
      BY <1>3, <2>1, <2>3
    <3>3. k >= 1
      BY <2>1, <3>1
    <3>4. l >= 1 => l < k
      BY <3>1, <3>2
    <3>5. QED
      BY <3>3, <3>4
  <2>5. k = l + 1
    <3>1. ASSUME l + 1 < k
          PROVE  FALSE
      <4>1. l + 1 \in 1..k
        BY <2>1, <3>1
      <4>2. IsAnswered(l + 1)
        BY <2>1, <4>1 DEF NonePassedOver
      <4>3. ~ \E m \in DOMAIN heard : heard[m] = l + 1
        BY <1>3, <2>1, <2>3
      <4>4. PICK j \in Replies : Coming[j].of = l + 1
        BY <4>2, <4>3 DEF IsAnswered
      <4>5. j \in 1..Len(Coming)
        BY <1>3 DEF Replies
      <4>6. j = 1 \/ 1 < j
        BY <1>3, <4>5
      <4>7. 1 < j => k < l + 1
        BY <2>1, <4>4 DEF Orderly, RepliesInOrder
      <4>8. QED
        BY <2>1, <3>1, <4>4, <4>6, <4>7
    <3>2. QED
      BY <2>1, <2>4, <3>1
  <2>6. \A m \in DOMAIN heard' : heard'[m] = m
    <3> HIDE DEF k, l
    <3>1. QED
      BY <2>1, <2>2, <2>3, <2>5
  <2>7. ASSUME NEW n, IsAnswered(n)
        PROVE  IsAnswered(n)'
    <3>1. CASE \E m \in DOMAIN heard : heard[m] = n
      BY <1>3, <2>2, <3>1 DEF IsAnswered
    <3>2. ASSUME NEW j \in Replies, Coming[j].of = n
          PROVE  IsAnswered(n)'
      <4>1. j \in 1..Len(Coming) /\ Coming[j].kind = "answer"
        BY <1>3 DEF Replies
      <4>2. CASE j = 1
        <5>1. l + 1 \in DOMAIN heard' /\ heard'[l + 1] = n
          BY <2>1, <2>2, <3>2, <4>2
        <5>2. QED
          BY <5>1 DEF IsAnswered
      <4>3. CASE j # 1
        <5>1. j - 1 \in 1..(Len(Coming) - 1) /\ (j - 1) + 1 = j
          BY <1>3, <4>1, <4>3
        <5>2. j - 1 \in Replies' /\ Coming'[j - 1].of = n
          BY <1>1, <1>3, <3>2, <4>1, <5>1 DEF Replies
        <5>3. QED
          BY <5>2 DEF IsAnswered
      <4>4. QED
        BY <4>2, <4>3
    <3>3. QED
      BY <2>7, <3>1, <3>2 DEF IsAnswered
  <2>8. NonePassedOver'
    BY <1>4, <2>6, <2>7 DEF NonePassedOver
  <2>9. ASSUME OnScript, state # "FAILED"
        PROVE  OnScript'
    <3>1. Script(Pending)'
      BY <1>2, <2>9, ScriptStays DEF OnScript
    <3>2. Agreed'
      BY <1>2, <2>9, AgreedStays DEF OnScript, Shrinks
    <3>3. Accounted'
      BY <1>2, <2>7, <2>9 DEF OnScript, Accounted, Waiting
    <3>4. place = "in" /\ state = "READY" /\ \A i \in DOMAIN Coming : Coming[i].kind = "answer"
      BY <1>1, <1>2, <1>5, <2>9 DEF OnScript, Placed, Silent, Due, Spoken, TypeOK, Places
    <3>5. place' = "in"
      <4>1. place = "in" => Moves("answer") = place
        BY DEF Moves
      <4>2. QED
        BY <1>1, <1>5, <3>4, <4>1
    <3>6. \A i \in DOMAIN Coming' : Coming'[i].kind = "answer"
      <4>1. \A i \in DOMAIN Coming' : i + 1 \in DOMAIN Coming /\ Coming'[i] = Coming[i + 1]
        BY <1>1, <1>3
      <4>2. QED
        BY <3>4, <4>1
    <3>7. Placed'
      BY <1>2, <3>4, <3>5, <3>6 DEF Placed
    <3>8. QED
      BY <3>1, <3>2, <3>3, <3>7 DEF OnScript
  <2>10. QED
    BY <1>2, <2>8, <2>9
<1>6. CASE Coming[1].kind # "answer"
  <2>1. UNCHANGED heard
    BY <1>1, <1>6
  <2>2. ASSUME NEW n, IsAnswered(n)
        PROVE  IsAnswered(n)'
    <3>1. ASSUME NEW j \in Replies, Coming[j].of = n
          PROVE  IsAnswered(n)'
      <4>1. j \in 1..Len(Coming) /\ Coming[j].kind = "answer"
        BY <1>3 DEF Replies
      <4>2. j - 1 \in 1..(Len(Coming) - 1) /\ (j - 1) + 1 = j
        BY <1>3, <1>6, <4>1
      <4>3. j - 1 \in Replies' /\ Coming'[j - 1].of = n
        BY <1>1, <1>3, <3>1, <4>1, <4>2 DEF Replies
      <4>4. QED
        BY <4>3 DEF IsAnswered
    <3>2. QED
      BY <2>1, <2>2, <3>1 DEF IsAnswered
  <2>3. NonePassedOver'
    BY <1>4, <2>1, <2>2 DEF NonePassedOver
  <2>4. ASSUME OnScript, state # "FAILED"
        PROVE  OnScript'
    <3>1. Script(Pending)'
      BY <1>2, <2>4, ScriptStays DEF OnScript
    <3>2. Agreed'
      BY <1>2, <2>4, AgreedStays DEF OnScript, Shrinks
    <3>3. Accounted'
      BY <1>2, <2>2, <2>4 DEF OnScript, Accounted, Waiting
    <3>4. /\ Len(Pending) = 0 /\ Len(Coming) = 1 /\ asked = 0 /\ Len(heard) = 0
          /\ \/ /\ place = "prelogin" /\ Coming[1].kind = "prelogin"
                /\ state = "TLS_HANDSHAKE" /\ tunnel = "hello"
             \/ /\ place = "helloed" /\ Coming[1].kind = "handshake"
                /\ state = "TLS_HANDSHAKE" /\ tunnel = "finish"
             \/ /\ place = "finished" /\ Coming[1].kind = "handshake"
                /\ state = "EXPECT_LOGIN"
             \/ /\ place = "admission" /\ Coming[1].kind = "sspi"
                /\ state = "EXPECT_SSPI"
             \/ /\ place = "admission" /\ Coming[1].kind = "login"
                /\ state = "READY"
      <4>1. Placed /\ ~Silent /\ ~Due /\ place \in Places \ {"out"}
        BY <1>1, <1>2, <1>3, <2>4 DEF OnScript, Silent, Due, TypeOK
      <4>2. place # "in"
        BY <1>3, <1>6, <4>1 DEF Placed
      <4>3. asked = 0 /\ Len(heard) = 0
        BY <4>1, <4>2 DEF Placed
      <4>4. /\ place \in {"prelogin", "helloed", "finished", "admission"}
            /\ place = "prelogin" => state = "TLS_HANDSHAKE" /\ tunnel = "hello" /\ Spoken("prelogin")
            /\ place = "helloed" => state = "TLS_HANDSHAKE" /\ tunnel = "finish" /\ Spoken("handshake")
            /\ place = "finished" => state = "EXPECT_LOGIN" /\ Spoken("handshake")
            /\ place = "admission" =>
                  \/ state = "EXPECT_SSPI" /\ Spoken("sspi")
                  \/ state = "READY" /\ Spoken("login")
        BY <4>1, <4>2 DEF Placed, Places
      <4>5. \A kind : Spoken(kind) => Len(Pending) = 0 /\ Len(Coming) = 1 /\ Coming[1].kind = kind
        BY DEF Spoken
      <4>6. QED
        BY <4>3, <4>4, <4>5
    <3>5. Silent' /\ UNCHANGED <<asked, heard>> /\ DOMAIN Coming' = {}
      BY <1>1, <1>2, <1>3, <2>1, <3>4 DEF Silent
    <3>6. \/ place' = "hello" /\ state' = "TLS_HANDSHAKE" /\ tunnel' = "hello"
          \/ place' = "finish" /\ state' = "TLS_HANDSHAKE" /\ tunnel' = "finish"
          \/ place' = "login" /\ state' = "EXPECT_LOGIN"
          \/ place' = "token" /\ state' = "EXPECT_SSPI"
          \/ place' = "in" /\ state' = "READY"
      BY <1>1, <1>2, <3>4 DEF Moves
    <3>7. Placed'
      BY <3>4, <3>5, <3>6 DEF Placed
    <3>8. QED
      BY <3>1, <3>2, <3>3, <3>7 DEF OnScript
  <2>5. QED
    BY <1>2, <2>3, <2>4
<1>7. QED
  BY <1>5, <1>6

LEMMA ClientFollows ==
    ASSUME TypeOK, TypeOK', Orderly, Followed, Client
    PROVE  Followed'
<1>0. SUFFICES ASSUME Conforming'
               PROVE  Followed'
  BY DEF Followed
<1>1. Conforming /\ ~Strays
  <2>1. ~Strays
    BY <1>0 DEF Strays, Conforming, TypeOK
  <2>2. UNCHANGED strays
    BY <2>1 DEF Client, Opens, Shakes, LogsIn, SendsToken, Trails, Asks, Cancels,
                Hears, GoesAway, Sends
  <2>3. QED
    BY <1>0, <2>1, <2>2 DEF Conforming
<1>2. why # "protocol" /\ NonePassedOver /\ (state # "FAILED" => OnScript)
  BY <1>1 DEF Followed
<1>3. CASE Hears
  <2>1. UNCHANGED why
    BY <1>3 DEF Hears, server
  <2>2. QED
    BY <1>2, <1>3, <2>1, HearingFollows DEF Followed
<1>4. CASE GoesAway
  <2>1. /\ UNCHANGED <<Coming, Pending, heard, asked, state, why, buffer, wire, Covered>>
        /\ place' = "out"
    BY <1>4 DEF GoesAway, server, Coming, Pending, Kept, Covered, Negotiated
  <2>2. NonePassedOver'
    BY <1>2, <2>1, OtherRepliesStay
  <2>3. ASSUME OnScript
        PROVE  OnScript'
    <3>1. Script(Pending)' /\ Agreed'
      BY <2>1, <2>3, ScriptStays, AgreedStays DEF OnScript, Shrinks
    <3>2. Placed'
      BY <2>1 DEF Placed
    <3>3. Accounted'
      BY <2>1, <2>3 DEF OnScript, Accounted, IsAnswered, Replies, Waiting
    <3>4. QED
      BY <3>1, <3>2, <3>3 DEF OnScript
  <2>4. QED
    BY <1>2, <2>1, <2>2, <2>3 DEF Followed
<1>5. CASE ~Hears /\ ~GoesAway
  <2>1. UNCHANGED <<Coming, heard, state, why>>
    BY <1>1, <1>5 DEF Client, Opens, Shakes, LogsIn, SendsToken, Trails, Asks, Cancels,
                      Sends, server, Coming
  <2>2. NonePassedOver'
    BY <1>2, <2>1, OtherRepliesStay
  <2>3. state # "FAILED" => OnScript'
    BY <1>1, <1>2, <1>5, ClientSendsOnScript
  <2>4. QED
    BY <1>2, <2>1, <2>2, <2>3 DEF Followed
<1>6. QED
  BY <1>3, <1>4, <1>5

LEMMA FollowsOn ==
    ASSUME TypeOK, TypeOK', Settles, Wrapped, Orderly, Followed, [Next]_vars
    PROVE  Followed'
<1>1. CASE UNCHANGED vars
  <2>1. /\ UNCHANGED <<Coming, Pending, heard, asked, place, state, tunnel, why, strays,
                       buffer, wire, Covered>>
    BY <1>1 DEF vars, server, client, Coming, Pending, Kept, Covered, Negotiated
  <2>2. ASSUME OnScript
        PROVE  OnScript'
    <3>1. Script(Pending)' /\ Agreed'
      BY <2>1, <2>2, ScriptStays, AgreedStays DEF OnScript, Shrinks
    <3>2. Placed' /\ Accounted'
      BY <2>1, <2>2 DEF OnScript, Placed, Silent, Due, Spoken, Accounted, IsAnswered,
                        Replies, Waiting
    <3>3. QED
      BY <3>1, <3>2 DEF OnScript
  <2>3. NonePassedOver => NonePassedOver'
    BY <2>1, OtherRepliesStay
  <2>4. QED
    BY <2>1, <2>2, <2>3 DEF Followed, Conforming
<1>2. QED
  BY <1>1, BridgeFollows, ClientFollows DEF Next

-------------------------------------------------------------------------------
(* What always holds of both ends.                                         *)
Inductive == TypeOK /\ Wrapped /\ Settles /\ Orderly /\ Followed

LEMMA AtFirst == Init => Inductive
<1> SUFFICES ASSUME Init PROVE Inductive
  OBVIOUS
<1>1. TypeOK
  BY TypedAtFirst
<1>2. Wrapped
  BY DEF Init, Wrapped, Wrapping
<1>3. Kept = <<>> /\ buffer = <<>> /\ wire = <<>> /\ Held = <<>>
  BY DecryptedNothing DEF Init, Kept, Held
<1>4. Pending = <<>> /\ Coming = <<>> /\ heard = <<>>
  BY <1>3, DecryptedNothing DEF Pending, Coming, Init
<1>5. Settles
  BY <1>3 DEF Init, Settles, Whole, Ends
<1>6. Replies = {} /\ Waiting = {} /\ DOMAIN heard = {}
  BY <1>4 DEF Replies, Waiting
<1>7. Orderly
  BY <1>6 DEF Init, Orderly, RefusalIsTold, RepliesInOrder, WaitingInOrder
<1>8. Script(Pending) /\ Agreed
  BY <1>3, <1>4 DEF Script, Agreed
<1>9. Placed
  BY <1>4 DEF Init, Placed, Silent
<1>10. Accounted /\ NonePassedOver
  BY <1>6 DEF Init, Accounted, NonePassedOver
<1>11. Followed
  BY <1>8, <1>9, <1>10 DEF Init, Followed, OnScript
<1>12. QED
  BY <1>1, <1>2, <1>5, <1>7, <1>11 DEF Inductive

LEMMA StaysSo == Spec => []Inductive
<1>1. Inductive /\ TypeOK' /\ [Next]_vars => Inductive'
  BY StaysWrapped, SettlesOn, StaysOrderly, FollowsOn DEF Inductive
<1>2. QED
  BY <1>1, AtFirst, TypeCorrect, PTL DEF Spec

LEMMA ToldInOrder == Inductive => AnswersInOrder
<1> SUFFICES ASSUME Inductive PROVE AnswersInOrder
  OBVIOUS
<1>1. TypeOK /\ RepliesInOrder /\ (Conforming => NonePassedOver)
  BY DEF Inductive, Orderly, Followed
<1>2. /\ DOMAIN Coming = 1..Len(Coming) /\ Len(Coming) \in Nat
      /\ heard \in Seq(Nat) /\ Len(heard) \in Nat /\ DOMAIN heard = 1..Len(heard)
  BY <1>1, ComingIs
<1>3. ASSUME NEW a \in Told
      PROVE  \/ a.turn \in DOMAIN heard /\ a.of = heard[a.turn]
             \/ \E i \in Replies : a.turn = Len(heard) + i /\ a.of = Coming[i].of
  BY DEF Told, Replies
<1>4. /\ \A i \in DOMAIN heard : \E a \in Told : a.of = heard[i]
      /\ \A i \in Replies : \E a \in Told : a.of = Coming[i].of
  <2>1. ASSUME NEW i \in DOMAIN heard
        PROVE  \E a \in Told : a.of = heard[i]
    <3>1. [turn |-> i, of |-> heard[i]] \in Told
      BY DEF Told
    <3>2. QED
      BY <3>1
  <2>2. ASSUME NEW i \in Replies
        PROVE  \E a \in Told : a.of = Coming[i].of
    <3>1. [turn |-> Len(heard) + i, of |-> Coming[i].of] \in Told
      BY DEF Told, Replies
    <3>2. QED
      BY <3>1
  <2>3. QED
    BY <2>1, <2>2
<1>5. ASSUME NEW a \in Told, NEW b \in Told, a.turn < b.turn
      PROVE  a.of < b.of
  <2>1. CASE a.turn \in DOMAIN heard /\ a.of = heard[a.turn]
    <3>1. CASE b.turn \in DOMAIN heard /\ b.of = heard[b.turn]
      BY <1>1, <1>5, <2>1, <3>1 DEF RepliesInOrder
    <3>2. ASSUME NEW j \in Replies, b.of = Coming[j].of
          PROVE  a.of < b.of
      BY <1>1, <2>1, <3>2 DEF RepliesInOrder
    <3>3. QED
      BY <1>3, <3>1, <3>2
  <2>2. ASSUME NEW i \in Replies, a.turn = Len(heard) + i, a.of = Coming[i].of
        PROVE  a.of < b.of
    <3>1. i \in 1..Len(Coming)
      BY <1>2 DEF Replies
    <3>2. ~(b.turn \in DOMAIN heard)
      BY <1>2, <1>5, <2>2, <3>1
    <3>3. PICK j \in Replies : b.turn = Len(heard) + j /\ b.of = Coming[j].of
      BY <1>3, <3>2
    <3>4. j \in 1..Len(Coming)
      BY <1>2 DEF Replies
    <3>5. i < j
      BY <1>2, <1>5, <2>2, <3>1, <3>3, <3>4
    <3>6. QED
      BY <1>1, <2>2, <3>3, <3>5 DEF RepliesInOrder
  <2>3. QED
    BY <1>3, <2>1, <2>2
<1>6. \A a \in Told : a.of \in 1..asked
  BY <1>1, <1>3 DEF RepliesInOrder
<1>7. ASSUME Conforming, NEW a \in Told, NEW n \in 1..a.of
      PROVE  \E b \in Told : b.of = n
  <2>1. NonePassedOver
    BY <1>1, <1>7
  <2>2. CASE a.turn \in DOMAIN heard /\ a.of = heard[a.turn]
    <3>1. a.of = a.turn /\ \A m \in DOMAIN heard : heard[m] = m
      BY <2>1, <2>2 DEF NonePassedOver
    <3>2. n \in DOMAIN heard
      BY <1>2, <1>7, <2>2, <3>1
    <3>3. QED
      BY <1>4, <3>1, <3>2
  <2>3. ASSUME NEW i \in Replies, a.of = Coming[i].of
        PROVE  \E b \in Told : b.of = n
    <3>1. IsAnswered(n)
      BY <2>1, <2>3 DEF NonePassedOver
    <3>2. QED
      BY <1>4, <3>1 DEF IsAnswered
  <2>4. QED
    BY <1>3, <2>2, <2>3
<1>8. QED
  BY <1>5, <1>6, <1>7 DEF AnswersInOrder

LEMMA CutOffIsTold == Inductive => NotCutOff
<1> SUFFICES ASSUME Inductive, Conforming PROVE NotCutOff
  BY DEF NotCutOff
<1>1. why # "protocol" /\ TypeOK /\ Settles /\ RefusalIsTold
  BY DEF Inductive, Followed, Orderly
<1>2. ASSUME thread # "stepping"
      PROVE  Coming = downstream
  <2>1. responses = <<>> /\ downstream \in Seq(Response)
    BY <1>1, <1>2 DEF Settles, TypeOK
  <2>2. QED
    BY <2>1 DEF Coming
<1>3. QED
  BY <1>1, <1>2 DEF NotCutOff, RefusalIsTold

LEMMA NothingHeldBack ==
    ASSUME TypeOK, Script(Pending), ~Whole(Held), wire = <<>>
    PROVE  Len(Pending) = 0
<1>1. /\ Len(Pending) = Len(Held) + 0 /\ Len(Pending) \in Nat /\ Len(Held) \in Nat
      /\ DOMAIN Pending = 1..Len(Pending) /\ DOMAIN Held = 1..Len(Held)
      /\ \A i \in 1..Len(Held) : Pending[i] = Held[i]
  BY HeldIs, HeldComesFirst
<1>2. Len(Held) = Len(Pending)
  BY <1>1
<1>3. ASSUME Len(Pending) > 0
      PROVE  FALSE
  <2> DEFINE n == Len(Pending)
  <2>1. n \in DOMAIN Pending /\ n + 1 \notin DOMAIN Pending /\ n \in DOMAIN Held
    BY <1>1, <1>2, <1>3
  <2> HIDE DEF n
  <2>2. Pending[n].last
    BY <2>1 DEF Script, Continues
  <2>3. Held[n].last
    BY <1>1, <2>1, <2>2
  <2>4. QED
    BY <2>1, <2>3 DEF Whole, Ends
<1>4. QED
  BY <1>1, <1>3

LEMMA NeitherWaits == Inductive => NeverBothWaiting
<1> SUFFICES ASSUME Inductive, Conforming, thread = "reading", wire = <<>>,
                    downstream = <<>>, place # "out"
             PROVE  ~Awaits
  BY DEF NeverBothWaiting
<1>1. /\ TypeOK /\ Settles /\ RefusalIsTold /\ RepliesInOrder /\ NonePassedOver
      /\ state # "FAILED" => OnScript
  BY DEF Inductive, Followed, Orderly
<1>2. responses = <<>> /\ Coming = <<>> /\ Len(Coming) = 0 /\ DOMAIN Coming = {}
  BY <1>1 DEF Settles, Coming
<1>3. state # "FAILED"
  BY <1>1, <1>2 DEF RefusalIsTold
<1>4. OnScript /\ ~Whole(Held)
  BY <1>1, <1>3 DEF Settles
<1>5. Len(Pending) = 0 /\ DOMAIN Pending = {}
  <2>1. Len(Pending) = 0
    BY <1>1, <1>4, NothingHeldBack DEF OnScript
  <2>2. QED
    BY <1>1, <2>1, HeldIs
<1>6. place \notin {"prelogin", "helloed", "finished", "admission"}
  BY <1>2, <1>4, <1>5 DEF OnScript, Placed, Due, Spoken
<1>7. ASSUME asked > Len(heard)
      PROVE  FALSE
  <2>1. asked \in 1..asked /\ DOMAIN heard = 1..Len(heard) /\ Len(heard) \in Nat
    BY <1>1, <1>7, ComingIs
  <2>2. IsAnswered(asked) \/ \E i \in Waiting : Pending[i].of = asked
    BY <1>4, <2>1 DEF OnScript, Accounted
  <2>3. Replies = {} /\ Waiting = {}
    BY <1>2, <1>5 DEF Replies, Waiting
  <2>4. PICK m \in DOMAIN heard : heard[m] = asked
    BY <2>2, <2>3 DEF IsAnswered
  <2>5. m = asked
    BY <1>1, <2>4 DEF NonePassedOver
  <2>6. QED
    BY <1>7, <2>1, <2>4, <2>5
<1>8. QED
  BY <1>6, <1>7 DEF Awaits

-------------------------------------------------------------------------------
(* Requests are answered in the order they were sent, each once, and where *)
(* the client followed the protocol none is passed over, however many of   *)
(* them a read holds and whatever failure throws away what was queued      *)
(* (receive).                                                              *)
THEOREM Answered == Spec => []AnswersInOrder
  BY StaysSo, ToldInOrder, PTL

(* A client that follows the protocol is never failed for a message out of *)
(* turn, nor for bytes in the wrong wrapping, however its packets fell     *)
(* into reads; and a refused login is told (_answer_sql_login).            *)
THEOREM NoneIsCutOff == Spec => []NotCutOff
  BY StaysSo, CutOffIsTold, PTL

(* The two ends never wait for each other: nothing a client that follows   *)
(* the protocol sent is left where the bridge does not look for it         *)
(* (_take_message, _step_login).                                           *)
THEOREM NoMutualWait == Spec => []NeverBothWaiting
  BY StaysSo, NeitherWaits, PTL
===============================================================================
