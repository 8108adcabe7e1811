---------------------------- MODULE ConductorProofs ----------------------------
(***************************************************************************)
(* What Conductor promises for any peers and any number of calls, messages *)
(* and queued callbacks: its peer and its peer connection stay together,   *)
(* messages leave in order, and none of the call waits with nobody to send *)
(* it.                                                                     *)
(***************************************************************************)
EXTENDS Conductor, SequenceTheorems, TLAPS

Message == [n : Nat, call : Nat]

\* A callback carries at most one message.
Callback ==
    [kind : {"closed"}, what : {<<>>}]
        \cup [kind : {"send"}, what : {<<>>} \cup {<<m>> : m \in Message}]

Members == [pc : Nat, peer : Peers \cup {NoPeer}, loopback : BOOLEAN,
            pending : Seq(Message), crashed : BOOLEAN]

TypeOK ==
    /\ c \in Members
    /\ answers \in Seq({"offer", "answer"})
    /\ callbacks \in Seq(Callback)
    /\ client \in [state : {"out", "connecting", "in", "leaving"}, sending : BOOLEAN]
    /\ window \in [view : {"connect", "peers", "streaming"}, open : BOOLEAN]
    /\ made \in [calls : Nat, messages : Nat]
    /\ sent \in Nat
    /\ left \in Nat

\* A call that is on is the last one that was made, and only it has descriptions
\* being created; what the window shows says whether the client is connected.
CallInv ==
    /\ c.pc \in {NoCall, made.calls}
    /\ ~c.crashed /\ answers # <<>> => c.pc # NoCall
    /\ window.open /\ window.view # "connect" => IsConnected
    /\ ~window.open => client.state \in {"out", "leaving"}

\* Messages so far are of calls so far.
IsOf(m, soFar) == m.n <= soFar.messages /\ m.call \in 1 .. soFar.calls

MessagesInv ==
    /\ sent <= made.messages
    /\ \A i \in DOMAIN c.pending : IsOf(c.pending[i], made)
    /\ \A k \in DOMAIN callbacks : Carries(k) => IsOf(Carried(k), made)

IInv == TypeOK /\ CallInv /\ PeerOfCall /\ MessagesInv

-------------------------------------------------------------------------------
(* Creating and deleting the peer connection *)

LEMMA CrashesMembers ==
  ASSUME NEW q \in Members, NEW creating, NEW r \in Crashes(q, creating)
  PROVE  /\ r \in Members
         /\ r.pc = q.pc /\ r.peer = q.peer /\ r.pending = q.pending
         /\ creating = <<>> => r = q
<1>1. r = q \/ r = [q EXCEPT !.crashed = TRUE]
  BY DEF Crashes
<1>2. creating = <<>> => r = q
  BY DEF Crashes
<1>3. QED
  BY <1>1, <1>2 DEF Members

LEMMA DeletedMembers ==
  ASSUME NEW q \in Members
  PROVE  /\ Deleted(q) \in Members
         /\ Deleted(q).pc = NoCall /\ Deleted(q).peer = NoPeer
         /\ Deleted(q).pending = q.pending /\ Deleted(q).crashed = q.crashed
<1>1. NoCall \in Nat /\ NoPeer \in Peers \cup {NoPeer}
  BY DEF NoCall
<1>2. QED
  BY <1>1 DEF Members, Deleted

LEMMA CreatedMembers ==
  ASSUME NEW q \in Members, NEW calls \in Nat
  PROVE  LET r == CreatePeerConnection(q, calls)
         IN  /\ r \in Members
             /\ r.pc = calls + 1 /\ r.peer = q.peer
             /\ r.pending = q.pending /\ r.crashed = q.crashed
  BY DEF Members, CreatePeerConnection

LEMMA InitializedMembers ==
  ASSUME TypeOK, NEW q \in Members, NEW r \in InitializePeerConnection(q)
  PROVE  /\ r \in Members
         /\ r.pending = q.pending
         /\ \/ r.pc = NoCall /\ r.peer = NoPeer
            \/ r.pc = made.calls + 1 /\ r.peer = q.peer /\ r.crashed = q.crashed
<1>1. made.calls \in Nat
  BY DEF TypeOK
<1>2. CASE r = CreatePeerConnection(q, made.calls)
  BY <1>1, <1>2, CreatedMembers
<1>3. CASE r = Deleted(q)
  BY <1>3, DeletedMembers
<1>4. CASE r = [Deleted(q) EXCEPT !.crashed = TRUE]
  <2>1. /\ r.pc = Deleted(q).pc /\ r.peer = Deleted(q).peer
        /\ r.pending = Deleted(q).pending
        /\ r \in Members
    BY <1>4, DeletedMembers DEF Members
  <2>2. QED
    BY <2>1, DeletedMembers
<1>5. QED
  BY <1>2, <1>3, <1>4 DEF InitializePeerConnection

\* A message for the connection of q, which is the last one made.
LEMMA ReceivedMembers ==
  ASSUME TypeOK, NEW q \in Members, q.pc # NoCall, q.peer # NoPeer, q.pc >= made.calls,
         NEW creating \in Seq({"offer", "answer"}), Received(q, creating)
  PROVE  /\ c' \in Members
         /\ c'.pending = q.pending
         /\ answers' \in Seq({"offer", "answer"})
         /\ made' \in [calls : Nat, messages : Nat]
         /\ made'.calls >= made.calls /\ made'.messages = made.messages
         /\ \/ /\ c'.pc = made'.calls /\ c'.pc # NoCall /\ c'.peer = q.peer
               /\ client' = client
            \/ /\ c'.pc = NoCall /\ c'.peer = NoPeer /\ answers' = <<>>
               /\ client' = SignOut(client)
         /\ c'.pc \in {q.pc, q.pc + 1, NoCall}
<1>1. q.pc \in Nat /\ made \in [calls : Nat, messages : Nat] /\ NoCall = 0
  BY DEF TypeOK, Members, NoCall
<1>2. CASE OfferReceived(q, creating)
  <2>1. answers' \in Seq({"offer", "answer"})
    BY <1>2, AppendProperties DEF OfferReceived
  <2>2. c' = q /\ client' = client /\ made' = [made EXCEPT !.calls = q.pc]
    BY <1>2 DEF OfferReceived
  <2>3. QED
    BY <1>1, <2>1, <2>2
<1>3. CASE OtherReceived(q, creating)
  <2>1. /\ c' = q /\ client' = client /\ answers' = creating
        /\ made' = [made EXCEPT !.calls = q.pc]
    BY <1>3 DEF OtherReceived
  <2>2. QED
    BY <1>1, <2>1
<1>4. ASSUME c' \in Crashes([CreatePeerConnection(q, q.pc) EXCEPT !.loopback = TRUE], creating),
             answers' = <<"offer">>, made' = [made EXCEPT !.calls = q.pc + 1],
             client' = client
      PROVE  /\ c' \in Members
             /\ c'.pending = q.pending
             /\ answers' \in Seq({"offer", "answer"})
             /\ made' \in [calls : Nat, messages : Nat]
             /\ made'.calls >= made.calls /\ made'.messages = made.messages
             /\ c'.pc = made'.calls /\ c'.pc # NoCall /\ c'.peer = q.peer
             /\ c'.pc = q.pc + 1
  <2> DEFINE r == [CreatePeerConnection(q, q.pc) EXCEPT !.loopback = TRUE]
  <2>1. r \in Members /\ r.pc = q.pc + 1 /\ r.peer = q.peer /\ r.pending = q.pending
    BY <1>1, CreatedMembers DEF Members
  <2>2. c' \in Members /\ c'.pc = q.pc + 1 /\ c'.peer = q.peer /\ c'.pending = q.pending
    BY <1>4, <2>1, CrashesMembers
  <2>3. QED
    BY <1>1, <1>4, <2>2
<1>5. ASSUME c' \in Crashes(Deleted(q), creating), answers' = <<>>,
             made' = [made EXCEPT !.calls = q.pc]
      PROVE  /\ c' \in Members
             /\ c'.pending = q.pending
             /\ c'.pc = NoCall /\ c'.peer = NoPeer
             /\ answers' \in Seq({"offer", "answer"})
             /\ made' \in [calls : Nat, messages : Nat]
             /\ made'.calls >= made.calls /\ made'.messages = made.messages
  BY <1>1, <1>5, DeletedMembers, CrashesMembers, EmptySeq
<1>6. CASE ReinitializePeerConnectionForLoopback(q, creating)
  BY <1>4, <1>5, <1>6 DEF ReinitializePeerConnectionForLoopback
<1>7. QED
  BY <1>2, <1>3, <1>6 DEF Received

-------------------------------------------------------------------------------
(* The inductive invariant *)

LEMMA InitIInv == Init => IInv
<1> SUFFICES ASSUME Init PROVE IInv
  OBVIOUS
<1>1. TypeOK
  BY EmptySeq DEF Init, TypeOK, Members, NoCall, NoPeer
<1>2. CallInv /\ PeerOfCall
  BY DEF Init, CallInv, PeerOfCall, NoCall
<1>3. MessagesInv
  BY DEF Init, MessagesInv
<1>4. QED
  BY <1>1, <1>2, <1>3 DEF IInv

\* Messages that are there stay messages of calls so far.
LEMMA MessagesKept ==
  ASSUME TypeOK, MessagesInv,
         c'.pending = c.pending, UNCHANGED <<callbacks, sent>>,
         made' \in [calls : Nat, messages : Nat],
         made'.calls >= made.calls, made'.messages >= made.messages
  PROVE  MessagesInv'
<1>1. \A m : m \in Message /\ IsOf(m, made) => IsOf(m, made')
  BY DEF IsOf, Message, TypeOK
<1>2. \A i \in DOMAIN c.pending : c.pending[i] \in Message
  BY ElementOfSeq, LenProperties DEF TypeOK, Members
<1>3. \A k \in DOMAIN callbacks : Carries(k) => Carried(k) \in Message
  <2>1. \A k \in DOMAIN callbacks : callbacks[k] \in Callback
    BY ElementOfSeq, LenProperties DEF TypeOK
  <2>2. QED
    BY <2>1 DEF Callback, Carries, Carried
<1>4. QED
  BY <1>1, <1>2, <1>3 DEF MessagesInv, Carries, Carried, TypeOK

\* The call is deleted; who does it says what the window shows.
LEMMA CallDeleted ==
  ASSUME IInv, c' \in DeletePeerConnection(c), answers' = <<>>, UNCHANGED <<sent, made>>
  PROVE  /\ c' \in Members /\ answers' \in Seq({"offer", "answer"})
         /\ c'.pending = c.pending
         /\ c'.pc = NoCall
         /\ PeerOfCall'
         /\ callbacks' = callbacks => MessagesInv'
<1>1. c \in Members
  BY DEF IInv, TypeOK
<1>2. c' \in Members /\ c'.pc = NoCall /\ c'.peer = NoPeer /\ c'.pending = c.pending
  BY <1>1, DeletedMembers, CrashesMembers DEF DeletePeerConnection
<1>3. PeerOfCall'
  BY <1>2 DEF PeerOfCall
<1>4. callbacks' = callbacks => MessagesInv'
  BY <1>2, MessagesKept DEF IInv, TypeOK
<1>5. QED
  BY <1>2, <1>3, <1>4, EmptySeq

\* What the user does.
LEMMA UserIInv ==
  ASSUME IInv, StartLogin \/ DisconnectFromServer \/ DisconnectFromCurrentPeer \/ Close
  PROVE  IInv'
<1> USE DEF IInv, IsConnected, SignOut, SwitchTo, SwitchIfOpen
<1>1. CASE StartLogin
  <2>1. TypeOK'
    BY <1>1 DEF StartLogin, TypeOK
  <2>2. CallInv' /\ PeerOfCall'
    BY <1>1 DEF StartLogin, TypeOK, CallInv, PeerOfCall
  <2>3. MessagesInv'
    BY <1>1, MessagesKept DEF StartLogin, TypeOK
  <2>4. QED
    BY <2>1, <2>2, <2>3
<1>2. CASE DisconnectFromServer
  <2>1. TypeOK'
    BY <1>2 DEF DisconnectFromServer, TypeOK
  <2>2. CallInv' /\ PeerOfCall'
    BY <1>2 DEF DisconnectFromServer, TypeOK, CallInv, PeerOfCall
  <2>3. MessagesInv'
    BY <1>2, MessagesKept DEF DisconnectFromServer, TypeOK
  <2>4. QED
    BY <2>1, <2>2, <2>3
<1>3. CASE DisconnectFromCurrentPeer
  <2>1. CASE c.pc = NoCall
    <3>1. UNCHANGED <<c, client, callbacks, made, sent, left>> /\ answers' = <<>>
      BY <1>3, <2>1 DEF DisconnectFromCurrentPeer
    <3>2. TypeOK'
      BY <1>3, <3>1, EmptySeq DEF DisconnectFromCurrentPeer, TypeOK
    <3>3. CallInv' /\ PeerOfCall'
      BY <1>3, <2>1, <3>1 DEF DisconnectFromCurrentPeer, TypeOK, CallInv, PeerOfCall
    <3>4. MessagesInv'
      BY <3>1, MessagesKept DEF TypeOK
    <3>5. QED
      BY <3>2, <3>3, <3>4
  <2>2. CASE c.pc # NoCall
    <3>1. c' \in DeletePeerConnection(c) /\ answers' = <<>> /\ UNCHANGED <<callbacks, made, sent>>
      BY <1>3, <2>2 DEF DisconnectFromCurrentPeer
    <3>2. TypeOK' /\ PeerOfCall' /\ MessagesInv' /\ c'.pc = NoCall
      BY <1>3, <2>2, <3>1, CallDeleted DEF DisconnectFromCurrentPeer, TypeOK
    <3>3. CallInv'
      BY <1>3, <2>2, <3>1, <3>2 DEF DisconnectFromCurrentPeer, TypeOK, CallInv
    <3>4. QED
      BY <3>2, <3>3
  <2>3. QED
    BY <2>1, <2>2
<1>4. CASE Close
  <2>1. c' \in DeletePeerConnection(c) /\ answers' = <<>> /\ UNCHANGED <<callbacks, made, sent>>
    BY <1>4 DEF Close
  <2>2. TypeOK' /\ PeerOfCall' /\ MessagesInv' /\ c'.pc = NoCall
    BY <1>4, <2>1, CallDeleted DEF Close, TypeOK
  <2>3. CallInv'
    BY <1>4, <2>1, <2>2 DEF Close, TypeOK, CallInv
  <2>4. QED
    BY <2>2, <2>3
<1>5. QED
  BY <1>1, <1>2, <1>3, <1>4

LEMMA ConnectToPeerIInv ==
  ASSUME IInv, NEW peer \in Peers, ConnectToPeer(peer)
  PROVE  IInv'
<1> USE DEF IInv, IsConnected
<1>1. PICK q \in InitializePeerConnection(c) :
        IF q.pc = NoCall THEN c' = q /\ UNCHANGED <<answers, window, made>>
        ELSE /\ c' = [q EXCEPT !.peer = peer]
             /\ answers' = <<"offer">>
             /\ window' = SwitchTo("streaming")
             /\ made' = [made EXCEPT !.calls = q.pc]
  BY DEF ConnectToPeer
<1>2. /\ q \in Members /\ q.pending = c.pending
      /\ \/ q.pc = NoCall /\ q.peer = NoPeer
         \/ q.pc = made.calls + 1 /\ q.peer = c.peer /\ q.crashed = c.crashed
  BY InitializedMembers DEF TypeOK
<1>3. /\ ~c.crashed /\ window.open /\ window.view = "peers" /\ c.pc = NoCall
      /\ UNCHANGED <<callbacks, client, sent, left>>
  BY DEF ConnectToPeer
<1>4. made.calls \in Nat /\ NoCall = 0 /\ peer # NoPeer
  BY ConductorAssumption DEF TypeOK, NoCall, NoPeer
<1>5. CASE q.pc = NoCall
  <2>1. c' = q /\ UNCHANGED <<answers, window, made>>
    BY <1>1, <1>5
  <2>2. TypeOK'
    BY <1>2, <1>3, <2>1 DEF TypeOK
  <2>3. q.peer = NoPeer /\ answers = <<>>
    BY <1>2, <1>3, <1>4, <1>5 DEF CallInv
  <2>4. CallInv' /\ PeerOfCall'
    BY <1>3, <1>5, <2>1, <2>3 DEF CallInv, PeerOfCall
  <2>5. MessagesInv'
    BY <1>2, <1>3, <2>1, MessagesKept DEF TypeOK
  <2>6. QED
    BY <2>2, <2>4, <2>5
<1>6. CASE q.pc # NoCall
  <2>1. /\ c' = [q EXCEPT !.peer = peer]
        /\ answers' = <<"offer">>
        /\ window' = [window EXCEPT !.view = "streaming"]
        /\ made' = [made EXCEPT !.calls = q.pc]
        /\ q.pc = made.calls + 1
    BY <1>1, <1>2, <1>6 DEF SwitchTo
  <2>2. /\ c' \in Members /\ c'.pc = q.pc /\ c'.peer = peer /\ c'.pending = c.pending
    BY <1>2, <2>1 DEF Members
  <2>3. TypeOK'
    <3>1. q.pc \in Nat
      BY <1>2 DEF Members
    <3>2. made' \in [calls : Nat, messages : Nat]
      BY <2>1, <3>1 DEF TypeOK
    <3>3. window' \in [view : {"connect", "peers", "streaming"}, open : BOOLEAN]
      BY <2>1 DEF TypeOK
    <3>4. answers' \in Seq({"offer", "answer"})
      BY <2>1
    <3>5. QED
      BY <1>3, <2>2, <3>2, <3>3, <3>4 DEF TypeOK
  <2>4. CallInv' /\ PeerOfCall'
    BY <1>3, <1>4, <1>6, <2>1, <2>2 DEF CallInv, PeerOfCall, TypeOK
  <2>5. MessagesInv'
    BY <1>3, <1>4, <2>1, <2>2, MessagesKept DEF TypeOK
  <2>6. QED
    BY <2>3, <2>4, <2>5
<1>7. QED
  BY <1>5, <1>6

\* A callback is queued for the main thread.
LEMMA CallbackQueued ==
  ASSUME IInv, NEW kind, NEW what, [kind |-> kind, what |-> what] \in Callback,
         callbacks' = QueueUIThreadCallback(kind, what),
         c' = c, sent' = sent, made' \in [calls : Nat, messages : Nat],
         made'.calls = made.calls, made'.messages >= made.messages,
         what # <<>> => IsOf(what[1], made')
  PROVE  /\ callbacks' \in Seq(Callback)
         /\ MessagesInv'
<1> DEFINE cb == [kind |-> kind, what |-> what]
<1>1. /\ callbacks' \in Seq(Callback)
      /\ Len(callbacks') = Len(callbacks) + 1
      /\ \A k \in 1 .. Len(callbacks) : callbacks'[k] = callbacks[k]
      /\ callbacks'[Len(callbacks) + 1] = cb
  BY AppendProperties DEF IInv, TypeOK, QueueUIThreadCallback
<1>2. /\ Len(callbacks) \in Nat /\ DOMAIN callbacks = 1 .. Len(callbacks)
      /\ DOMAIN callbacks' = 1 .. Len(callbacks) + 1
  BY <1>1, LenProperties DEF IInv, TypeOK
<1>3. \A k \in DOMAIN callbacks : callbacks[k] \in Callback
  BY <1>2, ElementOfSeq DEF IInv, TypeOK
<1>4. \A m : m \in Message /\ IsOf(m, made) => IsOf(m, made')
  BY DEF IsOf, Message, IInv, TypeOK
<1>5. \A i \in DOMAIN c.pending : c.pending[i] \in Message
  BY ElementOfSeq, LenProperties DEF IInv, TypeOK, Members
<1>6. ASSUME NEW k \in DOMAIN callbacks', callbacks'[k].what # <<>>
      PROVE  IsOf(callbacks'[k].what[1], made')
  <2>1. CASE k \in DOMAIN callbacks
    <3>1. callbacks'[k] = callbacks[k] /\ callbacks[k].what[1] \in Message
      BY <1>1, <1>2, <1>3, <1>6, <2>1 DEF Callback
    <3>2. IsOf(callbacks[k].what[1], made)
      BY <1>6, <2>1, <3>1 DEF IInv, MessagesInv, Carries, Carried
    <3>3. QED
      BY <1>4, <3>1, <3>2
  <2>2. CASE k = Len(callbacks) + 1
    BY <1>1, <1>6, <2>2
  <2>3. QED
    BY <1>2, <2>1, <2>2
<1>7. sent' <= made'.messages
  BY DEF IInv, TypeOK, MessagesInv
<1>8. \A i \in DOMAIN c'.pending : IsOf(c'.pending[i], made')
  BY <1>4, <1>5 DEF IInv, MessagesInv
<1>9. QED
  BY <1>1, <1>6, <1>7, <1>8 DEF MessagesInv, Carries, Carried

\* What the server says, but for messages.
LEMMA ServerIInv ==
  ASSUME IInv,
         \/ OnSignedIn \/ OnServerConnectionFailure \/ OnDisconnected \/ OnMessageSent
         \/ \E peer \in Peers : OnPeerDisconnected(peer)
  PROVE  IInv'
<1> USE DEF IInv, IsConnected, SwitchTo, SwitchIfOpen
<1>1. CASE OnSignedIn
  <2>1. TypeOK'
    BY <1>1 DEF OnSignedIn, TypeOK
  <2>2. CallInv' /\ PeerOfCall'
    BY <1>1 DEF OnSignedIn, TypeOK, CallInv, PeerOfCall
  <2>3. MessagesInv'
    BY <1>1, MessagesKept DEF OnSignedIn, TypeOK
  <2>4. QED
    BY <2>1, <2>2, <2>3
<1>2. CASE OnServerConnectionFailure
  <2>1. TypeOK'
    BY <1>2 DEF OnServerConnectionFailure, TypeOK
  <2>2. CallInv' /\ PeerOfCall'
    BY <1>2 DEF OnServerConnectionFailure, TypeOK, CallInv, PeerOfCall
  <2>3. MessagesInv'
    BY <1>2, MessagesKept DEF OnServerConnectionFailure, TypeOK
  <2>4. QED
    BY <2>1, <2>2, <2>3
<1>3. CASE OnDisconnected
  <2>1. c' \in DeletePeerConnection(c) /\ answers' = <<>> /\ UNCHANGED <<callbacks, made, sent>>
    BY <1>3 DEF OnDisconnected
  <2>2. TypeOK' /\ PeerOfCall' /\ MessagesInv' /\ c'.pc = NoCall
    BY <1>3, <2>1, CallDeleted DEF OnDisconnected, TypeOK
  <2>3. CallInv'
    BY <1>3, <2>1, <2>2 DEF OnDisconnected, TypeOK, CallInv
  <2>4. QED
    BY <2>2, <2>3
<1>4. CASE OnMessageSent
  <2>1. [kind |-> "send", what |-> <<>>] \in Callback
    BY DEF Callback
  <2>2. /\ callbacks' = QueueUIThreadCallback("send", <<>>)
        /\ client' = [client EXCEPT !.sending = FALSE]
        /\ UNCHANGED <<c, answers, window, made, sent, left>>
    BY <1>4 DEF OnMessageSent
  <2>3. callbacks' \in Seq(Callback) /\ MessagesInv'
    BY <2>1, <2>2, CallbackQueued DEF TypeOK
  <2>4. TypeOK'
    BY <2>2, <2>3 DEF TypeOK
  <2>5. CallInv' /\ PeerOfCall'
    BY <2>2 DEF TypeOK, CallInv, PeerOfCall
  <2>6. QED
    BY <2>3, <2>4, <2>5
<1>5. ASSUME NEW peer \in Peers, OnPeerDisconnected(peer) PROVE IInv'
  <2>1. /\ UNCHANGED <<c, answers, client, window, made, sent>>
        /\ left' \in {c.pc, left}
    BY <1>5 DEF OnPeerDisconnected
  <2>2. callbacks' \in Seq(Callback) /\ MessagesInv'
    <3>1. [kind |-> "closed", what |-> <<>>] \in Callback
      BY DEF Callback
    <3>2. CASE peer = c.peer
      BY <1>5, <2>1, <3>1, <3>2, CallbackQueued DEF OnPeerDisconnected, ClosedBy, TypeOK
    <3>3. CASE peer # c.peer
      BY <1>5, <2>1, <3>3, MessagesKept DEF OnPeerDisconnected, ClosedBy, TypeOK
    <3>4. QED
      BY <3>2, <3>3
  <2>3. TypeOK'
    BY <2>1, <2>2 DEF TypeOK, Members
  <2>4. CallInv' /\ PeerOfCall'
    BY <2>1 DEF CallInv, PeerOfCall
  <2>5. QED
    BY <2>2, <2>3, <2>4
<1>6. QED
  BY <1>1, <1>2, <1>3, <1>4, <1>5

LEMMA OnMessageFromPeerIInv ==
  ASSUME IInv, NEW peer \in Peers, OnMessageFromPeer(peer)
  PROVE  IInv'
<1> USE DEF IInv, IsConnected
<1>1. /\ ~c.crashed /\ client.state = "in"
      /\ UNCHANGED <<callbacks, sent, left>>
  BY DEF OnMessageFromPeer
<1>2. /\ made.calls \in Nat /\ NoCall = 0 /\ peer # NoPeer
      /\ c \in Members /\ answers \in Seq({"offer", "answer"})
      /\ window.open
  BY <1>1, ConductorAssumption DEF TypeOK, CallInv, NoCall, NoPeer
\* A message that is taken, for a call that is new or goes on.
<1>3. ASSUME NEW q \in Members, q.pc # NoCall, q.peer # NoPeer, q.pc >= made.calls,
             q.pending = c.pending,
             NEW creating \in Seq({"offer", "answer"}), Received(q, creating),
             window'.open, window'.view = "streaming", window' \in [view : {"connect", "peers", "streaming"}, open : BOOLEAN]
      PROVE  IInv'
  <2>1. /\ c' \in Members /\ c'.pending = c.pending
        /\ answers' \in Seq({"offer", "answer"})
        /\ made' \in [calls : Nat, messages : Nat]
        /\ made'.calls >= made.calls /\ made'.messages = made.messages
        /\ \/ /\ c'.pc = made'.calls /\ c'.pc # NoCall /\ c'.peer = q.peer
              /\ client' = client
           \/ /\ c'.pc = NoCall /\ c'.peer = NoPeer /\ answers' = <<>>
              /\ client' = SignOut(client)
    BY <1>3, ReceivedMembers
  <2>2. client' \in [state : {"out", "connecting", "in", "leaving"}, sending : BOOLEAN]
        /\ client'.state \in {"in", "leaving"}
    BY <1>1, <2>1 DEF SignOut, TypeOK
  <2>3. TypeOK'
    BY <1>1, <1>3, <2>1, <2>2 DEF TypeOK
  <2>4. CallInv' /\ PeerOfCall'
    BY <1>1, <1>2, <1>3, <2>1, <2>2 DEF CallInv, PeerOfCall
  <2>5. MessagesInv'
    <3>1. made'.messages >= made.messages
      BY <2>1 DEF TypeOK
    <3>2. QED
      BY <1>1, <2>1, <3>1, MessagesKept
  <2>6. QED
    BY <2>3, <2>4, <2>5
<1>4. CASE Called(peer)
  <2>1. c.pc = NoCall /\ [c EXCEPT !.peer = peer] \in Members
    BY <1>2, <1>4 DEF Called, Members
  <2>2. PICK q \in InitializePeerConnection([c EXCEPT !.peer = peer]) :
          IF q.pc # NoCall THEN Received(q, <<>>) /\ window' = SwitchTo("streaming")
          ELSE /\ c' = q
               /\ client' = SignOut(client)
               /\ UNCHANGED <<answers, window, made>>
    BY <1>4 DEF Called
  <2>3. /\ q \in Members /\ q.pending = c.pending
        /\ \/ q.pc = NoCall /\ q.peer = NoPeer
           \/ q.pc = made.calls + 1 /\ q.peer = peer
    BY <2>1, <2>2, InitializedMembers DEF Members
  <2>4. CASE q.pc # NoCall
    <3>1. Received(q, <<>>) /\ window' = SwitchTo("streaming")
      BY <2>2, <2>4
    <3>2. q.pc >= made.calls /\ q.peer # NoPeer
      BY <1>2, <2>3, <2>4
    <3>3. /\ window'.open /\ window'.view = "streaming"
          /\ window' \in [view : {"connect", "peers", "streaming"}, open : BOOLEAN]
      BY <1>2, <3>1 DEF SwitchTo, TypeOK
    <3>4. <<>> \in Seq({"offer", "answer"})
      BY EmptySeq
    <3>5. QED
      BY <1>3, <2>3, <2>4, <3>1, <3>2, <3>3, <3>4
  <2>5. CASE q.pc = NoCall
    <3>1. c' = q /\ client' = SignOut(client) /\ UNCHANGED <<answers, window, made>>
      BY <2>2, <2>5
    <3>2. q.peer = NoPeer /\ answers = <<>>
      BY <1>1, <1>2, <2>1, <2>3, <2>5 DEF CallInv
    <3>3. TypeOK'
      BY <1>1, <2>3, <3>1 DEF TypeOK, SignOut
    <3>4. CallInv' /\ PeerOfCall'
      BY <1>1, <1>2, <2>5, <3>1, <3>2 DEF CallInv, PeerOfCall, TypeOK, SignOut
    <3>5. MessagesInv'
      BY <1>1, <2>3, <3>1, MessagesKept DEF TypeOK
    <3>6. QED
      BY <3>3, <3>4, <3>5
  <2>6. QED
    BY <2>4, <2>5
<1>5. CASE c.pc # NoCall /\ c.peer = peer /\ Received(c, answers) /\ UNCHANGED window
  <2>1. c.pc = made.calls /\ c.pc >= made.calls
    BY <1>2, <1>5 DEF CallInv
  <2>2. /\ window'.open /\ window'.view = "streaming"
        /\ window' \in [view : {"connect", "peers", "streaming"}, open : BOOLEAN]
    BY <1>1, <1>5 DEF PeerOfCall, TypeOK
  <2>3. QED
    BY <1>2, <1>3, <1>5, <2>1, <2>2
<1>6. QED
  BY <1>4, <1>5 DEF OnMessageFromPeer

-------------------------------------------------------------------------------
(* The peer connection and the callbacks *)

\* A message of the call is made and queued.
LEMMA SendMessageQueued ==
  ASSUME IInv, SendMessage, c.pc # NoCall, c' = c, sent' = sent
  PROVE  /\ callbacks' \in Seq(Callback)
         /\ made' \in [calls : Nat, messages : Nat] /\ made'.calls = made.calls
         /\ MessagesInv'
<1> DEFINE m == [n |-> made.messages + 1, call |-> c.pc]
<1>1. /\ callbacks' = QueueUIThreadCallback("send", <<m>>)
      /\ made' = [made EXCEPT !.messages = made.messages + 1]
  BY DEF SendMessage
<1>2. /\ made \in [calls : Nat, messages : Nat] /\ c.pc \in Nat
      /\ c.pc = made.calls /\ c.pc # 0
  BY DEF IInv, TypeOK, Members, CallInv, NoCall
<1>3. /\ made' \in [calls : Nat, messages : Nat]
      /\ made'.calls = made.calls /\ made'.messages = made.messages + 1
  BY <1>1, <1>2
<1>4. m \in Message /\ IsOf(m, made')
  BY <1>2, <1>3 DEF Message, IsOf
<1>5. [kind |-> "send", what |-> <<m>>] \in Callback
  BY <1>4 DEF Callback
<1>6. made'.messages >= made.messages
  BY <1>2, <1>3
<1>7. <<m>> # <<>> => IsOf(<<m>>[1], made')
  BY <1>4
<1> HIDE DEF m
<1>8. QED
  BY <1>1, <1>3, <1>5, <1>6, <1>7, CallbackQueued

\* What the peer connection says.
LEMMA SignalingThreadIInv ==
  ASSUME IInv, OnIceCandidate \/ OnSuccess \/ OnFailure
  PROVE  IInv'
<1>1. ASSUME SendMessage, c.pc # NoCall, UNCHANGED <<c, client, window, sent, left>>,
             answers' \in {answers, Tail(answers)}, answers' # answers => answers # <<>>
      PROVE  IInv'
  <2>1. /\ callbacks' \in Seq(Callback) /\ MessagesInv'
        /\ made' \in [calls : Nat, messages : Nat] /\ made'.calls = made.calls
    BY <1>1, SendMessageQueued
  <2>2. answers' \in Seq({"offer", "answer"})
    <3>1. answers \in Seq({"offer", "answer"})
      BY DEF IInv, TypeOK
    <3>2. CASE answers' = answers
      BY <3>1, <3>2
    <3>3. CASE answers' # answers
      <4>1. answers # <<>> /\ answers' = Tail(answers)
        BY <1>1, <3>3
      <4>2. QED
        BY <3>1, <4>1, HeadTailProperties
    <3>4. QED
      BY <3>2, <3>3
  <2>3. TypeOK'
    BY <1>1, <2>1, <2>2 DEF IInv, TypeOK
  <2>4. CallInv' /\ PeerOfCall'
    BY <1>1, <2>1 DEF IInv, CallInv, PeerOfCall, IsConnected
  <2>5. QED
    BY <2>1, <2>3, <2>4 DEF IInv
<1>2. ASSUME UNCHANGED <<c, callbacks, client, window, made, sent, left>>,
             answers # <<>>, answers' = Tail(answers)
      PROVE  IInv'
  <2>1. answers' \in Seq({"offer", "answer"})
    BY <1>2, HeadTailProperties DEF IInv, TypeOK
  <2>2. TypeOK'
    BY <1>2, <2>1 DEF IInv, TypeOK
  <2>3. CallInv' /\ PeerOfCall'
    BY <1>2 DEF IInv, CallInv, PeerOfCall, IsConnected
  <2>4. MessagesInv'
    BY <1>2, MessagesKept DEF IInv, TypeOK
  <2>5. QED
    BY <2>2, <2>3, <2>4 DEF IInv
<1>3. CASE OnIceCandidate
  BY <1>1, <1>3 DEF OnIceCandidate
<1>4. CASE OnSuccess
  <2>1. c.pc # NoCall
    BY <1>4 DEF OnSuccess, IInv, CallInv
  <2>2. QED
    BY <1>1, <1>2, <1>4, <2>1 DEF OnSuccess
<1>5. CASE OnFailure
  BY <1>2, <1>5 DEF OnFailure
<1>6. QED
  BY <1>3, <1>4, <1>5

\* The callbacks that are left when the first is taken.
LEMMA CallbackTaken ==
  ASSUME IInv, callbacks # <<>>, callbacks' = Tail(callbacks)
  PROVE  /\ callbacks' \in Seq(Callback)
         /\ Head(callbacks) \in Callback /\ Head(callbacks) = callbacks[1]
         /\ 1 \in DOMAIN callbacks
         /\ \A k \in DOMAIN callbacks' :
                k \in Nat /\ k + 1 \in DOMAIN callbacks /\ callbacks'[k] = callbacks[k + 1]
<1>1. callbacks \in Seq(Callback)
  BY DEF IInv, TypeOK
<1>2. /\ callbacks' \in Seq(Callback) /\ Len(callbacks') = Len(callbacks) - 1
      /\ Head(callbacks) \in Callback /\ Head(callbacks) = callbacks[1]
      /\ \A k \in 1 .. Len(callbacks') : callbacks'[k] = callbacks[k + 1]
      /\ Len(callbacks) \in Nat /\ Len(callbacks) # 0
  BY <1>1, HeadTailProperties, EmptySeq, LenProperties
<1>3. DOMAIN callbacks = 1 .. Len(callbacks) /\ DOMAIN callbacks' = 1 .. Len(callbacks')
  BY <1>1, <1>2, LenProperties
<1>4. QED
  BY <1>2, <1>3

LEMMA PeerConnectionClosedIInv ==
  ASSUME IInv, ~c.crashed, callbacks # <<>>, callbacks' = Tail(callbacks),
         PeerConnectionClosed, UNCHANGED <<made, left>>
  PROVE  IInv'
<1>1. /\ c' \in DeletePeerConnection(c) /\ answers' = <<>> /\ sent' = sent /\ made' = made
      /\ window' = SwitchIfOpen(IF IsConnected THEN "peers" ELSE "connect")
      /\ client' = IF window.open THEN client ELSE SignOut(client)
  BY DEF PeerConnectionClosed
<1>2. /\ c' \in Members /\ answers' \in Seq({"offer", "answer"})
      /\ c'.pending = c.pending /\ c'.pc = NoCall /\ PeerOfCall'
  BY <1>1, CallDeleted
<1>3. /\ callbacks' \in Seq(Callback)
      /\ \A k \in DOMAIN callbacks' :
            k + 1 \in DOMAIN callbacks /\ callbacks'[k] = callbacks[k + 1]
  BY CallbackTaken
<1>4. TypeOK'
  BY <1>1, <1>2, <1>3 DEF IInv, TypeOK, SwitchIfOpen, SwitchTo, SignOut
<1>5. CallInv'
  BY <1>1, <1>2 DEF IInv, TypeOK, CallInv, SwitchIfOpen, SwitchTo, SignOut, IsConnected
<1>6. MessagesInv'
  BY <1>1, <1>2, <1>3 DEF IInv, MessagesInv, Carries, Carried
<1>7. QED
  BY <1>2, <1>4, <1>5, <1>6 DEF IInv

\* The messages that wait when what has come is put behind them.
LEMMA EnqueuedMessages ==
  ASSUME IInv, NEW what \in {<<>>} \cup {<<m>> : m \in Message}
  PROVE  /\ Enqueued(what) \in Seq(Message)
         /\ Len(Enqueued(what)) = Len(c.pending) + Len(what)
         /\ \A i \in 1 .. Len(c.pending) : Enqueued(what)[i] = c.pending[i]
         /\ what # <<>> => /\ Len(what) = 1 /\ what[1] \in Message
                           /\ Enqueued(what)[Len(c.pending) + 1] = what[1]
         /\ what = <<>> => Enqueued(what) = c.pending
         /\ c.pending \in Seq(Message) /\ Len(c.pending) \in Nat
<1>1. c.pending \in Seq(Message) /\ what \in Seq(Message)
  <2>1. c.pending \in Seq(Message)
    BY DEF IInv, TypeOK, Members
  <2>2. <<>> \in Seq(Message) /\ \A m \in Message : <<m>> \in Seq(Message)
    BY EmptySeq
  <2>3. QED
    BY <2>1, <2>2
<1>2. what # <<>> => Len(what) = 1 /\ what[1] \in Message
  OBVIOUS
<1>3. /\ c.pending \o what \in Seq(Message)
      /\ Len(c.pending \o what) = Len(c.pending) + Len(what)
      /\ \A i \in 1 .. Len(c.pending) + Len(what) : (c.pending \o what)[i] =
            IF i <= Len(c.pending) THEN c.pending[i] ELSE what[i - Len(c.pending)]
  BY <1>1, ConcatProperties
<1>4. Len(c.pending) \in Nat /\ Len(what) \in Nat
  BY <1>1, LenProperties
<1>5. what = <<>> => c.pending \o what = c.pending
  BY <1>1, ConcatEmptySeq
<1>6. what # <<>> => (c.pending \o what)[Len(c.pending) + 1] = what[1]
  BY <1>2, <1>3, <1>4
<1>7. QED
  BY <1>1, <1>2, <1>3, <1>4, <1>5, <1>6 DEF Enqueued

LEMMA SendMessageToPeerIInv ==
  ASSUME IInv, ~c.crashed, callbacks # <<>>, callbacks' = Tail(callbacks),
         Head(callbacks).kind = "send", SendMessageToPeer(Head(callbacks).what),
         UNCHANGED <<made, left>>
  PROVE  IInv'
<1> DEFINE what == Head(callbacks).what
           waiting == Enqueued(what)
<1>1. /\ callbacks' \in Seq(Callback)
      /\ Head(callbacks) \in Callback /\ Head(callbacks) = callbacks[1]
      /\ 1 \in DOMAIN callbacks
      /\ \A k \in DOMAIN callbacks' :
            k \in Nat /\ k + 1 \in DOMAIN callbacks /\ callbacks'[k] = callbacks[k + 1]
  BY CallbackTaken
<1>2. what \in {<<>>} \cup {<<m>> : m \in Message}
  BY <1>1 DEF Callback
<1>3. /\ waiting \in Seq(Message)
      /\ Len(waiting) = Len(c.pending) + Len(what)
      /\ \A i \in 1 .. Len(c.pending) : waiting[i] = c.pending[i]
      /\ what # <<>> => /\ Len(what) = 1 /\ what[1] \in Message
                        /\ waiting[Len(c.pending) + 1] = what[1]
      /\ what = <<>> => waiting = c.pending
      /\ c.pending \in Seq(Message) /\ Len(c.pending) \in Nat
  BY <1>2, EnqueuedMessages
<1>4. DOMAIN waiting = 1 .. Len(waiting) /\ DOMAIN c.pending = 1 .. Len(c.pending)
  BY <1>3, LenProperties
<1>5. \A i \in DOMAIN waiting : IsOf(waiting[i], made)
  <2>1. what # <<>> => IsOf(what[1], made)
    BY <1>1 DEF IInv, MessagesInv, Carries, Carried
  <2>2. \A i \in DOMAIN c.pending : IsOf(c.pending[i], made)
    BY DEF IInv, MessagesInv
  <2>3. \A i \in DOMAIN waiting :
          i \in DOMAIN c.pending \/ (what # <<>> /\ i = Len(c.pending) + 1)
    <3>1. CASE what = <<>>
      BY <1>3, <3>1
    <3>2. CASE what # <<>>
      <4>1. Len(waiting) = Len(c.pending) + 1
        BY <1>3, <3>2
      <4>2. QED
        BY <1>3, <1>4, <3>2, <4>1
    <3>3. QED
      BY <3>1, <3>2
  <2>4. QED
    BY <1>3, <1>4, <2>1, <2>2, <2>3
<1>6. \A i \in DOMAIN waiting : waiting[i] \in Message
  BY <1>3, <1>4, ElementOfSeq
<1> DEFINE peer == IF c.pc = NoCall THEN NoPeer ELSE c.peer
<1>7. /\ UNCHANGED <<answers, window, made, left>>
      /\ \/ /\ waiting # <<>> /\ c' = [c EXCEPT !.pending = Tail(waiting), !.peer = peer]
            /\ sent' \in {Head(waiting).n, sent}
            /\ client' \in {client, [client EXCEPT !.sending = TRUE]}
                  \/ (c.peer # NoPeer /\ client' = SignOut(client))
         \/ /\ c' = [c EXCEPT !.pending = waiting, !.peer = peer]
            /\ UNCHANGED <<sent, client>>
  BY DEF SendMessageToPeer, SentToPeer, SendFailed, Tried
<1> HIDE DEF waiting, what
<1>8. waiting # <<>> => /\ Tail(waiting) \in Seq(Message) /\ Head(waiting) \in Message
                        /\ Head(waiting) = waiting[1] /\ 1 \in DOMAIN waiting
                        /\ \A i \in DOMAIN Tail(waiting) :
                              i + 1 \in DOMAIN waiting /\ Tail(waiting)[i] = waiting[i + 1]
  BY <1>3, HeadTailProperties, LenProperties, EmptySeq
<1>9. /\ c' \in Members /\ c'.pc = c.pc /\ c'.peer = peer /\ c'.crashed = c.crashed
      /\ c'.pending \in {waiting} \cup (IF waiting = <<>> THEN {} ELSE {Tail(waiting)})
  <2>1. PICK rest \in Seq(Message) :
            /\ c' = [c EXCEPT !.pending = rest, !.peer = peer]
            /\ rest = waiting \/ (waiting # <<>> /\ rest = Tail(waiting))
    BY <1>3, <1>7, <1>8
  <2>2. c \in Members
    BY DEF IInv, TypeOK
  <2>3. peer \in Peers \cup {NoPeer}
    BY <2>2 DEF Members
  <2> HIDE DEF peer
  <2>4. /\ c' \in Members /\ c'.pc = c.pc /\ c'.peer = peer /\ c'.crashed = c.crashed
        /\ c'.pending = rest
    BY <2>1, <2>2, <2>3 DEF Members
  <2>5. QED
    BY <2>1, <2>4
<1>10. sent' \in Nat /\ sent' <= made.messages
  BY <1>5, <1>7, <1>8 DEF IInv, TypeOK, MessagesInv, IsOf, Message
<1>11. /\ client' \in [state : {"out", "connecting", "in", "leaving"}, sending : BOOLEAN]
       /\ client'.state = client.state
             \/ (c.peer # NoPeer /\ client' = SignOut(client))
  <2>1. client \in [state : {"out", "connecting", "in", "leaving"}, sending : BOOLEAN]
    BY DEF IInv, TypeOK
  <2>2. \/ client' = client
        \/ client' = [client EXCEPT !.sending = TRUE]
        \/ c.peer # NoPeer /\ client' = SignOut(client)
    BY <1>7
  <2>3. QED
    BY <2>1, <2>2 DEF SignOut
<1>12. TypeOK'
  BY <1>1, <1>7, <1>9, <1>10, <1>11 DEF IInv, TypeOK
<1>13. CallInv' /\ PeerOfCall'
  BY <1>7, <1>9, <1>11 DEF IInv, CallInv, PeerOfCall, IsConnected, SignOut, TypeOK
<1>14. MessagesInv'
  <2>1. \A i \in DOMAIN c'.pending : IsOf(c'.pending[i], made)
    BY <1>5, <1>8, <1>9
  <2>2. \A k \in DOMAIN callbacks' : Carries(k)' => IsOf(Carried(k)', made)
    BY <1>1 DEF IInv, MessagesInv, Carries, Carried
  <2>3. QED
    BY <1>7, <1>10, <2>1, <2>2 DEF MessagesInv
<1>15. QED
  BY <1>12, <1>13, <1>14 DEF IInv

LEMMA NextIInv == IInv /\ [Next]_vars => IInv'
<1> SUFFICES ASSUME IInv, [Next]_vars PROVE IInv'
  OBVIOUS
<1>1. CASE UIThreadCallback
  BY <1>1, PeerConnectionClosedIInv, SendMessageToPeerIInv DEF UIThreadCallback
<1>2. CASE UNCHANGED vars
  BY <1>2 DEF vars, IInv, TypeOK, CallInv, PeerOfCall, MessagesInv, Carries, Carried, IsConnected
<1>3. QED
  BY <1>1, <1>2, UserIInv, ConnectToPeerIInv, ServerIInv, OnMessageFromPeerIInv,
     SignalingThreadIInv DEF Next

\* The invariant holds in every state of the client.
THEOREM Invariance == Spec => []IInv
<1>1. Init => IInv
  BY InitIInv
<1>2. IInv /\ [Next]_vars => IInv'
  BY NextIInv
<1>3. QED
  BY <1>1, <1>2, PTL DEF Spec

\* Conductor's peer is set exactly while it has a peer connection, and then the
\* window shows the call and the client is connected: what conductor.cc asserts
\* when a message comes (381, 390) and when the user picks a peer (510).
THEOREM PeerAndCallTogether == Spec => []PeerOfCall
<1>1. IInv => PeerOfCall
  BY DEF IInv
<1>2. QED
  BY <1>1, Invariance, PTL

-------------------------------------------------------------------------------
(* Messages are sent in the order they were made *)

\* What a step does to the messages: nothing; it queues a callback, one without a
\* message or one with the next; or it runs the first callback.
LEMMA StepsOfMessages ==
  ASSUME IInv, Next
  PROVE  \/ c'.pending = c.pending /\ UNCHANGED <<callbacks, sent>>
         \/ /\ c'.pending = c.pending /\ sent' = sent
            /\ \E kind \in {"closed", "send"} : callbacks' = QueueUIThreadCallback(kind, <<>>)
         \/ c'.pending = c.pending /\ sent' = sent /\ SendMessage
         \/ UIThreadCallback
<1> USE DEF IInv
<1>1. ASSUME c' \in DeletePeerConnection(c) PROVE c'.pending = c.pending
  BY <1>1, DeletedMembers, CrashesMembers DEF DeletePeerConnection, TypeOK
<1>2. CASE StartLogin \/ DisconnectFromServer \/ OnSignedIn \/ OnServerConnectionFailure
  BY <1>2 DEF StartLogin, DisconnectFromServer, OnSignedIn, OnServerConnectionFailure
<1>3. CASE DisconnectFromCurrentPeer \/ Close \/ OnDisconnected
  BY <1>1, <1>3 DEF DisconnectFromCurrentPeer, Close, OnDisconnected
<1>4. CASE OnMessageSent
  BY <1>4 DEF OnMessageSent
<1>5. ASSUME NEW peer \in Peers, ConnectToPeer(peer)
      PROVE  c'.pending = c.pending /\ UNCHANGED <<callbacks, sent>>
  <2>1. PICK q \in InitializePeerConnection(c) : c' = q \/ c' = [q EXCEPT !.peer = peer]
    BY <1>5 DEF ConnectToPeer
  <2>2. q \in Members /\ q.pending = c.pending
    BY InitializedMembers DEF TypeOK
  <2>3. QED
    BY <1>5, <2>1, <2>2 DEF ConnectToPeer, Members
<1>6. ASSUME NEW peer \in Peers, OnPeerDisconnected(peer)
      PROVE  /\ c'.pending = c.pending /\ sent' = sent
             /\ callbacks' \in {callbacks, QueueUIThreadCallback("closed", <<>>)}
  BY <1>6 DEF OnPeerDisconnected, ClosedBy
<1>7. ASSUME NEW peer \in Peers, OnMessageFromPeer(peer)
      PROVE  c'.pending = c.pending /\ UNCHANGED <<callbacks, sent>>
  <2>1. ASSUME NEW q \in Members, NEW creating, Received(q, creating)
        PROVE  c'.pending = q.pending
    <3>1. q.pc \in Nat
      BY DEF Members
    <3> DEFINE r == [CreatePeerConnection(q, q.pc) EXCEPT !.loopback = TRUE]
    <3>2. r \in Members /\ r.pending = q.pending
      BY <3>1, CreatedMembers DEF Members
    <3> HIDE DEF r
    <3>3. c' = q \/ c' \in Crashes(r, creating) \/ c' \in Crashes(Deleted(q), creating)
      BY <2>1 DEF Received, OfferReceived, OtherReceived,
                  ReinitializePeerConnectionForLoopback, r
    <3>4. QED
      BY <3>2, <3>3, DeletedMembers, CrashesMembers
  <2>2. CASE Called(peer)
    <3>1. [c EXCEPT !.peer = peer] \in Members /\ [c EXCEPT !.peer = peer].pending = c.pending
      BY DEF TypeOK, Members
    <3>2. PICK q \in InitializePeerConnection([c EXCEPT !.peer = peer]) :
            c' = q \/ Received(q, <<>>)
      BY <2>2 DEF Called
    <3>3. q \in Members /\ q.pending = c.pending
      BY <3>1, <3>2, InitializedMembers
    <3>4. QED
      BY <1>7, <2>1, <3>2, <3>3 DEF OnMessageFromPeer
  <2>3. CASE Received(c, answers)
    BY <1>7, <2>1, <2>3 DEF OnMessageFromPeer, TypeOK
  <2>4. QED
    BY <1>7, <2>2, <2>3 DEF OnMessageFromPeer
<1>8. CASE OnIceCandidate \/ OnSuccess \/ OnFailure
  BY <1>8 DEF OnIceCandidate, OnSuccess, OnFailure
<1>9. QED
  BY <1>2, <1>3, <1>4, <1>5, <1>6, <1>7, <1>8 DEF Next

\* A callback that is queued keeps the order when its message is newer than all.
LEMMA OrderQueued ==
  ASSUME IInv, SentInOrder, NEW kind, NEW what,
         c'.pending = c.pending, sent' = sent, callbacks' = QueueUIThreadCallback(kind, what),
         what # <<>> => what[1].n = made.messages + 1
  PROVE  SentInOrder'
<1>1. /\ callbacks \in Seq(Callback) /\ c.pending \in Seq(Message)
      /\ made.messages \in Nat /\ sent \in Nat
  BY DEF IInv, TypeOK, Members
<1>2. /\ Len(callbacks) \in Nat
      /\ DOMAIN callbacks = 1 .. Len(callbacks) /\ DOMAIN callbacks' = 1 .. Len(callbacks) + 1
      /\ \A k \in DOMAIN callbacks : callbacks'[k] = callbacks[k]
      /\ callbacks'[Len(callbacks) + 1] = [kind |-> kind, what |-> what]
  <2> DEFINE cb == [kind |-> kind, what |-> what]
             Any == Callback \cup {cb}
  <2>1. callbacks \in Seq(Any) /\ cb \in Any
    BY <1>1, SeqMonotonic
  <2>2. callbacks' = Append(callbacks, cb)
    BY DEF QueueUIThreadCallback
  <2> HIDE DEF cb, Any
  <2>3. /\ Len(callbacks') = Len(callbacks) + 1 /\ callbacks' \in Seq(Any)
        /\ \A k \in 1 .. Len(callbacks) : callbacks'[k] = callbacks[k]
        /\ callbacks'[Len(callbacks) + 1] = cb
    BY <2>1, <2>2, AppendProperties
  <2>4. QED
    BY <2>1, <2>3, LenProperties DEF cb
<1>3. \A k \in DOMAIN callbacks : Carries(k) => Carried(k) \in Message
  <2>1. \A k \in DOMAIN callbacks : callbacks[k] \in Callback
    BY <1>1, ElementOfSeq, LenProperties
  <2>2. QED
    BY <2>1 DEF Callback, Carries, Carried
<1>4. \A i \in DOMAIN c.pending : c.pending[i] \in Message
  BY <1>1, ElementOfSeq, LenProperties
<1>5. /\ \A i \in DOMAIN c.pending : c.pending[i].n < made.messages + 1
      /\ \A k \in DOMAIN callbacks : Carries(k) => Carried(k).n < made.messages + 1
      /\ sent < made.messages + 1
  BY <1>1, <1>3, <1>4 DEF IInv, MessagesInv, IsOf, Message
<1>6. ASSUME NEW k \in DOMAIN callbacks', Carries(k)'
      PROVE  /\ Carried(k)'.n > sent
             /\ \A i \in DOMAIN c.pending : c.pending[i].n < Carried(k)'.n
             /\ \A j \in 1 .. k - 1 : Carries(j)' => Carried(j)'.n < Carried(k)'.n
  <2>1. \A j \in 1 .. k - 1 : j \in DOMAIN callbacks
                              /\ Carries(j)' = Carries(j) /\ Carried(j)' = Carried(j)
    BY <1>2 DEF Carries, Carried
  <2>2. CASE k \in DOMAIN callbacks
    <3>1. Carries(k) /\ Carried(k)' = Carried(k)
      BY <1>2, <1>6, <2>2 DEF Carries, Carried
    <3>2. QED
      BY <2>1, <2>2, <3>1 DEF SentInOrder
  <2>3. CASE k = Len(callbacks) + 1
    <3>1. Carried(k)'.n = made.messages + 1
      BY <1>2, <1>6, <2>3 DEF Carries, Carried
    <3>2. QED
      BY <1>5, <2>1, <3>1, <1>1
  <2>4. QED
    BY <1>2, <2>2, <2>3
<1>7. \A i \in DOMAIN c'.pending :
        /\ c'.pending[i].n > sent'
        /\ \A j \in 1 .. i - 1 : c'.pending[j].n < c'.pending[i].n
  BY DEF SentInOrder
<1>8. QED
  BY <1>6, <1>7 DEF SentInOrder

\* The first callback is taken, and its message, if any, goes to those that wait.
LEMMA OrderTaken ==
  ASSUME IInv, SentInOrder, callbacks # <<>>, callbacks' = Tail(callbacks), UIThreadCallback
  PROVE  SentInOrder'
<1> DEFINE what == Head(callbacks).what
           waiting == Enqueued(what)
<1>1. /\ Head(callbacks) \in Callback /\ Head(callbacks) = callbacks[1]
      /\ 1 \in DOMAIN callbacks
      /\ \A k \in DOMAIN callbacks' :
            k \in Nat /\ k + 1 \in DOMAIN callbacks /\ callbacks'[k] = callbacks[k + 1]
  BY CallbackTaken
<1>2. DOMAIN callbacks = 1 .. Len(callbacks)
  BY LenProperties DEF IInv, TypeOK
<1>3. \A k \in DOMAIN callbacks' : /\ Carries(k)' = Carries(k + 1)
                                   /\ Carried(k)' = Carried(k + 1)
  BY <1>1 DEF Carries, Carried
<1>4. \A k \in DOMAIN callbacks' : k + 1 > 1 /\ k >= 1
  <2>1. callbacks' \in Seq(Callback)
    BY CallbackTaken
  <2>2. QED
    BY <2>1, LenProperties
<1>5. ASSUME NEW k \in DOMAIN callbacks', NEW j \in 1 .. k - 1,
             Carries(k)', Carries(j)'
      PROVE  Carried(j)'.n < Carried(k)'.n
  <2>1. j \in DOMAIN callbacks' /\ j + 1 \in 1 .. (k + 1) - 1
    <3>1. callbacks' \in Seq(Callback)
      BY CallbackTaken
    <3>2. QED
      BY <1>5, <3>1, LenProperties
  <2>2. QED
    BY <1>1, <1>3, <1>5, <2>1 DEF SentInOrder
<1>6. CASE PeerConnectionClosed
  <2>1. c'.pending = c.pending /\ sent' = sent
    BY <1>6, CallDeleted, DeletedMembers, CrashesMembers
       DEF PeerConnectionClosed, DeletePeerConnection, IInv, TypeOK
  <2>2. QED
    BY <1>1, <1>3, <1>5, <2>1 DEF SentInOrder
<1>7. CASE SendMessageToPeer(what)
  <2>1. what \in {<<>>} \cup {<<m>> : m \in Message}
    BY <1>1 DEF Callback
  <2>2. /\ waiting \in Seq(Message)
        /\ Len(waiting) = Len(c.pending) + Len(what)
        /\ \A i \in 1 .. Len(c.pending) : waiting[i] = c.pending[i]
        /\ what # <<>> => /\ Len(what) = 1 /\ what[1] \in Message
                          /\ waiting[Len(c.pending) + 1] = what[1]
        /\ what = <<>> => waiting = c.pending
        /\ c.pending \in Seq(Message) /\ Len(c.pending) \in Nat
    BY <2>1, EnqueuedMessages
  <2>3. DOMAIN waiting = 1 .. Len(waiting) /\ DOMAIN c.pending = 1 .. Len(c.pending)
    BY <2>2, LenProperties
  <2>4. /\ what # <<>> => Carries(1)
        /\ Carried(1) = what[1]
    BY <1>1 DEF Carries, Carried
  <2> HIDE DEF waiting
  \* Those that wait now are in order.
  <2>5. /\ \A i \in DOMAIN waiting :
             /\ waiting[i].n > sent
             /\ \A j \in 1 .. i - 1 : waiting[j].n < waiting[i].n
        /\ \A k \in DOMAIN callbacks' : Carries(k)' =>
             \A i \in DOMAIN waiting : waiting[i].n < Carried(k)'.n
    <3>1. CASE what = <<>>
      <4>1. waiting = c.pending
        BY <2>2, <3>1
      <4>2. QED
        BY <1>1, <1>3, <4>1 DEF SentInOrder
    <3>2. CASE what # <<>>
      <4>1. Len(waiting) = Len(c.pending) + 1
        BY <2>2, <3>2
      <4>2. /\ what[1].n > sent
            /\ \A i \in DOMAIN c.pending : c.pending[i].n < what[1].n
            /\ \A k \in DOMAIN callbacks' : Carries(k)' => what[1].n < Carried(k)'.n
        <5>1. \A k \in DOMAIN callbacks' : 1 \in 1 .. (k + 1) - 1
          BY <1>1, <1>4
        <5>2. QED
          BY <1>1, <1>3, <2>4, <3>2, <5>1 DEF SentInOrder
      <4> DEFINE n == Len(c.pending)
      <4>3. n \in Nat /\ DOMAIN waiting = 1 .. n + 1 /\ DOMAIN c.pending = 1 .. n
        BY <2>2, <2>3, <4>1
      <4>4. \A i \in DOMAIN waiting : i \in DOMAIN c.pending \/ i = Len(c.pending) + 1
        <5> HIDE DEF n
        <5>1. \A i \in DOMAIN waiting : i \in DOMAIN c.pending \/ i = n + 1
          BY <4>3
        <5>2. QED
          BY <5>1 DEF n
      <4>5. ASSUME NEW i \in DOMAIN waiting
            PROVE  /\ waiting[i].n > sent
                   /\ \A j \in 1 .. i - 1 : waiting[j].n < waiting[i].n
        <5>1. CASE i \in DOMAIN c.pending
          <6>1. \A j \in 1 .. i - 1 : j \in DOMAIN c.pending
            BY <2>2, <2>3, <5>1
          <6>2. QED
            BY <2>2, <2>3, <5>1, <6>1 DEF SentInOrder
        <5>2. CASE i = Len(c.pending) + 1
          <6>1. \A j \in 1 .. i - 1 : j \in DOMAIN c.pending
            BY <2>2, <2>3, <5>2
          <6>2. QED
            BY <2>2, <2>3, <3>2, <4>2, <5>2, <6>1
        <5>3. QED
          BY <4>4, <5>1, <5>2
      <4>6. ASSUME NEW k \in DOMAIN callbacks', Carries(k)', NEW i \in DOMAIN waiting
            PROVE  waiting[i].n < Carried(k)'.n
        <5>1. CASE i \in DOMAIN c.pending
          BY <1>1, <1>3, <2>2, <2>3, <4>6, <5>1 DEF SentInOrder
        <5>2. CASE i = Len(c.pending) + 1
          BY <2>2, <3>2, <4>2, <4>6, <5>2
        <5>3. QED
          BY <4>4, <5>1, <5>2
      <4>7. QED
        BY <4>5, <4>6
    <3>3. QED
      BY <3>1, <3>2
  <2>6. \A k \in DOMAIN callbacks' : Carries(k)' => Carried(k)'.n > sent
    BY <1>1, <1>3 DEF SentInOrder
  <2>7. CASE waiting # <<>> /\ c'.pending = Tail(waiting) /\ sent' \in {Head(waiting).n, sent}
    <3>1. /\ Tail(waiting) \in Seq(Message) /\ Len(Tail(waiting)) = Len(waiting) - 1
          /\ Head(waiting) = waiting[1] /\ 1 \in DOMAIN waiting
          /\ \A i \in 1 .. Len(Tail(waiting)) : Tail(waiting)[i] = waiting[i + 1]
          /\ DOMAIN Tail(waiting) = 1 .. Len(Tail(waiting))
      <4>1. /\ Tail(waiting) \in Seq(Message) /\ Len(Tail(waiting)) = Len(waiting) - 1
            /\ Head(waiting) = waiting[1]
            /\ \A i \in 1 .. Len(Tail(waiting)) : Tail(waiting)[i] = waiting[i + 1]
        <5>1. waiting \in Seq(Message) /\ waiting # <<>>
          BY <2>2, <2>7
        <5>2. /\ Tail(waiting) \in Seq(Message) /\ Len(Tail(waiting)) = Len(waiting) - 1
              /\ \A i \in 1 .. Len(Tail(waiting)) : Tail(waiting)[i] = waiting[i + 1]
          BY <5>1, HeadTailProperties
        <5>3. Head(waiting) = waiting[1]
          BY <5>1
        <5>4. QED
          BY <5>2, <5>3
      <4>2. Len(waiting) # 0 /\ Len(waiting) \in Nat
        BY <2>2, <2>7, EmptySeq, LenProperties
      <4>3. DOMAIN Tail(waiting) = 1 .. Len(Tail(waiting))
        BY <4>1, LenProperties
      <4>4. QED
        BY <2>3, <4>1, <4>2, <4>3
    <3>2. \A i \in DOMAIN c'.pending :
            /\ i + 1 \in DOMAIN waiting /\ c'.pending[i] = waiting[i + 1]
            /\ 1 \in 1 .. (i + 1) - 1
            /\ \A j \in 1 .. i - 1 : j \in DOMAIN c'.pending /\ j + 1 \in 1 .. (i + 1) - 1
      <4> DEFINE n == Len(waiting)
      <4>1. n \in Nat /\ DOMAIN waiting = 1 .. n /\ DOMAIN c'.pending = 1 .. n - 1
        BY <2>2, <2>3, <2>7, <3>1, LenProperties
      <4>2. \A i \in 1 .. n - 1 : c'.pending[i] = waiting[i + 1]
        BY <2>7, <3>1
      <4> HIDE DEF n
      <4>3. QED
        BY <4>1, <4>2
    <3>3. \A i \in DOMAIN c'.pending :
            /\ c'.pending[i].n > sent'
            /\ \A j \in 1 .. i - 1 : c'.pending[j].n < c'.pending[i].n
      <4>1. \A i \in DOMAIN c'.pending : waiting[i + 1].n > sent /\ waiting[i + 1].n > waiting[1].n
        <5>1. \A i \in DOMAIN waiting : waiting[i] \in Message
          BY <2>2, <2>3, ElementOfSeq
        <5>2. QED
          BY <2>5, <3>1, <3>2, <5>1 DEF Message
      <4>2. QED
        BY <2>5, <2>7, <3>1, <3>2, <4>1
    <3>4. \A k \in DOMAIN callbacks' : Carries(k)' =>
            /\ Carried(k)'.n > sent'
            /\ \A i \in DOMAIN c'.pending : c'.pending[i].n < Carried(k)'.n
      <4>1. \A k \in DOMAIN callbacks' : Carries(k)' => Carried(k)'.n > waiting[1].n
        <5>1. waiting[1] \in Message
          BY <2>2, <2>3, <3>1, ElementOfSeq
        <5>2. \A k \in DOMAIN callbacks' : Carries(k)' => Carried(k)' \in Message
          <6>1. \A k \in DOMAIN callbacks' : callbacks'[k] \in Callback
            BY CallbackTaken, ElementOfSeq, LenProperties
          <6>2. QED
            BY <6>1 DEF Callback, Carries, Carried
        <5>3. QED
          BY <2>5, <3>1, <5>1, <5>2 DEF Message
      <4>2. QED
        BY <2>5, <2>6, <2>7, <3>1, <3>2, <4>1
    <3>5. QED
      BY <1>5, <3>3, <3>4 DEF SentInOrder
  <2>8. CASE c'.pending = waiting /\ sent' = sent
    BY <1>5, <2>5, <2>6, <2>8 DEF SentInOrder
  <2>9. QED
    BY <1>7, <2>7, <2>8 DEF SendMessageToPeer, Tried, waiting, IInv, TypeOK, Members
<1>8. QED
  BY <1>6, <1>7 DEF UIThreadCallback

LEMMA NextSentInOrder == IInv /\ SentInOrder /\ [Next]_vars => SentInOrder'
<1> SUFFICES ASSUME IInv, SentInOrder, [Next]_vars PROVE SentInOrder'
  OBVIOUS
<1>1. CASE c'.pending = c.pending /\ UNCHANGED <<callbacks, sent>>
  BY <1>1 DEF SentInOrder, Carries, Carried
<1>2. CASE /\ c'.pending = c.pending /\ sent' = sent
           /\ \E kind \in {"closed", "send"} : callbacks' = QueueUIThreadCallback(kind, <<>>)
  BY <1>2, OrderQueued
<1>3. CASE c'.pending = c.pending /\ sent' = sent /\ SendMessage
  <2> DEFINE m == [n |-> made.messages + 1, call |-> c.pc]
  <2>1. callbacks' = QueueUIThreadCallback("send", <<m>>) /\ <<m>>[1].n = made.messages + 1
    BY <1>3 DEF SendMessage
  <2> HIDE DEF m
  <2>2. QED
    BY <1>3, <2>1, OrderQueued
<1>4. CASE UIThreadCallback
  BY <1>4, OrderTaken DEF UIThreadCallback
<1>5. CASE UNCHANGED vars
  BY <1>1, <1>5 DEF vars
<1>6. QED
  BY <1>1, <1>2, <1>3, <1>4, <1>5, StepsOfMessages

\* Whatever callbacks and messages are queued, and however many calls there are,
\* the client is given messages in the order they were made: all of them go
\* through pending_messages_ (the comment at conductor.cc:598).
THEOREM MessagesInOrder == Spec => []SentInOrder
<1>1. Init => SentInOrder
  BY DEF Init, SentInOrder
<1>2. IInv /\ SentInOrder /\ [Next]_vars => SentInOrder'
  BY NextSentInOrder
<1>3. QED
  BY <1>1, <1>2, Invariance, PTL DEF Spec

-------------------------------------------------------------------------------
(* No message of the call waits with nobody to send it *)

\* A new call has no messages yet.
LEMMA DrivenWithoutMessages ==
  ASSUME IInv, c'.pending = c.pending, c'.pc = NoCall \/ c'.pc > made.calls
  PROVE  PendingIsDriven'
<1>1. \A i \in DOMAIN c.pending : c.pending[i].call \in 1 .. made.calls
  BY DEF IInv, MessagesInv, IsOf
<1>2. made.calls \in Nat /\ NoCall = 0
  BY DEF IInv, TypeOK, NoCall
<1>3. \A i \in DOMAIN c'.pending : c'.pending[i].call # c'.pc
  BY <1>1, <1>2
<1>4. QED
  BY <1>3 DEF PendingIsDriven

\* A callback that is queued leaves the others.
LEMMA QueuedKept ==
  ASSUME IInv, NEW kind, NEW what, callbacks' = QueueUIThreadCallback(kind, what)
  PROVE  /\ Queued("send") => Queued("send")'
         /\ Queued(kind)'
<1> DEFINE cb == [kind |-> kind, what |-> what]
           Any == Callback \cup {cb}
<1>1. callbacks \in Seq(Callback)
  BY DEF IInv, TypeOK
<1>2. callbacks \in Seq(Any) /\ cb \in Any
  BY <1>1, SeqMonotonic
<1>3. callbacks' = Append(callbacks, cb)
  BY DEF QueueUIThreadCallback
<1>4. cb.kind = kind
  OBVIOUS
<1> HIDE DEF cb, Any
<1>5. /\ callbacks' \in Seq(Any) /\ Len(callbacks') = Len(callbacks) + 1
      /\ \A k \in 1 .. Len(callbacks) : callbacks'[k] = callbacks[k]
      /\ callbacks'[Len(callbacks) + 1] = cb
  BY <1>2, <1>3, AppendProperties
<1>6. /\ Len(callbacks) \in Nat /\ DOMAIN callbacks = 1 .. Len(callbacks)
      /\ DOMAIN callbacks' = 1 .. Len(callbacks) + 1
  BY <1>1, <1>5, LenProperties
<1>7. QED
  BY <1>4, <1>5, <1>6 DEF Queued

LEMMA DrivenKept ==
  ASSUME PendingIsDriven, c' = c,
         client' = client \/ client'.state # "in", Queued("send") => Queued("send")'
  PROVE  PendingIsDriven'
  BY DEF PendingIsDriven, IsSendingMessage

LEMMA DrivenOnMessage ==
  ASSUME IInv, PendingIsDriven, NEW peer \in Peers, OnMessageFromPeer(peer)
  PROVE  PendingIsDriven'
<1>1. ~c.crashed /\ client.state = "in" /\ callbacks' = callbacks
      /\ peer # NoPeer /\ made.calls \in Nat
      /\ c'.pending = c.pending
  <2>1. peer # NoPeer
    BY ConductorAssumption DEF NoPeer
  <2>2. c'.pending = c.pending
    <3>1. CASE Called(peer)
      <4>1. [c EXCEPT !.peer = peer] \in Members /\ [c EXCEPT !.peer = peer].pending = c.pending
        BY DEF IInv, TypeOK, Members
      <4>2. PICK q \in InitializePeerConnection([c EXCEPT !.peer = peer]) :
              IF q.pc # NoCall THEN Received(q, <<>>) ELSE c' = q
        BY <3>1 DEF Called
      <4>3. /\ q \in Members /\ q.pending = c.pending
            /\ q.pc = NoCall \/ (q.pc = made.calls + 1 /\ q.peer = peer)
        BY <4>1, <4>2, InitializedMembers DEF IInv, Members
      <4>4. made.calls + 1 >= made.calls /\ <<>> \in Seq({"offer", "answer"})
        BY EmptySeq DEF IInv, TypeOK
      <4>5. QED
        BY <2>1, <4>2, <4>3, <4>4, ReceivedMembers DEF IInv
    <3>2. CASE c.pc # NoCall /\ c.peer = peer /\ Received(c, answers)
      <4>1. c.pc >= made.calls /\ c.peer # NoPeer
        BY <2>1, <3>2 DEF IInv, TypeOK, CallInv
      <4>2. QED
        BY <3>2, <4>1, ReceivedMembers DEF IInv, TypeOK
    <3>3. QED
      BY <3>1, <3>2 DEF OnMessageFromPeer
  <2>3. QED
    BY <2>1, <2>2 DEF OnMessageFromPeer, IInv, TypeOK
<1>2. CASE Called(peer)
  <2>1. [c EXCEPT !.peer = peer] \in Members
    BY DEF IInv, TypeOK, Members
  <2>2. PICK q \in InitializePeerConnection([c EXCEPT !.peer = peer]) :
          IF q.pc # NoCall THEN Received(q, <<>>) ELSE c' = q
    BY <1>2 DEF Called
  <2>3. /\ q \in Members
        /\ q.pc = NoCall \/ (q.pc = made.calls + 1 /\ q.peer = peer)
    BY <2>1, <2>2, InitializedMembers DEF IInv, Members
  <2>4. CASE q.pc # NoCall
    <3>1. q.pc >= made.calls /\ <<>> \in Seq({"offer", "answer"})
      BY <1>1, <2>3, <2>4, EmptySeq
    <3>2. c'.pc \in {q.pc, q.pc + 1, NoCall}
      BY <1>1, <2>2, <2>3, <2>4, <3>1, ReceivedMembers DEF IInv
    <3>3. c'.pc = NoCall \/ c'.pc > made.calls
      BY <1>1, <2>3, <2>4, <3>2
    <3>4. QED
      BY <1>1, <3>3, DrivenWithoutMessages
  <2>5. CASE q.pc = NoCall
    BY <1>1, <2>2, <2>5, DrivenWithoutMessages
  <2>6. QED
    BY <2>4, <2>5
<1>3. CASE c.pc # NoCall /\ c.peer = peer /\ Received(c, answers)
  <2>1. c.pc = made.calls /\ c.pc >= made.calls /\ c.peer # NoPeer /\ c.pc \in Nat
    BY <1>1, <1>3 DEF IInv, TypeOK, CallInv
  <2>2. /\ c'.pc \in {c.pc, c.pc + 1, NoCall}
        /\ client' = client \/ c'.pc = NoCall
    BY <1>3, <2>1, ReceivedMembers DEF IInv, TypeOK
  <2>3. CASE c'.pc = NoCall \/ c'.pc > made.calls
    BY <1>1, <2>3, DrivenWithoutMessages
  <2>4. CASE c'.pc = c.pc /\ client' = client
    BY <1>1, <2>4 DEF PendingIsDriven, IsSendingMessage, Queued
  <2>5. QED
    BY <2>1, <2>2, <2>3, <2>4
<1>4. QED
  BY <1>2, <1>3 DEF OnMessageFromPeer

LEMMA DrivenByCallback ==
  ASSUME IInv, PendingIsDriven, UIThreadCallback
  PROVE  PendingIsDriven'
<1>1. CASE PeerConnectionClosed
  <2>1. c'.pc = NoCall /\ c'.pending = c.pending
    BY <1>1, DeletedMembers, CrashesMembers
       DEF PeerConnectionClosed, DeletePeerConnection, IInv, TypeOK
  <2>2. QED
    BY <2>1, DrivenWithoutMessages
<1>2. ASSUME NEW what, SendMessageToPeer(what) PROVE PendingIsDriven'
  <2> DEFINE waiting == Enqueued(what)
             peer == IF c.pc = NoCall THEN NoPeer ELSE c.peer
  <2>1. c \in Members /\ client \in [state : {"out", "connecting", "in", "leaving"}, sending : BOOLEAN]
    BY DEF IInv, TypeOK
  <2>2. CASE Tried(waiting, what)
    <3>1. ~c.crashed
      BY DEF UIThreadCallback
    <3>2. CASE client.state = "in" /\ c.peer # NoPeer
      <4>1. client' = [client EXCEPT !.sending = TRUE] \/ client' = SignOut(client)
        BY <1>2, <2>2, <3>2 DEF SendMessageToPeer, SendFailed
      <4>2. CASE client' = [client EXCEPT !.sending = TRUE]
        BY <2>1, <3>2, <4>2 DEF PendingIsDriven, IsSendingMessage
      <4>3. CASE client' = SignOut(client)
        BY <2>1, <3>2, <4>3 DEF PendingIsDriven, SignOut
      <4>4. QED
        BY <4>1, <4>2, <4>3
    <3>3. CASE client.state # "in"
      <4>1. client' = client \/ client' = SignOut(client)
        BY <1>2, <2>2, <3>3 DEF SendMessageToPeer, SentToPeer, SendFailed
      <4>2. client'.state # "in"
        BY <2>1, <3>3, <4>1 DEF SignOut
      <4>3. QED
        BY <4>2 DEF PendingIsDriven
    <3>4. CASE client.state = "in" /\ c.peer = NoPeer
      <4>1. c.pc = NoCall
        BY <3>1, <3>4 DEF IInv, PeerOfCall
      <4>2. c' = [c EXCEPT !.pending = Tail(waiting), !.peer = peer]
        BY <1>2, <2>2 DEF SendMessageToPeer
      <4>3. c'.pc = NoCall
        BY <2>1, <4>1, <4>2 DEF Members
      <4>4. IInv'
        BY NextIInv DEF Next
      <4>5. \A i \in DOMAIN c'.pending : c'.pending[i].call \in 1 .. made'.calls
        BY <4>4 DEF IInv, MessagesInv, IsOf
      <4>6. QED
        BY <4>3, <4>5 DEF PendingIsDriven, NoCall
    <3>5. QED
      BY <3>2, <3>3, <3>4
  <2>3. CASE ~Tried(waiting, what)
    <3>1. c' = [c EXCEPT !.pending = waiting, !.peer = peer] /\ client' = client
      BY <1>2, <2>3 DEF SendMessageToPeer
    <3>2. c'.pending = waiting
      BY <2>1, <3>1 DEF Members
    <3>3. waiting = <<>> \/ IsSendingMessage
      BY <2>3 DEF Tried
    <3> HIDE DEF waiting
    <3>4. QED
      BY <3>1, <3>2, <3>3 DEF PendingIsDriven, IsSendingMessage
  <2>4. QED
    BY <2>2, <2>3
<1>3. QED
  BY <1>1, <1>2 DEF UIThreadCallback

LEMMA NextPendingIsDriven == IInv /\ PendingIsDriven /\ [Next]_vars => PendingIsDriven'
<1> SUFFICES ASSUME IInv, PendingIsDriven, [Next]_vars PROVE PendingIsDriven'
  OBVIOUS
<1>1. ASSUME c' \in DeletePeerConnection(c) PROVE PendingIsDriven'
  <2>1. c'.pc = NoCall /\ c'.pending = c.pending
    BY <1>1, DeletedMembers, CrashesMembers DEF DeletePeerConnection, IInv, TypeOK
  <2>2. QED
    BY <2>1, DrivenWithoutMessages
<1>2. client \in [state : {"out", "connecting", "in", "leaving"}, sending : BOOLEAN]
  BY DEF IInv, TypeOK
<1>3. callbacks' = callbacks => (Queued("send") => Queued("send")')
  BY DEF Queued
<1>4. CASE StartLogin \/ DisconnectFromServer \/ OnServerConnectionFailure
  <2>1. client'.state # "in" /\ UNCHANGED <<c, callbacks>>
    BY <1>2, <1>4 DEF StartLogin, DisconnectFromServer, OnServerConnectionFailure,
                      SignOut, IsConnected
  <2>2. QED
    BY <1>3, <2>1, DrivenKept
<1>5. CASE OnSignedIn
  <2>1. c' = c /\ c.pc = NoCall
    BY <1>5 DEF OnSignedIn, IInv, PeerOfCall, IsConnected
  <2>2. QED
    BY <2>1, DrivenWithoutMessages
<1>6. CASE DisconnectFromCurrentPeer
  <2>1. CASE c.pc = NoCall
    <3>1. UNCHANGED c
      BY <1>6, <2>1 DEF DisconnectFromCurrentPeer
    <3>2. QED
      BY <2>1, <3>1, DrivenWithoutMessages
  <2>2. CASE c.pc # NoCall
    BY <1>1, <1>6, <2>2 DEF DisconnectFromCurrentPeer
  <2>3. QED
    BY <2>1, <2>2
<1>7. CASE Close \/ OnDisconnected
  BY <1>1, <1>7 DEF Close, OnDisconnected
<1>8. CASE OnMessageSent
  <2>1. c' = c /\ callbacks' = QueueUIThreadCallback("send", <<>>)
    BY <1>8 DEF OnMessageSent
  <2>2. Queued("send")'
    BY <2>1, QueuedKept
  <2>3. QED
    BY <2>2 DEF PendingIsDriven
<1>9. ASSUME NEW peer \in Peers, ConnectToPeer(peer) PROVE PendingIsDriven'
  <2>1. PICK q \in InitializePeerConnection(c) :
          IF q.pc = NoCall THEN c' = q ELSE c' = [q EXCEPT !.peer = peer]
    BY <1>9 DEF ConnectToPeer
  <2>2. /\ q \in Members /\ q.pending = c.pending
        /\ q.pc = NoCall \/ q.pc = made.calls + 1
    BY InitializedMembers DEF IInv, TypeOK
  <2>3. c'.pc = q.pc /\ c'.pending = c.pending
    BY <2>1, <2>2 DEF Members
  <2>4. made.calls \in Nat
    BY DEF IInv, TypeOK
  <2>5. QED
    BY <2>2, <2>3, <2>4, DrivenWithoutMessages
<1>10. ASSUME NEW peer \in Peers, OnPeerDisconnected(peer) PROVE PendingIsDriven'
  <2>1. /\ UNCHANGED <<c, client>>
        /\ callbacks' = callbacks \/ callbacks' = QueueUIThreadCallback("closed", <<>>)
    BY <1>10 DEF OnPeerDisconnected, ClosedBy
  <2>2. Queued("send") => Queued("send")'
    BY <1>3, <2>1, QueuedKept
  <2>3. QED
    BY <2>1, <2>2, DrivenKept
<1>11. ASSUME NEW peer \in Peers, OnMessageFromPeer(peer) PROVE PendingIsDriven'
  BY <1>11, DrivenOnMessage
<1>12. CASE OnIceCandidate \/ OnSuccess \/ OnFailure
  <2>1. UNCHANGED <<c, client>> /\ (callbacks' = callbacks \/ SendMessage)
    BY <1>12 DEF OnIceCandidate, OnSuccess, OnFailure
  <2>2. SendMessage => (Queued("send") => Queued("send")')
    BY QueuedKept DEF SendMessage
  <2>3. QED
    BY <1>3, <2>1, <2>2, DrivenKept
<1>13. CASE UIThreadCallback
  BY <1>13, DrivenByCallback
<1>14. CASE UNCHANGED vars
  BY <1>3, <1>14, DrivenKept DEF vars
<1>15. QED
  BY <1>4, <1>5, <1>6, <1>7, <1>8, <1>9, <1>10, <1>11, <1>12, <1>13, <1>14 DEF Next

\* A message of the call that is on never waits while the client is idle and
\* nothing is queued that would send it, for any number of queued callbacks:
\* SendMessageToPeer and OnMessageSent hand the turn to each other.
THEOREM NoMessageIsStuck == Spec => []PendingIsDriven
<1>1. Init => PendingIsDriven
  BY DEF Init, PendingIsDriven
<1>2. IInv /\ PendingIsDriven /\ [Next]_vars => PendingIsDriven'
  BY NextPendingIsDriven
<1>3. QED
  BY <1>1, <1>2, Invariance, PTL DEF Spec
===============================================================================
