------------------------------- MODULE Conductor -------------------------------
(***************************************************************************)
(* Conductor (examples/peerconnection/client/conductor.cc): the example    *)
(* client.  It drives one peer connection from what the user does, what    *)
(* the signalling server says and what the peer connection says.           *)
(*                                                                         *)
(* The user, the server and the callbacks that main_wnd_ queues run on the *)
(* main thread; the peer connection calls on signaling_thread_, which only *)
(* queues callbacks.  PeerConnectionClient, MainWindow and the peer        *)
(* connection are not in the repository: they do what the code relies on.  *)
(***************************************************************************)
EXTENDS Integers, Sequences

CONSTANTS Peers,         \* ids of the other clients
          MaxCalls,      \* bound of the model: peer connections created
          MaxMessages,   \* bound of the model: messages for the peer
          MaxCallbacks   \* bound of the model: callbacks queued at a time

ASSUME ConductorAssumption ==
    /\ Peers \subseteq Nat
    /\ MaxCalls \in Nat /\ MaxMessages \in Nat /\ MaxCallbacks \in Nat

NoPeer == -1
NoCall == 0

VARIABLES c,          \* the members of Conductor: pc (the number of its peer connection),
                      \* peer, loopback, pending; and whether the process has crashed
          answers,    \* descriptions the peer connection is creating
          callbacks,  \* QueueUIThreadCallback
          client,     \* PeerConnectionClient: its state, and whether it sends a message
          window,     \* MainWindow: what it shows, and whether it is open
          made,       \* history: the peer connections and the messages made so far
          sent,       \* history: the number of the last message given to the client
          left        \* history: the last call whose peer has disconnected

vars == <<c, answers, callbacks, client, window, made, sent, left>>

Queued(kind) == \E i \in DOMAIN callbacks : callbacks[i].kind = kind

-------------------------------------------------------------------------------
(* PeerConnectionClient and MainWindow *)

IsConnected == client.state \in {"in", "leaving"}
IsSendingMessage == client.state = "in" /\ client.sending

SignOut(k) == IF k.state = "out" THEN k ELSE [k EXCEPT !.state = "leaving"]

Room == Len(callbacks) < MaxCallbacks

QueueUIThreadCallback(kind, what) == Append(callbacks, [kind |-> kind, what |-> what])

SwitchTo(view) == [window EXCEPT !.view = view]
SwitchIfOpen(view) == IF window.open THEN SwitchTo(view) ELSE window

-------------------------------------------------------------------------------
(* The peer connection *)

\* Wrong variant: the peer is not forgotten.
DeletedKeepsPeer(q) == [q EXCEPT !.pc = NoCall, !.loopback = FALSE]

Deleted(q) == [q EXCEPT !.pc = NoCall, !.peer = NoPeer, !.loopback = FALSE]

\* peer_connection_ is null while the connection is destroyed: a description that
\* is ready just then finds it so on the other thread.
Crashes(q, creating) == {q} \cup (IF creating = <<>> THEN {} ELSE {[q EXCEPT !.crashed = TRUE]})

DeletePeerConnection(q) == Crashes(Deleted(q), answers)

CreatePeerConnection(q, calls) == [q EXCEPT !.pc = calls + 1]

\* Without a factory all is undone; when the creation fails, AddTracks uses the
\* connection all the same.
InitializePeerConnection(q) ==
    {CreatePeerConnection(q, made.calls), Deleted(q), [Deleted(q) EXCEPT !.crashed = TRUE]}

MayCreate == made.calls < MaxCalls

-------------------------------------------------------------------------------
(* The user *)

StartLogin ==
    /\ ~c.crashed /\ window.open /\ window.view = "connect"
    /\ client.state = "out"
    /\ client' = [client EXCEPT !.state = "connecting"]
    /\ UNCHANGED <<c, answers, callbacks, window, made, sent, left>>

DisconnectFromServer ==
    /\ ~c.crashed /\ window.open /\ window.view = "peers"
    /\ IsConnected
    /\ client' = SignOut(client)
    /\ UNCHANGED <<c, answers, callbacks, window, made, sent, left>>

ConnectToPeer(peer) ==
    /\ ~c.crashed /\ window.open /\ window.view = "peers"
    /\ MayCreate /\ c.pc = NoCall
    /\ \E q \in InitializePeerConnection(c) :
        IF q.pc = NoCall THEN c' = q /\ UNCHANGED <<answers, window, made>>
        ELSE /\ c' = [q EXCEPT !.peer = peer]
             /\ answers' = <<"offer">>
             /\ window' = SwitchTo("streaming")
             /\ made' = [made EXCEPT !.calls = q.pc]
    /\ UNCHANGED <<callbacks, client, sent, left>>

\* Says goodbye first, past the messages that wait.
DisconnectFromCurrentPeer ==
    /\ ~c.crashed /\ window.open /\ window.view = "streaming"
    /\ IF c.pc = NoCall THEN UNCHANGED <<c, client>>
       ELSE /\ c' \in DeletePeerConnection(c)
            /\ client' = IF client.state = "in" THEN [client EXCEPT !.sending = TRUE] ELSE client
    /\ answers' = <<>>
    /\ window' = SwitchTo("peers")
    /\ UNCHANGED <<callbacks, made, sent, left>>

\* The window is closed.
Close ==
    /\ ~c.crashed /\ window.open
    /\ client' = SignOut(client)
    /\ c' \in DeletePeerConnection(c)
    /\ answers' = <<>>
    /\ window' = [window EXCEPT !.open = FALSE]
    /\ UNCHANGED <<callbacks, made, sent, left>>

-------------------------------------------------------------------------------
(* The server *)

OnSignedIn ==
    /\ ~c.crashed /\ client.state = "connecting"
    /\ client' = [client EXCEPT !.state = "in"]
    /\ window' = SwitchTo("peers")
    /\ UNCHANGED <<c, answers, callbacks, made, sent, left>>

\* OnServerConnectionFailure only shows a message.
OnServerConnectionFailure ==
    /\ ~c.crashed /\ client.state = "connecting"
    /\ client' = [client EXCEPT !.state = "out"]
    /\ UNCHANGED <<c, answers, callbacks, window, made, sent, left>>

OnDisconnected ==
    /\ ~c.crashed /\ IsConnected
    /\ client' = [state |-> "out", sending |-> FALSE]
    /\ c' \in DeletePeerConnection(c)
    /\ answers' = <<>>
    /\ window' = SwitchIfOpen("connect")
    /\ UNCHANGED <<callbacks, made, sent, left>>

\* Wrong variant: nothing is said of a peer that leaves before a message is sent.
ClosedUnlessSending(peer) ==
    IF peer = c.peer /\ ~IsSendingMessage
    THEN QueueUIThreadCallback("closed", <<>>) ELSE callbacks

ClosedBy(peer) ==
    IF peer = c.peer THEN QueueUIThreadCallback("closed", <<>>) ELSE callbacks

OnPeerDisconnected(peer) ==
    /\ ~c.crashed /\ client.state = "in" /\ Room
    /\ callbacks' = ClosedBy(peer)
    /\ left' = IF peer = c.peer THEN c.pc ELSE left
    /\ UNCHANGED <<c, answers, client, window, made, sent>>

OnMessageSent ==
    /\ ~c.crashed /\ client.sending /\ Room
    /\ client' = [client EXCEPT !.sending = FALSE]
    /\ callbacks' = QueueUIThreadCallback("send", <<>>)
    /\ UNCHANGED <<c, answers, window, made, sent, left>>

\* An offer is answered.
OfferReceived(q, creating) ==
    /\ Len(creating) < MaxCallbacks
    /\ c' = q
    /\ answers' = Append(creating, "answer")
    /\ made' = [made EXCEPT !.calls = q.pc]
    /\ UNCHANGED client

\* Answers and candidates are for the peer connection; what cannot be read is ignored.
OtherReceived(q, creating) ==
    /\ c' = q
    /\ answers' = creating
    /\ made' = [made EXCEPT !.calls = q.pc]
    /\ UNCHANGED client

\* The connection is replaced by one that calls itself, or the call is given up.
ReinitializePeerConnectionForLoopback(q, creating) ==
    /\ q.pc < MaxCalls
    /\ \/ /\ c' \in Crashes([CreatePeerConnection(q, q.pc) EXCEPT !.loopback = TRUE], creating)
          /\ answers' = <<"offer">>
          /\ made' = [made EXCEPT !.calls = q.pc + 1]
          /\ UNCHANGED client
       \/ /\ c' \in Crashes(Deleted(q), creating)
          /\ answers' = <<>>
          /\ made' = [made EXCEPT !.calls = q.pc]
          /\ client' = SignOut(client)

Received(q, creating) ==
    \/ OfferReceived(q, creating)
    \/ OtherReceived(q, creating)
    \/ ReinitializePeerConnectionForLoopback(q, creating)

\* The first message of a peer makes it ours.
Called(peer) ==
    /\ c.pc = NoCall /\ MayCreate
    /\ \E q \in InitializePeerConnection([c EXCEPT !.peer = peer]) :
        IF q.pc # NoCall THEN Received(q, <<>>) /\ window' = SwitchTo("streaming")
        ELSE /\ c' = q
             /\ client' = SignOut(client)
             /\ UNCHANGED <<answers, window, made>>

\* A peer that is not ours is ignored.
OnMessageFromPeer(peer) ==
    /\ ~c.crashed /\ client.state = "in"
    /\ \/ Called(peer)
       \/ c.pc # NoCall /\ c.peer = peer /\ Received(c, answers) /\ UNCHANGED window
    /\ UNCHANGED <<callbacks, sent, left>>

-------------------------------------------------------------------------------
(* The peer connection, on signaling_thread_ *)

MayMake == made.messages < MaxMessages /\ Room

\* The message is numbered and carries its call, for the properties.
SendMessage ==
    /\ callbacks' = QueueUIThreadCallback("send", <<[n |-> made.messages + 1, call |-> c.pc]>>)
    /\ made' = [made EXCEPT !.messages = made.messages + 1]

\* A loopback call keeps its candidates and its descriptions to itself.
OnIceCandidate ==
    /\ ~c.crashed /\ c.pc # NoCall /\ ~c.loopback /\ MayMake
    /\ SendMessage
    /\ UNCHANGED <<c, answers, client, window, sent, left>>

OnSuccess ==
    /\ ~c.crashed /\ answers # <<>> /\ MayMake
    /\ answers' = Tail(answers)
    /\ IF c.loopback THEN UNCHANGED <<callbacks, made>> ELSE SendMessage
    /\ UNCHANGED <<c, client, window, sent, left>>

OnFailure ==
    /\ ~c.crashed /\ answers # <<>>
    /\ answers' = Tail(answers)
    /\ UNCHANGED <<c, callbacks, client, window, made, sent, left>>

-------------------------------------------------------------------------------
(* Callbacks on the main thread *)

PeerConnectionClosed ==
    /\ c' \in DeletePeerConnection(c)
    /\ answers' = <<>>
    /\ window' = SwitchIfOpen(IF IsConnected THEN "peers" ELSE "connect")
    /\ client' = IF window.open THEN client ELSE SignOut(client)
    /\ UNCHANGED sent

\* Wrong variant: the message that has just come is the next to go.
EnqueuedFirst(what) == what \o c.pending

Enqueued(what) == c.pending \o what

\* Wrong variant: only a new message makes one go.
TriedForNew(waiting, what) == what # <<>> /\ ~IsSendingMessage

Tried(waiting, what) == waiting # <<>> /\ ~IsSendingMessage

\* SendToPeer: it may fail even where there is a peer to send to.
SentToPeer == client.state = "in" /\ c.peer # NoPeer
SendFailed == IF c.peer # NoPeer THEN SignOut(client) ELSE client

\* Every message goes through pending_messages_, whose first is sent when the
\* client is free; one that cannot be sent is lost.
SendMessageToPeer(what) ==
    LET waiting == Enqueued(what)
        peer == IF c.pc = NoCall THEN NoPeer ELSE c.peer
    IN  /\ IF Tried(waiting, what)
           THEN /\ c' = [c EXCEPT !.pending = Tail(waiting), !.peer = peer]
                /\ \/ /\ SentToPeer
                      /\ sent' = Head(waiting).n
                      /\ client' = [client EXCEPT !.sending = TRUE]
                   \/ sent' = sent /\ client' = SendFailed
           ELSE /\ c' = [c EXCEPT !.pending = waiting, !.peer = peer]
                /\ UNCHANGED <<sent, client>>
        /\ UNCHANGED <<answers, window>>

UIThreadCallback ==
    /\ ~c.crashed /\ callbacks # <<>>
    /\ \/ Head(callbacks).kind = "closed" /\ PeerConnectionClosed
       \/ Head(callbacks).kind = "send" /\ SendMessageToPeer(Head(callbacks).what)
    /\ callbacks' = Tail(callbacks)
    /\ UNCHANGED <<made, left>>

-------------------------------------------------------------------------------
Init ==
    /\ c = [pc |-> NoCall, peer |-> NoPeer, loopback |-> FALSE, pending |-> <<>>, crashed |-> FALSE]
    /\ answers = <<>>
    /\ callbacks = <<>>
    /\ client = [state |-> "out", sending |-> FALSE]
    /\ window = [view |-> "connect", open |-> TRUE]
    /\ made = [calls |-> 0, messages |-> 0]
    /\ sent = 0
    /\ left = NoCall

Next ==
    \/ StartLogin \/ DisconnectFromServer \/ DisconnectFromCurrentPeer \/ Close
    \/ OnSignedIn \/ OnServerConnectionFailure \/ OnDisconnected \/ OnMessageSent
    \/ \E peer \in Peers :
        ConnectToPeer(peer) \/ OnPeerDisconnected(peer) \/ OnMessageFromPeer(peer)
    \/ OnIceCandidate \/ OnSuccess \/ OnFailure
    \/ UIThreadCallback

Spec == Init /\ [][Next]_vars

\* The main thread handles what is queued.
FairSpec == Spec /\ WF_vars(UIThreadCallback)

-------------------------------------------------------------------------------
(* Properties *)

\* There is a peer exactly while there is a peer connection, and only while the
\* window shows it: what conductor.cc asserts at 381, 390 and 510, when the user
\* picks a peer and when a message comes.
PeerOfCall ==
    ~c.crashed =>
        /\ c.pc # NoCall <=> c.peer # NoPeer
        /\ c.pc # NoCall => window.view = "streaming" /\ window.open /\ IsConnected

Carries(k) == callbacks[k].what # <<>>
Carried(k) == callbacks[k].what[1]

\* Messages are sent to the server in the order they were signalled, which is why
\* all of them go through pending_messages_ (the comment at 598).
SentInOrder ==
    /\ \A i \in DOMAIN c.pending :
        /\ c.pending[i].n > sent
        /\ \A j \in 1 .. i - 1 : c.pending[j].n < c.pending[i].n
    /\ \A k \in DOMAIN callbacks : Carries(k) =>
        /\ Carried(k).n > sent
        /\ \A i \in DOMAIN c.pending : c.pending[i].n < Carried(k).n
        /\ \A j \in 1 .. k - 1 : Carries(j) => Carried(j).n < Carried(k).n

\* No message of the call waits with nobody to send it: the client is busy, and
\* will say so, or a callback is queued that takes the next one.
PendingIsDriven ==
    (client.state = "in" /\ \E i \in DOMAIN c.pending : c.pending[i].call = c.pc)
        => IsSendingMessage \/ Queued("send") \/ c.crashed

\* When the peer of the call has disconnected, the call ends.
PeerGoneEndsCall == (left # NoCall /\ c.pc = left) ~> (c.pc # left \/ c.crashed)
===============================================================================
