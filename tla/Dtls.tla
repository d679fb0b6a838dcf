-------------------------------- MODULE Dtls --------------------------------
(***************************************************************************)
(* DTLS over one transport channel of a call: at each of two ends a         *)
(* DtlsTransport, its DtlsTransportChannelWrapper over the ICE channel (the *)
(* impl), and the OpenSSLStreamAdapter that drives the OpenSSL handshake.   *)
(* The offerer is the SSL server (SetIceRole).                              *)
(***************************************************************************)
EXTENDS Naturals, FiniteSets, Sequences

CONSTANTS
  Fingerprints,   \* what a description may carry: "none", "good",
                  \* "wrong" (of another certificate), "unknown" (algorithm)
  MaxOffers,      \* bound: offers made in the session
  MaxLosses,      \* bound: packets the network loses
  MaxNet          \* bound: packets under way to an end when it is sent more

ASSUME DtlsAssumption ==
  /\ Fingerprints \subseteq {"none", "good", "wrong", "unknown"}
  /\ {MaxOffers, MaxLosses, MaxNet} \subseteq Nat

Ends == {"offerer", "answerer"}
Peer(e) == IF e = "offerer" THEN "answerer" ELSE "offerer"

DtlsStates == {"NONE", "OFFERED", "ACCEPTED", "STARTED", "OPEN", "CLOSED"}
Handshake == {"hello", "answer", "finish", "done", "alert"}
Packets == Handshake \cup {"clear", "data", "rtp"}

VARIABLES
  fingerprint,    \* [Ends -> Fingerprints]: as the other end receives it
  offers,         \* offers made so far
  answered,       \* what the answerer made of the last offer
  mail,           \* answers on their way to the offerer
  applied,        \* the ends that have both descriptions
  failed,         \* the ends where a description was refused
  impl,           \* [Ends -> {"down", "up", "stale"}]: ICE has no connection,
                  \* a writable one, one that stopped being writable
  implReadable,   \* the ends whose impl is readable
  dtls_state,     \* [Ends -> DtlsStates]
  readable,       \* the ends whose wrapper is readable
  writable,       \* the ends whose wrapper is writable
  ssl,            \* [Ends -> state_ of the OpenSSLStreamAdapter]
  flight,         \* [Ends -> the last handshake flight sent, or "nothing"]
  net,            \* [Ends -> packets under way to that end]
  losses,         \* packets lost so far
  delivered       \* the last packet handed to an application, or "nothing"

negotiationVars == <<offers, answered, mail, applied, failed>>
implVars == <<impl, implReadable>>
wrapperVars == <<dtls_state, readable, writable>>
sslVars == <<ssl, flight>>
netVars == <<net, losses, delivered>>
vars == <<fingerprint, negotiationVars, implVars, wrapperVars, sslVars,
          netVars>>

\* SetIceRole: "the offerer is the server, and the answerer is the client".
IsServer(e) == e = "offerer"

HasFingerprint(e) == fingerprint[e] # "none"
BothSecure == \A e \in Ends : HasFingerprint(e)

Init ==
  /\ fingerprint \in [Ends -> Fingerprints]
  /\ offers = 0 /\ answered = "nothing" /\ mail = <<>>
  /\ applied = {} /\ failed = {}
  /\ impl = [e \in Ends |-> "down"] /\ implReadable = {}
  /\ dtls_state = [e \in Ends |-> "NONE"]
  /\ readable = {} /\ writable = {}
  /\ ssl = [e \in Ends |-> "SSL_NONE"]
  /\ flight = [e \in Ends |-> "nothing"]
  /\ net = [e \in Ends |-> {}]
  /\ losses = 0
  /\ delivered = "nothing"

-----------------------------------------------------------------------------
(* Descriptions.                                                           *)

\* Whether SetLocalIdentity succeeds: in a fresh channel, or in an open one
\* when the identity is the one it has.
IdentityAccepted(e) ==
  dtls_state[e] = "NONE" \/ (dtls_state[e] = "OPEN" /\ HasFingerprint(e))

\* dtls_state_ after SetLocalIdentity with the identity of e, if any.
SetLocalIdentity(e) ==
  IF dtls_state[e] = "NONE" /\ HasFingerprint(e) THEN "OFFERED"
                                                 ELSE dtls_state[e]

\* Variant (AgreeOnDtls): DTLS is done if either side wants it.
SetRemoteFingerprintEither(e, s) ==
  CASE s \notin {"NONE", "OFFERED"} -> s
    [] s = "NONE" -> s
    [] fingerprint[Peer(e)] = "unknown" -> "CLOSED"
    [] OTHER -> "ACCEPTED"

\* dtls_state_ after NegotiateTransportDescription_w pushed the remote
\* fingerprint, empty unless both sides have one, down to the channel: in a
\* later state it is refused, and nobody looks at the refusal.
SetRemoteFingerprint(e, s) ==
  CASE s \notin {"NONE", "OFFERED"} -> s
    [] s \in {"NONE", "OFFERED"} /\ ~BothSecure -> "NONE"
    [] s = "NONE" /\ BothSecure -> s
    [] s = "OFFERED" /\ BothSecure ->
         IF fingerprint[Peer(e)] = "unknown" THEN "CLOSED" ELSE "ACCEPTED"

\* SetLocalTransportDescription with an offer, the first or a later one.
SetLocalOffer ==
  /\ "offerer" \notin failed /\ offers < MaxOffers
  /\ offers = 0 \/ (answered = "answer" /\ mail = <<>>)
  /\ \/ /\ IdentityAccepted("offerer")
        /\ dtls_state' = [dtls_state EXCEPT
                            !["offerer"] = SetLocalIdentity("offerer")]
        /\ offers' = offers + 1 /\ answered' = "nothing"
        /\ UNCHANGED failed
     \/ /\ ~IdentityAccepted("offerer")
        /\ failed' = failed \cup {"offerer"}
        /\ UNCHANGED <<dtls_state, offers, answered>>
  /\ UNCHANGED <<fingerprint, mail, applied, implVars, readable, writable,
                 sslVars, netVars>>

\* SetLocalTransportDescription with an answer: the identity, then the
\* negotiation, which refuses a final answer with a fingerprint to an offer
\* without one, but not a provisional one.
SetLocalAnswer(kind) ==
  /\ "answerer" \notin failed /\ offers > 0
  /\ answered = "nothing" \/ (answered = "pranswer" /\ kind = "answer")
  /\ LET s == SetLocalIdentity("answerer")
         negotiated == \/ BothSecure \/ ~HasFingerprint("answerer")
                       \/ kind = "pranswer"
     IN \/ /\ IdentityAccepted("answerer") /\ negotiated
           /\ dtls_state' = [dtls_state EXCEPT
                               !["answerer"] =
                                  SetRemoteFingerprint("answerer", s)]
           /\ answered' = kind
           /\ mail' = Append(mail, kind)
           /\ applied' = applied \cup {"answerer"}
           /\ UNCHANGED failed
        \/ /\ ~(IdentityAccepted("answerer") /\ negotiated)
           /\ dtls_state' = [dtls_state EXCEPT
                               !["answerer"] =
                                  IF IdentityAccepted("answerer")
                                    THEN s ELSE @]
           /\ failed' = failed \cup {"answerer"}
           /\ UNCHANGED <<answered, mail, applied>>
  /\ UNCHANGED <<fingerprint, offers, implVars, readable, writable, sslVars,
                 netVars>>

\* SetRemoteTransportDescription with an answer, at the offerer.
SetRemoteAnswer ==
  /\ "offerer" \notin failed /\ mail # <<>>
  /\ dtls_state' = [dtls_state EXCEPT
                      !["offerer"] = SetRemoteFingerprint("offerer", @)]
  /\ mail' = Tail(mail)
  /\ applied' = applied \cup {"offerer"}
  /\ UNCHANGED <<fingerprint, offers, answered, failed, implVars, readable,
                 writable, sslVars, netVars>>

-----------------------------------------------------------------------------
(* Packets.  StreamInterfaceChannel::Write never fails: what an impl that is *)
(* down is given is lost.                                                    *)

Transmit(e, kinds) ==
  [net EXCEPT ![Peer(e)] = IF impl[e] = "down" THEN @ ELSE @ \cup kinds]

\* SendPacket: nothing in STATE_OFFERED, ACCEPTED, STARTED and CLOSED.
SendPacket(e) ==
  /\ Cardinality(net[Peer(e)]) < MaxNet
  /\ \/ dtls_state[e] = "NONE" /\ net' = Transmit(e, {"clear"})
     \/ dtls_state[e] = "OPEN" /\ net' = Transmit(e, {"data"})
     \/ dtls_state[e] = "OPEN" /\ net' = Transmit(e, {"rtp"})
  /\ UNCHANGED <<fingerprint, negotiationVars, implVars, wrapperVars, sslVars,
                 losses, delivered>>

Lose(e) ==
  /\ losses < MaxLosses
  /\ \E p \in net[e] : net' = [net EXCEPT ![e] = @ \ {p}]
  /\ losses' = losses + 1
  /\ UNCHANGED <<fingerprint, negotiationVars, implVars, wrapperVars, sslVars,
                 delivered>>

-----------------------------------------------------------------------------
(* The state of the impl.                                                  *)

\* Variant (WritableMeansOpen): the handshake does not hide the impl.
MirrorsStarted(e) == dtls_state[e] \in {"NONE", "STARTED", "OPEN"}

Mirrors(e) == dtls_state[e] \in {"NONE", "OPEN"}

Assign(set, e, value) == IF value THEN set \cup {e} ELSE set \ {e}

OnReadableState(e) ==
  /\ e \in applied
  /\ implReadable' = Assign(implReadable, e, e \notin implReadable)
  /\ readable' = IF Mirrors(e) THEN Assign(readable, e, e \in implReadable')
                               ELSE readable
  /\ UNCHANGED <<fingerprint, negotiationVars, impl, dtls_state, writable,
                 sslVars, netVars>>

\* The impl loses its connection after it stopped being writable.
ConnectionLost(e) ==
  /\ impl[e] = "stale"
  /\ impl' = [impl EXCEPT ![e] = "down"]
  /\ UNCHANGED <<fingerprint, negotiationVars, implReadable, wrapperVars,
                 sslVars, netVars>>

\* StartSSLWithPeer: the client opens with its hello, the server waits.
StartSSL(e) ==
  /\ ssl' = [ssl EXCEPT ![e] = "SSL_CONNECTING"]
  /\ flight' = [flight EXCEPT ![e] = IF IsServer(e) THEN @ ELSE "hello"]
  /\ net' = [net EXCEPT ![Peer(e)] = IF IsServer(e) THEN @
                                                    ELSE @ \cup {"hello"}]

MaybeStartDtls(e) ==
  IF dtls_state[e] = "ACCEPTED" /\ impl'[e] = "up"
    THEN StartSSL(e) /\ dtls_state' = [dtls_state EXCEPT ![e] = "STARTED"]
    ELSE UNCHANGED <<dtls_state, sslVars, net>>

\* ICE changes the writability of the impl, which needs both descriptions
\* (WebRtcSession keeps the remote candidates until it has them).
OnWritableState(e) ==
  /\ e \in applied
  /\ impl' = [impl EXCEPT ![e] = IF @ = "up" THEN "stale" ELSE "up"]
  /\ writable' = IF Mirrors(e) THEN Assign(writable, e, impl'[e] = "up")
                               ELSE writable
  /\ MaybeStartDtls(e)
  /\ UNCHANGED <<fingerprint, negotiationVars, implReadable, readable, losses,
                 delivered>>

-----------------------------------------------------------------------------
(* The handshake.  OpenSSL is external: the server answers a hello, each    *)
(* side verifies the certificate of the other against the fingerprint, and   *)
(* the last flight of a side is sent again on a timer, or by a connected     *)
(* server that sees the client's again.                                      *)

Verified(e) == fingerprint[Peer(e)] = "good"

\* What the engine of e does with a handshake packet while connecting:
\* the next state of the adapter, and the flight it sends.
Engine(e, p) ==
  CASE p = "alert" -> [ssl |-> "SSL_ERROR", send |-> "nothing"]
    [] p = "hello" /\ IsServer(e) /\ flight[e] = "nothing" ->
         [ssl |-> "SSL_CONNECTING", send |-> "answer"]
    [] p = "answer" /\ ~IsServer(e) /\ flight[e] = "hello" ->
         IF Verified(e) THEN [ssl |-> "SSL_CONNECTING", send |-> "finish"]
                        ELSE [ssl |-> "SSL_ERROR", send |-> "alert"]
    [] p = "finish" /\ IsServer(e) /\ flight[e] = "answer" ->
         IF Verified(e) THEN [ssl |-> "SSL_CONNECTED", send |-> "done"]
                        ELSE [ssl |-> "SSL_ERROR", send |-> "alert"]
    [] p = "done" /\ ~IsServer(e) /\ flight[e] = "finish" ->
         [ssl |-> "SSL_CONNECTED", send |-> "nothing"]
    [] OTHER -> [ssl |-> "SSL_CONNECTING", send |-> "nothing"]

\* OnDtlsEvent: SE_OPEN and SE_CLOSE.
OnDtlsEvent(e, s) ==
  CASE s = "SSL_CONNECTED" ->
         /\ dtls_state' = [dtls_state EXCEPT ![e] = "OPEN"]
         /\ readable' = readable \cup {e} /\ writable' = writable \cup {e}
    [] s = "SSL_ERROR" ->
         /\ dtls_state' = [dtls_state EXCEPT ![e] = "CLOSED"]
         /\ readable' = readable \ {e} /\ writable' = writable \ {e}
    [] s = "SSL_CONNECTING" -> UNCHANGED wrapperVars

\* ContinueSSL with a packet in the FIFO.
ContinueSSL(e, p) ==
  LET r == Engine(e, p)
      sent == {r.send} \ {"nothing"}
  IN /\ ssl' = [ssl EXCEPT ![e] = r.ssl]
     /\ flight' = [flight EXCEPT ![e] = IF sent = {} THEN @ ELSE r.send]
     /\ net' = [Transmit(e, sent) EXCEPT ![e] = @ \ {p}]
     /\ OnDtlsEvent(e, r.ssl)
     /\ UNCHANGED delivered

Deliver(e, p) ==
  /\ delivered' = p
  /\ net' = [net EXCEPT ![e] = @ \ {p}]
  /\ UNCHANGED <<wrapperVars, sslVars>>

Drop(e, p) ==
  /\ net' = [net EXCEPT ![e] = @ \ {p}]
  /\ UNCHANGED <<wrapperVars, sslVars, delivered>>

\* Variant (HandshakeCompletes): an open channel reads data only.
ReadConnectedData(e, p) ==
  IF p = "data" THEN Deliver(e, p) ELSE Drop(e, p)

\* SE_READ in a connected adapter: the wrapper reads, and the engine hands up
\* data or sees that its last flight was lost.
ReadConnected(e, p) ==
  CASE p = "data" -> Deliver(e, p)
    [] p = "finish" /\ IsServer(e) ->
         /\ net' = [Transmit(e, {"done"}) EXCEPT ![e] = @ \ {p}]
         /\ UNCHANGED <<wrapperVars, sslVars, delivered>>
    [] OTHER -> Drop(e, p)

IsDtlsPacket(p) == p \notin {"clear", "rtp"}

\* Variant (NeverInClear): only a closed channel drops what is too early.
OnReadPacketEarly(e, p) ==
  /\ p \in net[e]
  /\ CASE dtls_state[e] \in {"NONE", "OFFERED", "ACCEPTED"} -> Deliver(e, p)
       [] dtls_state[e] = "CLOSED" -> Drop(e, p)
       [] dtls_state[e] = "STARTED" ->
            IF IsDtlsPacket(p) THEN ContinueSSL(e, p) ELSE Drop(e, p)
       [] dtls_state[e] = "OPEN" ->
            CASE IsDtlsPacket(p) -> ReadConnected(e, p)
              [] p = "rtp" -> Deliver(e, p)
              [] OTHER -> Drop(e, p)
  /\ UNCHANGED <<fingerprint, negotiationVars, implVars, losses>>

OnReadPacket(e, p) ==
  /\ p \in net[e]
  /\ CASE dtls_state[e] = "NONE" -> Deliver(e, p)
       [] dtls_state[e] \in {"OFFERED", "ACCEPTED", "CLOSED"} -> Drop(e, p)
       [] dtls_state[e] = "STARTED" ->
            IF IsDtlsPacket(p) THEN ContinueSSL(e, p) ELSE Drop(e, p)
       [] dtls_state[e] = "OPEN" ->
            CASE IsDtlsPacket(p) -> ReadConnected(e, p)
              [] p = "rtp" -> Deliver(e, p)
              [] OTHER -> Drop(e, p)
  /\ UNCHANGED <<fingerprint, negotiationVars, implVars, losses>>

\* OnMessage(MSG_TIMEOUT): a connecting adapter sends its last flight again.
OnTimeout(e) ==
  /\ ssl[e] = "SSL_CONNECTING" /\ flight[e] # "nothing"
  /\ net' = Transmit(e, {flight[e]})
  /\ UNCHANGED <<fingerprint, negotiationVars, implVars, wrapperVars, sslVars,
                 losses, delivered>>

Next ==
  \/ SetLocalOffer
  \/ \E kind \in {"pranswer", "answer"} : SetLocalAnswer(kind)
  \/ SetRemoteAnswer
  \/ \E e \in Ends : \/ SendPacket(e) \/ Lose(e)
                     \/ \E p \in Packets : OnReadPacket(e, p)
                     \/ OnReadableState(e) \/ OnWritableState(e)
                     \/ ConnectionLost(e) \/ OnTimeout(e)

Spec == Init /\ [][Next]_vars

\* The worker thread keeps dispatching timers and arriving packets.
Fairness ==
  \A e \in Ends : /\ WF_vars(OnTimeout(e))
                  /\ \A p \in Handshake : WF_vars(OnReadPacket(e, p))

FairSpec == Spec /\ Fairness

-----------------------------------------------------------------------------
(* Properties.                                                             *)

\* Types; and the wrapper is in the state that its adapter is in.
TypeOK ==
  /\ fingerprint \in [Ends -> Fingerprints]
  /\ offers \in 0..MaxOffers /\ losses \in 0..MaxLosses
  /\ answered \in {"nothing", "pranswer", "answer"}
  /\ mail \in Seq({"pranswer", "answer"})
  /\ UNION {applied, failed, implReadable, readable, writable} \subseteq Ends
  /\ impl \in [Ends -> {"down", "up", "stale"}]
  /\ dtls_state \in [Ends -> DtlsStates]
  /\ flight \in [Ends -> Handshake \cup {"nothing"}]
  /\ net \in [Ends -> SUBSET Packets]
  /\ delivered \in Packets \cup {"nothing"}
  /\ \A e \in Ends :
       CASE dtls_state[e] = "STARTED" -> ssl[e] = "SSL_CONNECTING"
         [] dtls_state[e] = "OPEN" -> ssl[e] = "SSL_CONNECTED"
         [] dtls_state[e] = "CLOSED" -> ssl[e] \in {"SSL_NONE", "SSL_ERROR"}
         [] OTHER -> ssl[e] = "SSL_NONE"

\* Once the answer has reached the offerer and no description was refused,
\* either both ends do DTLS or neither does, whatever provisional answers and
\* later offers there were.
AgreeOnDtls ==
  applied = Ends /\ failed = {} /\ mail = <<>> /\ answered # "nothing"
    => (dtls_state["offerer"] = "NONE" <=> dtls_state["answerer"] = "NONE")

\* When both descriptions carry a fingerprint, no packet reaches the
\* application in clear, and no packet of the handshake does, however early
\* the ends send and however late the answer arrives.
NeverInClear ==
  BothSecure => delivered \in {"nothing", "data", "rtp"}

\* "Prior to the DTLS handshake, the state is neither readable or writable":
\* with DTLS negotiated, a channel reported usable has finished its handshake.
WritableMeansOpen ==
  BothSecure => \A e \in readable \cup writable : dtls_state[e] = "OPEN"

\* "Once the DTLS handshake completes, the state is that of the impl again".
OpenMirrorsImpl ==
  \A e \in Ends : dtls_state[e] = "OPEN" =>
    (e \in writable <=> impl[e] = "up")

\* The handshake ends, whichever of its flights were lost or came before the
\* other side was ready: if both fingerprints are right, both ends have both
\* descriptions and ICE stays writable from some time on, both ends open.
HandshakeCompletes ==
  (/\ \A e \in Ends : fingerprint[e] = "good"
   /\ <>[](applied = Ends /\ \A e \in Ends : impl[e] = "up"))
     => <>(\A e \in Ends : dtls_state[e] = "OPEN")
=============================================================================
