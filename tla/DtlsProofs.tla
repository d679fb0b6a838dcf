----------------------------- MODULE DtlsProofs -----------------------------
(***************************************************************************)
(* When both descriptions carry a fingerprint, nothing reaches either       *)
(* application in clear and no channel is reported usable before its        *)
(* handshake is over; and the ends agree on whether to do DTLS at all: for  *)
(* any fingerprints, offers and lost packets.                               *)
(***************************************************************************)
EXTENDS Dtls, TLAPS

\* The inductive invariant, for descriptions that both carry a fingerprint.
\* An end leaves STATE_NONE with its local description; the descriptions reach
\* the offerer after the answerer; ICE, and so the network, carries nothing of
\* an end that does not have both.
SecureInv ==
  BothSecure =>
    /\ dtls_state \in [Ends -> DtlsStates]
    /\ impl \in [Ends -> {"down", "up", "stale"}]
    /\ flight \in [Ends -> Handshake \cup {"nothing"}]
    /\ net \in [Ends -> SUBSET Packets]
    /\ offers \in Nat
    /\ mail \in Seq({"pranswer", "answer"})
    /\ offers > 0 => dtls_state["offerer"] # "NONE"
    /\ "answerer" \in applied =>
         dtls_state["answerer"] # "NONE" /\ offers > 0
    /\ mail # <<>> \/ "offerer" \in applied => "answerer" \in applied
    /\ \A e \in Ends : e \notin applied => impl[e] = "down"
    /\ \A e \in Ends : e \notin applied => net[Peer(e)] = {}
    /\ \A e \in Ends : "clear" \notin net[e]
    /\ \A e \in readable \cup writable : dtls_state[e] = "OPEN"
    /\ readable \cup writable \subseteq Ends
    /\ delivered \in {"nothing", "data", "rtp"}

\* What both fingerprints say is fixed: descriptions of one session carry the
\* same ones.
LEMMA FingerprintsFixed ==
  ASSUME [Next]_vars, BothSecure'
  PROVE  BothSecure
BY DEF Next, vars, BothSecure, HasFingerprint, SetLocalOffer, SetLocalAnswer,
       SetRemoteAnswer, SendPacket, Lose, OnReadPacket, OnReadableState,
       OnWritableState, ConnectionLost, OnTimeout

\* NegotiateTransportDescription_w never takes an end back to STATE_NONE when
\* both sides have a fingerprint, and never out of STATE_OPEN.
LEMMA NegotiationAdvances ==
  ASSUME NEW e \in Ends, NEW s \in DtlsStates, BothSecure
  PROVE  /\ SetRemoteFingerprint(e, s) \in DtlsStates
         /\ s # "NONE" => SetRemoteFingerprint(e, s) # "NONE"
         /\ s = "OPEN" => SetRemoteFingerprint(e, s) = "OPEN"
BY DEF SetRemoteFingerprint, DtlsStates

\* An end in STATE_NONE does not have both descriptions, and has been sent
\* nothing.
LEMMA NoneIsUnreached ==
  ASSUME SecureInv, BothSecure, NEW e \in Ends, dtls_state[e] = "NONE"
  PROVE  e \notin applied /\ impl[e] = "down" /\ net[e] = {}
<1>1. CASE e = "offerer"
  BY <1>1 DEF SecureInv, Ends, Peer
<1>2. CASE e = "answerer"
  BY <1>2 DEF SecureInv, Ends, Peer
<1> QED BY <1>1, <1>2 DEF Ends

\* At the start no packet is under way and both impls are down.
LEMMA InitSecure == Init => SecureInv
BY DEF Init, SecureInv, Ends, DtlsStates, Peer

-----------------------------------------------------------------------------
(* Descriptions.                                                           *)

\* An offer that is accepted takes the offerer out of STATE_NONE and leaves an
\* open wrapper open.
LEMMA LocalOffer ==
  ASSUME SecureInv, SetLocalOffer, BothSecure PROVE SecureInv'
<1>1. SetLocalIdentity("offerer") \in DtlsStates
  BY DEF SecureInv, SetLocalIdentity, DtlsStates, Ends
<1>2. /\ SetLocalIdentity("offerer") # "NONE"
      /\ dtls_state["offerer"] = "OPEN" =>
           SetLocalIdentity("offerer") = "OPEN"
  BY DEF SetLocalIdentity, BothSecure, Ends
<1>3. /\ UNCHANGED <<fingerprint, mail, applied, impl, readable, writable,
                     flight, net, delivered>>
      /\ offers' \in {offers, offers + 1}
  BY DEF SetLocalOffer, implVars, sslVars, netVars
<1>4. \E t \in DtlsStates :
        /\ dtls_state' = [dtls_state EXCEPT !["offerer"] = t]
        /\ dtls_state["offerer"] = "OPEN" => t = "OPEN"
        /\ t = "NONE" => offers' = offers /\ dtls_state["offerer"] = "NONE"
  <2>1. CASE IdentityAccepted("offerer")
    BY <1>1, <1>2, <2>1 DEF SetLocalOffer
  <2>2. CASE ~IdentityAccepted("offerer")
    <3>1. dtls_state' = [dtls_state EXCEPT !["offerer"] =
                           dtls_state["offerer"]] /\ offers' = offers
      BY <2>2 DEF SetLocalOffer, SecureInv
    <3> QED BY <3>1 DEF SecureInv, Ends
  <2> QED BY <2>1, <2>2
<1> QED BY <1>3, <1>4 DEF SecureInv, Ends, Peer

\* The answerer has both descriptions and leaves STATE_NONE in the same step.
LEMMA LocalAnswer ==
  ASSUME SecureInv, NEW kind \in {"pranswer", "answer"},
         SetLocalAnswer(kind), BothSecure
  PROVE  SecureInv'
<1> DEFINE s == SetLocalIdentity("answerer")
<1>1. s \in DtlsStates
  BY DEF SecureInv, SetLocalIdentity, DtlsStates, Ends
<1>2. s # "NONE" /\ (dtls_state["answerer"] = "OPEN" => s = "OPEN")
  BY DEF SetLocalIdentity, BothSecure, Ends
<1>3. /\ SetRemoteFingerprint("answerer", s) \in DtlsStates
      /\ SetRemoteFingerprint("answerer", s) # "NONE"
      /\ dtls_state["answerer"] = "OPEN" =>
           SetRemoteFingerprint("answerer", s) = "OPEN"
  BY <1>1, <1>2, NegotiationAdvances DEF Ends
<1> HIDE DEF s
<1>4. \E t \in DtlsStates :
        /\ dtls_state' = [dtls_state EXCEPT !["answerer"] = t]
        /\ dtls_state["answerer"] = "OPEN" => t = "OPEN"
        /\ "answerer" \in applied' => t # "NONE"
  BY <1>1, <1>2, <1>3 DEF SetLocalAnswer, SecureInv, s, Ends
<1>5. /\ applied' \in {applied, applied \cup {"answerer"}}
      /\ mail' # <<>> => mail # <<>> \/ "answerer" \in applied'
      /\ mail' \in Seq({"pranswer", "answer"})
      /\ offers > 0
  <2>1. mail' \in {mail, Append(mail, kind)}
    BY DEF SetLocalAnswer
  <2>2. mail' \in Seq({"pranswer", "answer"})
    BY <2>1 DEF SecureInv
  <2>3. mail' # mail => "answerer" \in applied'
    BY DEF SetLocalAnswer
  <2>4. applied' \in {applied, applied \cup {"answerer"}} /\ offers > 0
    BY DEF SetLocalAnswer
  <2> QED BY <2>2, <2>3, <2>4
<1>6. UNCHANGED <<fingerprint, offers, impl, readable, writable, flight, net,
                  delivered>>
  BY DEF SetLocalAnswer, implVars, netVars, sslVars
<1> QED BY <1>4, <1>5, <1>6 DEF SecureInv, Ends, Peer

\* An answer under way is one of an answerer that has both descriptions; with it
\* the offerer has them too.
LEMMA RemoteAnswer ==
  ASSUME SecureInv, SetRemoteAnswer, BothSecure PROVE SecureInv'
<1> DEFINE t == SetRemoteFingerprint("offerer", dtls_state["offerer"])
<1>1. "answerer" \in applied /\ offers > 0
  BY DEF SecureInv, SetRemoteAnswer
<1>2. /\ t \in DtlsStates /\ t # "NONE"
      /\ dtls_state["offerer"] = "OPEN" => t = "OPEN"
  BY <1>1, NegotiationAdvances DEF SecureInv, Ends
<1>3. mail' \in Seq({"pranswer", "answer"})
  BY DEF SecureInv, SetRemoteAnswer
<1>4. /\ dtls_state' = [dtls_state EXCEPT !["offerer"] = t]
      /\ applied' = applied \cup {"offerer"}
      /\ UNCHANGED <<fingerprint, offers, impl, readable, writable, flight,
                     net, delivered>>
  BY DEF SetRemoteAnswer, implVars, netVars, sslVars
<1> HIDE DEF t
<1> QED BY <1>1, <1>2, <1>3, <1>4 DEF SecureInv, Ends, Peer

-----------------------------------------------------------------------------
(* The impl.                                                               *)

\* An impl becomes readable: the wrapper mirrors it only when it is open.
LEMMA Readability ==
  ASSUME SecureInv, NEW e \in Ends, OnReadableState(e), BothSecure
  PROVE  SecureInv'
<1>1. Mirrors(e) => dtls_state[e] = "OPEN"
  BY NoneIsUnreached DEF OnReadableState, Mirrors
<1>2. readable' \subseteq readable \cup {x \in {e} : Mirrors(e)}
  BY DEF OnReadableState, Assign
<1>3. UNCHANGED <<fingerprint, offers, mail, applied, impl, dtls_state,
                  writable, flight, net, delivered>>
  BY DEF OnReadableState, negotiationVars, netVars, sslVars
<1> QED BY <1>1, <1>2, <1>3 DEF SecureInv, Ends, Peer

\* An impl becomes writable: the handshake starts, nothing else is sent.
LEMMA Writability ==
  ASSUME SecureInv, NEW e \in Ends, OnWritableState(e), BothSecure
  PROVE  SecureInv'
<1>1. Mirrors(e) => dtls_state[e] = "OPEN"
  BY NoneIsUnreached DEF OnWritableState, Mirrors
<1>2. writable' \subseteq writable \cup {x \in {e} : Mirrors(e)}
  BY DEF OnWritableState, Assign
<1>3. /\ e \in applied
      /\ impl' \in [Ends -> {"down", "up", "stale"}]
      /\ \A x \in Ends : x # e => impl'[x] = impl[x]
      /\ UNCHANGED <<fingerprint, offers, mail, applied, readable, delivered>>
  BY DEF OnWritableState, negotiationVars, SecureInv
<1>4. /\ dtls_state' \in [Ends -> DtlsStates]
      /\ \A x \in Ends :
           \/ dtls_state'[x] = dtls_state[x]
           \/ x = e /\ dtls_state[x] = "ACCEPTED"
              /\ dtls_state'[x] = "STARTED"
  BY DEF OnWritableState, MaybeStartDtls, SecureInv, DtlsStates
<1>5. /\ flight' \in [Ends -> Handshake \cup {"nothing"}]
      /\ net' \in [Ends -> SUBSET Packets]
      /\ \A x \in Ends : x # Peer(e) => net'[x] = net[x]
      /\ \A x \in Ends : net'[x] \subseteq net[x] \cup {"hello"}
  BY DEF OnWritableState, MaybeStartDtls, StartSSL, SecureInv, Packets,
         Handshake, Ends, Peer, sslVars
<1> QED BY <1>1, <1>2, <1>3, <1>4, <1>5 DEF SecureInv, Ends, Peer

\* An impl that loses its connection leaves the wrapper's flags alone.
LEMMA Lost ==
  ASSUME SecureInv, NEW e \in Ends, ConnectionLost(e), BothSecure
  PROVE  SecureInv'
<1>1. /\ impl' = [impl EXCEPT ![e] = "down"]
      /\ UNCHANGED <<fingerprint, offers, mail, applied, readable, writable,
                     dtls_state, flight, net, delivered>>
  BY DEF ConnectionLost, negotiationVars, wrapperVars, netVars, sslVars
<1> QED BY <1>1 DEF SecureInv, Ends, Peer

-----------------------------------------------------------------------------
(* Packets.                                                                *)

\* What may change on the network: an end that has both descriptions sends
\* its peer something other than clear text, and packets disappear.
NetStep(e, kinds) ==
  /\ kinds \subseteq Packets \ {"clear"}
  /\ net' \in [Ends -> SUBSET Packets]
  /\ net'[e] \subseteq net[e]
  /\ net'[Peer(e)] \subseteq
       net[Peer(e)] \cup (IF impl[e] = "down" THEN {} ELSE kinds)

\* A step on the network keeps the parts of the invariant that are about it.
LEMMA NetStepSafe ==
  ASSUME SecureInv, BothSecure, NEW e \in Ends, NEW kinds,
         NetStep(e, kinds), applied' = applied
  PROVE  /\ net' \in [Ends -> SUBSET Packets]
         /\ \A x \in Ends : x \notin applied' => net'[Peer(x)] = {}
         /\ \A x \in Ends : "clear" \notin net'[x]
<1>1. CASE e = "offerer"
  BY <1>1 DEF SecureInv, NetStep, Ends, Peer
<1>2. CASE e = "answerer"
  BY <1>2 DEF SecureInv, NetStep, Ends, Peer
<1> QED BY <1>1, <1>2 DEF Ends

\* A wrapper in STATE_NONE would send in clear, but its impl is down then.
LEMMA Sent ==
  ASSUME SecureInv, NEW e \in Ends, SendPacket(e), BothSecure
  PROVE  SecureInv'
<1>1. NetStep(e, {"data", "rtp"})
  <2>1. CASE dtls_state[e] = "NONE"
    <3>1. impl[e] = "down"
      BY <2>1, NoneIsUnreached
    <3> QED BY <2>1, <3>1 DEF SendPacket, Transmit, NetStep, SecureInv,
               Packets, Handshake, Ends, Peer
  <2>2. CASE dtls_state[e] # "NONE"
    BY <2>2 DEF SendPacket, Transmit, NetStep, SecureInv, Packets, Handshake,
           Ends, Peer
  <2> QED BY <2>1, <2>2
<1>2. UNCHANGED <<fingerprint, offers, mail, applied, impl, dtls_state,
                  readable, writable, flight, delivered>>
  BY DEF SendPacket, negotiationVars, implVars, wrapperVars, sslVars
<1> QED BY <1>1, <1>2, NetStepSafe DEF SecureInv

\* A lost packet changes nothing else.
LEMMA Dropped ==
  ASSUME SecureInv, NEW e \in Ends, Lose(e), BothSecure
  PROVE  SecureInv'
<1>1. NetStep(e, {})
  BY DEF Lose, NetStep, SecureInv, Ends, Peer
<1>2. UNCHANGED <<fingerprint, offers, mail, applied, impl, dtls_state,
                  readable, writable, flight, delivered>>
  BY DEF Lose, negotiationVars, implVars, wrapperVars, sslVars
<1> QED BY <1>1, <1>2, NetStepSafe DEF SecureInv

\* A retransmission is a handshake packet again.
LEMMA TimedOut ==
  ASSUME SecureInv, NEW e \in Ends, OnTimeout(e), BothSecure
  PROVE  SecureInv'
<1>1. NetStep(e, Handshake)
  BY DEF OnTimeout, Transmit, NetStep, SecureInv, Packets, Handshake, Ends,
         Peer
<1>2. UNCHANGED <<fingerprint, offers, mail, applied, impl, dtls_state,
                  readable, writable, flight, delivered>>
  BY DEF OnTimeout, negotiationVars, implVars, wrapperVars, sslVars
<1> QED BY <1>1, <1>2, NetStepSafe DEF SecureInv

\* What a packet does to an end, other than to the network: the engine of an
\* end in STATE_STARTED may open or close it, and data or RTP may be handed up.
ReadStep(e) ==
  /\ dtls_state' \in [Ends -> DtlsStates]
  /\ \A x \in Ends :
       \/ dtls_state'[x] = dtls_state[x]
       \/ /\ x = e /\ dtls_state[x] = "STARTED"
          /\ dtls_state'[x] \in {"OPEN", "CLOSED"}
  /\ readable' \cup writable' \subseteq
       readable \cup writable \cup {x \in {e} : dtls_state'[e] = "OPEN"}
  /\ flight' \in [Ends -> Handshake \cup {"nothing"}]
  /\ delivered' \in {"nothing", "data", "rtp"}

\* OpenSSL answers a packet with a handshake packet or none.
LEMMA EngineResult ==
  ASSUME NEW e \in Ends, NEW p \in Packets
  PROVE  /\ Engine(e, p).ssl \in
              {"SSL_CONNECTING", "SSL_CONNECTED", "SSL_ERROR"}
         /\ Engine(e, p).send \in Handshake \cup {"nothing"}
BY DEF Engine, Handshake

\* ContinueSSL goes on with the handshake and opens the channel at its end.
LEMMA Continued ==
  ASSUME SecureInv, BothSecure, NEW e \in Ends, NEW p \in net[e],
         dtls_state[e] = "STARTED", ContinueSSL(e, p)
  PROVE  NetStep(e, Handshake) /\ ReadStep(e)
<1> DEFINE r == Engine(e, p)
           sent == {r.send} \ {"nothing"}
<1>0. p \in Packets /\ net \in [Ends -> SUBSET Packets] /\ Peer(e) \in Ends
      /\ Peer(e) # e
  BY DEF SecureInv, Ends, Peer
<1>1. /\ r.ssl \in {"SSL_CONNECTING", "SSL_CONNECTED", "SSL_ERROR"}
      /\ r.send \in Handshake \cup {"nothing"}
  BY <1>0, EngineResult
<1>2. /\ net' = [Transmit(e, sent) EXCEPT ![e] = @ \ {p}]
      /\ flight' = [flight EXCEPT ![e] = IF sent = {} THEN @ ELSE r.send]
      /\ OnDtlsEvent(e, r.ssl) /\ delivered' = delivered
  BY DEF ContinueSSL
<1> HIDE DEF r
<1>3. sent \subseteq Handshake
  BY <1>1
<1>4. NetStep(e, Handshake)
  BY <1>0, <1>2, <1>3 DEF NetStep, Transmit, Packets, Handshake
<1>5. flight' \in [Ends -> Handshake \cup {"nothing"}]
  BY <1>1, <1>2 DEF SecureInv
<1>6. delivered' \in {"nothing", "data", "rtp"}
  BY <1>2 DEF SecureInv
<1>7. ReadStep(e)
  <2> USE <1>2, <1>5, <1>6 DEF ReadStep, SecureInv, DtlsStates
  <2>1. CASE r.ssl = "SSL_CONNECTING"
    BY <2>1 DEF OnDtlsEvent, wrapperVars
  <2>2. CASE r.ssl = "SSL_CONNECTED"
    BY <2>2 DEF OnDtlsEvent
  <2>3. CASE r.ssl = "SSL_ERROR"
    BY <2>3 DEF OnDtlsEvent
  <2> QED BY <1>1, <2>1, <2>2, <2>3
<1> QED BY <1>4, <1>7

\* Decrypted data and SRTP reach the application, or a packet is dropped.
LEMMA HandedUp ==
  ASSUME SecureInv, BothSecure, NEW e \in Ends, NEW p \in net[e],
         (Deliver(e, p) /\ p \in {"data", "rtp"}) \/ Drop(e, p)
  PROVE  NetStep(e, Handshake) /\ ReadStep(e)
<1>1. /\ net' = [net EXCEPT ![e] = @ \ {p}]
      /\ UNCHANGED <<dtls_state, readable, writable, flight>>
      /\ delivered' \in {"nothing", "data", "rtp"}
  BY DEF Deliver, Drop, wrapperVars, sslVars, SecureInv
<1> QED BY <1>1 DEF NetStep, ReadStep, SecureInv, Packets, Handshake, Ends,
           Peer

\* What an open wrapper reads is data, SRTP or a repeated flight.
LEMMA Connected ==
  ASSUME SecureInv, BothSecure, NEW e \in Ends, NEW p \in net[e],
         ReadConnected(e, p)
  PROVE  NetStep(e, Handshake) /\ ReadStep(e)
<1>1. CASE p = "finish" /\ IsServer(e)
  <2>1. /\ net' = [Transmit(e, {"done"}) EXCEPT ![e] = @ \ {p}]
        /\ UNCHANGED <<dtls_state, readable, writable, flight, delivered>>
    BY <1>1 DEF ReadConnected, wrapperVars, sslVars
  <2> QED BY <2>1 DEF Transmit, NetStep, ReadStep, SecureInv, Packets,
             Handshake, Ends, Peer
<1>2. CASE ~(p = "finish" /\ IsServer(e))
  <2>1. (Deliver(e, p) /\ p \in {"data", "rtp"}) \/ Drop(e, p)
    BY <1>2 DEF ReadConnected
  <2> QED BY <2>1, HandedUp
<1> QED BY <1>1, <1>2

\* Whatever packet arrives, in whatever state.
LEMMA Received ==
  ASSUME SecureInv, NEW e \in Ends, NEW p \in Packets, OnReadPacket(e, p),
         BothSecure
  PROVE  SecureInv'
<1>1. p \in net[e] /\ dtls_state[e] # "NONE" /\ p # "clear"
      /\ dtls_state[e] \in DtlsStates
  BY NoneIsUnreached DEF OnReadPacket, SecureInv
<1>2. NetStep(e, Handshake) /\ ReadStep(e)
  <2>1. CASE dtls_state[e] \in {"OFFERED", "ACCEPTED", "CLOSED"}
    <3>1. Drop(e, p) BY <2>1 DEF OnReadPacket
    <3> QED BY <1>1, <3>1, HandedUp
  <2>2. CASE dtls_state[e] = "STARTED"
    <3>1. ContinueSSL(e, p) \/ Drop(e, p) BY <2>2 DEF OnReadPacket
    <3> QED BY <1>1, <2>2, <3>1, HandedUp, Continued
  <2>3. CASE dtls_state[e] = "OPEN"
    <3>1. \/ ReadConnected(e, p)
          \/ (Deliver(e, p) /\ p \in {"data", "rtp"}) \/ Drop(e, p)
      BY <2>3 DEF OnReadPacket
    <3> QED BY <1>1, <3>1, HandedUp, Connected
  <2> QED BY <1>1, <2>1, <2>2, <2>3 DEF DtlsStates
<1>3. UNCHANGED <<fingerprint, offers, mail, applied, impl>>
  BY DEF OnReadPacket, negotiationVars, implVars
<1>4. /\ net' \in [Ends -> SUBSET Packets]
      /\ \A x \in Ends : x \notin applied' => net'[Peer(x)] = {}
      /\ \A x \in Ends : "clear" \notin net'[x]
  BY <1>2, <1>3, NetStepSafe
<1> QED BY <1>2, <1>3, <1>4 DEF SecureInv, ReadStep, Ends

-----------------------------------------------------------------------------
(* The theorems.                                                           *)

\* Every step keeps the invariant.
LEMMA NextSecure ==
  ASSUME SecureInv, [Next]_vars PROVE SecureInv'
<1> SUFFICES ASSUME BothSecure' PROVE SecureInv'
  BY DEF SecureInv
<1>0. BothSecure
  BY FingerprintsFixed
<1>1. CASE SetLocalOffer BY <1>0, <1>1, LocalOffer
<1>2. ASSUME NEW kind \in {"pranswer", "answer"}, SetLocalAnswer(kind)
      PROVE  SecureInv'
  BY <1>0, <1>2, LocalAnswer
<1>3. CASE SetRemoteAnswer BY <1>0, <1>3, RemoteAnswer
<1>4. ASSUME NEW e \in Ends, SendPacket(e) PROVE SecureInv'
  BY <1>0, <1>4, Sent
<1>5. ASSUME NEW e \in Ends, Lose(e) PROVE SecureInv'
  BY <1>0, <1>5, Dropped
<1>6. ASSUME NEW e \in Ends, NEW p \in Packets, OnReadPacket(e, p)
      PROVE  SecureInv'
  BY <1>0, <1>6, Received
<1>7. ASSUME NEW e \in Ends, OnReadableState(e) PROVE SecureInv'
  BY <1>0, <1>7, Readability
<1>8. ASSUME NEW e \in Ends, OnWritableState(e) PROVE SecureInv'
  BY <1>0, <1>8, Writability
<1>9. ASSUME NEW e \in Ends, ConnectionLost(e) PROVE SecureInv'
  BY <1>0, <1>9, Lost
<1>10. ASSUME NEW e \in Ends, OnTimeout(e) PROVE SecureInv'
  BY <1>0, <1>10, TimedOut
<1>11. CASE UNCHANGED vars
  BY <1>0, <1>11 DEF SecureInv, vars, negotiationVars, implVars, wrapperVars,
     sslVars, netVars
<1> QED BY <1>1, <1>2, <1>3, <1>4, <1>5, <1>6, <1>7, <1>8, <1>9, <1>10,
           <1>11 DEF Next

\* The invariant holds in every state of every call.
THEOREM SecureInvariant == Spec => []SecureInv
BY InitSecure, NextSecure, PTL DEF Spec

\* With a fingerprint in both descriptions nothing is handed to either
\* application that did not come through the DTLS connection or as SRTP.
THEOREM ClearNeverDelivered == Spec => []NeverInClear
<1>1. SecureInv => NeverInClear
  BY DEF SecureInv, NeverInClear
<1> QED BY <1>1, SecureInvariant, PTL

\* With a fingerprint in both descriptions a wrapper that is readable or
\* writable is in STATE_OPEN.
THEOREM UsableIsOpen == Spec => []WritableMeansOpen
<1>1. SecureInv => WritableMeansOpen
  BY DEF SecureInv, WritableMeansOpen
<1> QED BY <1>1, SecureInvariant, PTL

-----------------------------------------------------------------------------
(* Agreement.                                                              *)

\* The other half of the argument: if a description lacks a fingerprint, the
\* answerer does not leave STATE_NONE unless its answer is refused, and the
\* offerer has left it only until an answer to its last offer arrives.
ClearInv ==
  ~BothSecure =>
    /\ dtls_state \in [Ends -> {"NONE", "OFFERED"}]
    /\ mail \in Seq({"pranswer", "answer"})
    /\ "answerer" \in failed \/ dtls_state["answerer"] = "NONE"
    /\ dtls_state["offerer"] = "NONE" \/ answered = "nothing" \/ mail # <<>>

\* NegotiateTransportDescription_w takes an end back to STATE_NONE unless both
\* descriptions have a fingerprint.
LEMMA NegotiationRetreats ==
  ASSUME NEW e \in Ends, NEW s \in {"NONE", "OFFERED"}, ~BothSecure
  PROVE  SetRemoteFingerprint(e, s) = "NONE"
BY DEF SetRemoteFingerprint

\* A step keeps the second half.
LEMMA NextClear ==
  ASSUME ClearInv, [Next]_vars PROVE ClearInv'
<1> SUFFICES ASSUME ~BothSecure' PROVE ClearInv'
  BY DEF ClearInv
<1>1. UNCHANGED fingerprint
  BY DEF Next, vars, SetLocalOffer, SetLocalAnswer, SetRemoteAnswer,
         SendPacket, Lose, OnReadPacket, OnReadableState, OnWritableState,
         ConnectionLost, OnTimeout
<1>2. ~BothSecure
  BY <1>1 DEF BothSecure, HasFingerprint
<1>3. /\ dtls_state \in [Ends -> {"NONE", "OFFERED"}]
      /\ mail \in Seq({"pranswer", "answer"})
      /\ "answerer" \in failed \/ dtls_state["answerer"] = "NONE"
      /\ dtls_state["offerer"] = "NONE" \/ answered = "nothing"
           \/ mail # <<>>
      /\ "offerer" \in Ends /\ "answerer" \in Ends
  BY <1>2 DEF ClearInv, Ends
<1>4. \A e \in Ends : SetLocalIdentity(e) \in {"NONE", "OFFERED"}
  BY <1>3 DEF SetLocalIdentity
<1>5. CASE SetLocalOffer
  <2>1. /\ mail' = mail
        /\ \/ /\ dtls_state' = [dtls_state EXCEPT
                                  !["offerer"] = SetLocalIdentity("offerer")]
              /\ answered' = "nothing" /\ failed' = failed
           \/ /\ UNCHANGED <<dtls_state, answered>>
              /\ failed' = failed \cup {"offerer"}
    BY <1>5 DEF SetLocalOffer
  <2>. QED
    BY <1>3, <1>4, <2>1 DEF ClearInv
<1>6. ASSUME NEW kind \in {"pranswer", "answer"}, SetLocalAnswer(kind)
      PROVE  ClearInv'
  <2> DEFINE s == SetLocalIdentity("answerer")
  <2>1. \/ /\ dtls_state' = [dtls_state EXCEPT
                               !["answerer"] =
                                  SetRemoteFingerprint("answerer", s)]
           /\ mail' = Append(mail, kind) /\ failed' = failed
        \/ /\ dtls_state' \in {dtls_state,
                               [dtls_state EXCEPT !["answerer"] = s]}
           /\ failed' = failed \cup {"answerer"}
           /\ UNCHANGED <<mail, answered>>
    <3>1. dtls_state = [dtls_state EXCEPT
                          !["answerer"] = dtls_state["answerer"]]
      BY <1>3
    <3>. QED
      BY <1>6, <3>1 DEF SetLocalAnswer
  <2>2. SetRemoteFingerprint("answerer", s) = "NONE"
    BY <1>2, <1>3, <1>4, NegotiationRetreats
  <2>3. Append(mail, kind) \in Seq({"pranswer", "answer"})
        /\ Append(mail, kind) # <<>>
    BY <1>3
  <2>. QED
    BY <1>3, <1>4, <2>1, <2>2, <2>3 DEF ClearInv
<1>7. CASE SetRemoteAnswer
  <2>1. /\ dtls_state' = [dtls_state EXCEPT !["offerer"] =
              SetRemoteFingerprint("offerer", dtls_state["offerer"])]
        /\ mail # <<>> /\ mail' = Tail(mail) /\ failed' = failed
    BY <1>7 DEF SetRemoteAnswer
  <2>2. SetRemoteFingerprint("offerer", dtls_state["offerer"]) = "NONE"
    BY <1>2, <1>3, NegotiationRetreats
  <2>. QED
    BY <1>3, <2>1, <2>2 DEF ClearInv
<1>8. ASSUME NEW e \in Ends,
             \/ SendPacket(e) \/ Lose(e) \/ OnReadableState(e)
             \/ OnWritableState(e) \/ ConnectionLost(e) \/ OnTimeout(e)
             \/ \E p \in Packets : OnReadPacket(e, p)
      PROVE  ClearInv'
  <2>1. UNCHANGED negotiationVars
    BY <1>8 DEF SendPacket, Lose, OnReadableState, OnWritableState,
                ConnectionLost, OnTimeout, OnReadPacket
  <2>2. dtls_state[e] \in {"NONE", "OFFERED"}
    BY <1>3
  <2>3. UNCHANGED dtls_state
    <3>1. CASE SendPacket(e) \/ Lose(e) \/ OnReadableState(e)
                 \/ ConnectionLost(e) \/ OnTimeout(e)
      BY <3>1 DEF SendPacket, Lose, OnReadableState, ConnectionLost,
                  OnTimeout, wrapperVars
    <3>2. CASE OnWritableState(e)
      BY <2>2, <3>2 DEF OnWritableState, MaybeStartDtls
    <3>3. CASE \E p \in Packets : OnReadPacket(e, p)
      <4>1. PICK p \in Packets : Deliver(e, p) \/ Drop(e, p)
        BY <2>2, <3>3 DEF OnReadPacket
      <4>. QED
        BY <4>1 DEF Deliver, Drop, wrapperVars
    <3>. QED
      BY <1>8, <3>1, <3>2, <3>3
  <2>. QED
    BY <1>3, <2>1, <2>3 DEF ClearInv, negotiationVars
<1>9. CASE UNCHANGED vars
  BY <1>3, <1>9 DEF ClearInv, vars, negotiationVars, wrapperVars
<1>. QED
  BY <1>5, <1>6, <1>7, <1>8, <1>9 DEF Next

\* Both halves hold in every state of every call.
THEOREM AgreementInvariant == Spec => [](SecureInv /\ ClearInv)
<1>1. Init => ClearInv
  BY DEF Init, ClearInv, Ends
<1>. QED
  BY <1>1, NextClear, SecureInvariant, PTL DEF Spec

\* Once the last answer has arrived and no description was refused, both ends
\* do DTLS or neither does.
THEOREM Agreement == Spec => []AgreeOnDtls
<1>1. SecureInv /\ ClearInv => AgreeOnDtls
  BY DEF SecureInv, ClearInv, AgreeOnDtls, Ends
<1>. QED
  BY <1>1, AgreementInvariant, PTL

=============================================================================
