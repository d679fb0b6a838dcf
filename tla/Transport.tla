----------------------------- MODULE Transport -----------------------------
(***************************************************************************)
(* A Transport (talk/p2p/base/transport.cc) between its two threads.       *)
(*                                                                         *)
(* The session calls it on the signaling thread.  What concerns the        *)
(* channels (one per component: RTP, RTCP) runs on the worker thread.  A   *)
(* call that needs an answer is a blocking Send, which the worker serves   *)
(* between two of its own handlers; everything else is a message posted to *)
(* the other thread's queue, handled later, when things may have changed.  *)
(*                                                                         *)
(* A channel appears as far as the Transport sees it: its readable and     *)
(* writable flags, whether it waits for the signaling thread before it     *)
(* gathers candidates, and the allocator sessions that are gathering.  The *)
(* session is WebRtcSession, which answers a request for signaling with    *)
(* OnSignalingReady at once.  An operator marked as a variant is a         *)
(* definition with a mistake in it, which the property it names detects.   *)
(***************************************************************************)
EXTENDS Naturals, Sequences, FiniteSets, Functions

CONSTANTS
  Components,     \* the components that may have a channel
  MaxRefs,        \* bound: references to one channel
  MaxCandidates,  \* bound: local candidates gathered in all
  MaxChanges,     \* bound: readable and writable changes in all
  MaxDestroys,    \* bound: calls of DestroyChannel
  MaxRestarts,    \* bound: local descriptions that restart ICE
  MaxResets       \* bound: calls of ResetChannels

ASSUME TransportAssumption ==
  /\ Components \subseteq Nat /\ IsFiniteSet(Components)
  /\ MaxRefs \in Nat /\ MaxCandidates \in Nat /\ MaxChanges \in Nat
  /\ MaxDestroys \in Nat /\ MaxRestarts \in Nat /\ MaxResets \in Nat

VARIABLES
  refs,       \* channels_: the reference count of each component's channel
  allocated,  \* the entries with candidates_allocated()
  connectRequested, \* connect_requested_
  described,  \* local_description_ is set, so the channels have credentials
  destroyed,  \* destroyed_
  held,       \* ready_candidates_
  readable,   \* readable_
  writable,   \* writable_
  \* the channels
  chReadable, \* those that are readable()
  chWritable, \* those that are writable()
  waiting,    \* those with waiting_for_signaling_
  gathering,  \* per channel, its allocator sessions that are not done
  \* the threads' queues
  signalingQueue,
  workerQueue,
  \* bounds and history
  produced,   \* candidates gathered so far, numbered from 1
  dropped,    \* those that ResetChannels cleared
  announced,  \* those given to the session, in order
  signalled,  \* channels whose allocation was done since they last started one
  reported,   \* the session was told so since any channel started one
  changes, destroys, restarts, resets

transportVars == <<refs, allocated, connectRequested, described, destroyed,
                   held, readable, writable>>
channelVars   == <<chReadable, chWritable, waiting, gathering>>
historyVars   == <<produced, dropped, announced, signalled, reported>>
boundVars     == <<changes, destroys, restarts, resets>>
vars == <<transportVars, channelVars, signalingQueue, workerQueue,
          historyVars, boundVars>>

TransportStates == {"NONE", "SOME", "ALL"}

Message(id) == [id |-> id, component |-> 0]
MSG_CONNECTING     == Message("MSG_CONNECTING")
MSG_CANDIDATEREADY == Message("MSG_CANDIDATEREADY")
MSG_READSTATE      == Message("MSG_READSTATE")
MSG_WRITESTATE     == Message("MSG_WRITESTATE")
MSG_CANDIDATEALLOCATIONCOMPLETE == Message("MSG_CANDIDATEALLOCATIONCOMPLETE")
MSG_REQUESTSIGNALING(c) == [id |-> "MSG_REQUESTSIGNALING", component |-> c]
MSG_ONSIGNALINGREADY == Message("MSG_ONSIGNALINGREADY")

SignalingMessages ==
  {MSG_CONNECTING, MSG_CANDIDATEREADY, MSG_READSTATE, MSG_WRITESTATE,
   MSG_CANDIDATEALLOCATIONCOMPLETE}
    \cup {MSG_REQUESTSIGNALING(c) : c \in Components}

Queued(m) == \E i \in DOMAIN signalingQueue : signalingQueue[i] = m

\* The components that have a channel.
Channels == {c \in Components : refs[c] > 0}

\* The requests of the channels of S, in the order of the map channels_: the
\* one sequence of length Cardinality(S) in which the components increase.
Requests(S) ==
  {q \in [1..Cardinality(S) -> {MSG_REQUESTSIGNALING(c) : c \in S}] :
     \A i, j \in DOMAIN q : i < j => q[i].component < q[j].component}

-----------------------------------------------------------------------------
(* Calls of the session, on the signaling thread.                          *)

\* CreateChannel: a second reference to a channel, or a new channel, which
\* starts to connect if the others have.
CreateChannel(c) ==
  /\ ~destroyed /\ refs[c] < MaxRefs
  /\ refs' = [refs EXCEPT ![c] = @ + 1]
  /\ LET new == refs[c] = 0 /\ connectRequested
     IN /\ waiting' = IF new THEN waiting \cup {c} ELSE waiting
        /\ signalingQueue' = signalingQueue \o
             (IF new THEN <<MSG_REQUESTSIGNALING(c)>> ELSE <<>>) \o
             (IF new /\ Channels = {} THEN <<MSG_CONNECTING>> ELSE <<>>)
  /\ UNCHANGED <<allocated, connectRequested, described, destroyed, held,
                 readable, writable, chReadable, chWritable, gathering,
                 workerQueue, historyVars, boundVars>>

\* The channel that giving up one reference to c destroys, if any.
DestroyedWith(c) == IF refs[c] = 1 THEN {c} ELSE {}

\* DestroyChannel: the last reference takes the channel with it, and the
\* write state is looked at again.
DestroyChannel(c) ==
  /\ ~destroyed /\ c \in Channels /\ destroys < MaxDestroys
  /\ destroys' = destroys + 1
  /\ refs' = [refs EXCEPT ![c] = @ - 1]
  /\ LET gone == DestroyedWith(c)
     IN /\ signalingQueue' = signalingQueue \o
             (IF Channels = gone /\ connectRequested
                THEN <<MSG_CONNECTING>> ELSE <<>>) \o
             (IF gone # {} THEN <<MSG_WRITESTATE>> ELSE <<>>)
        /\ allocated' = allocated \ gone
        /\ chReadable' = chReadable \ gone
        /\ chWritable' = chWritable \ gone
        /\ waiting' = waiting \ gone
        /\ gathering' = [d \in Components |->
                           IF d \in gone THEN 0 ELSE gathering[d]]
        /\ signalled' = signalled \ gone
  /\ UNCHANGED <<connectRequested, described, destroyed, held, readable,
                 writable, workerQueue, produced, dropped, announced,
                 reported, changes, restarts, resets>>

\* Variant (HeldCandidatesAnnounced): held candidates are not announced.
ConnectChannelsQuietly ==
  /\ ~destroyed /\ ~connectRequested /\ Channels # {}
  /\ connectRequested' = TRUE
  /\ described' = TRUE
  /\ waiting' = waiting \cup Channels
  /\ \E q \in Requests(Channels) :
       signalingQueue' = signalingQueue \o q \o <<MSG_CONNECTING>>
  /\ UNCHANGED <<refs, allocated, destroyed, held, readable, writable,
                 chReadable, chWritable, gathering, workerQueue, historyVars,
                 boundVars>>

\* ConnectChannels: candidates held so far may be announced, every channel
\* asks for signaling.
ConnectChannels ==
  /\ ~destroyed /\ ~connectRequested /\ Channels # {}
  /\ connectRequested' = TRUE
  /\ described' = TRUE
  /\ waiting' = waiting \cup Channels
  /\ \E q \in Requests(Channels) :
       signalingQueue' = signalingQueue \o <<MSG_CANDIDATEREADY>> \o q
                           \o <<MSG_CONNECTING>>
  /\ UNCHANGED <<refs, allocated, destroyed, held, readable, writable,
                 chReadable, chWritable, gathering, workerQueue, historyVars,
                 boundVars>>

\* SetLocalTransportDescription: the first one gives the channels their
\* credentials, one that changes them makes every channel gather again.
SetLocalTransportDescription ==
  /\ ~destroyed /\ (described => restarts < MaxRestarts)
  /\ described' = TRUE
  /\ restarts' = IF described THEN restarts + 1 ELSE restarts
  /\ LET again == IF described THEN Channels ELSE {}
     IN /\ waiting' = waiting \cup again
        /\ \E q \in Requests(again) : signalingQueue' = signalingQueue \o q
  /\ UNCHANGED <<refs, allocated, connectRequested, destroyed, held, readable,
                 writable, chReadable, chWritable, gathering, workerQueue,
                 historyVars, changes, destroys, resets>>

\* set_readable(false) and set_writable(false) of the channels that are reset.
ResetMessages ==
  (IF chReadable # {} THEN <<MSG_READSTATE>> ELSE <<>>) \o
  (IF chWritable # {} THEN <<MSG_WRITESTATE>> ELSE <<>>)

\* ResetChannels: every channel loses its sessions and both its flags; those
\* that change are posted.
ResetChannels ==
  /\ ~destroyed /\ resets < MaxResets
  /\ resets' = resets + 1
  /\ connectRequested' = FALSE
  /\ held' = <<>>
  /\ dropped' = dropped \cup Range(held)
  /\ waiting' = {}
  /\ gathering' = [c \in Components |-> 0]
  /\ chReadable' = {} /\ chWritable' = {}
  /\ signalingQueue' = signalingQueue \o ResetMessages
  /\ signalled' = {}
  /\ UNCHANGED <<refs, allocated, described, destroyed, readable, writable,
                 workerQueue, produced, announced, reported, changes,
                 destroys, restarts>>

\* DestroyAllChannels, from the destructor of the P2PTransport: no message to
\* the Transport survives it.
DestroyAllChannels ==
  /\ ~destroyed
  /\ destroyed' = TRUE
  /\ refs' = [c \in Components |-> 0]
  /\ allocated' = {} /\ chReadable' = {} /\ chWritable' = {}
  /\ waiting' = {}
  /\ gathering' = [c \in Components |-> 0]
  /\ signalingQueue' = <<>> /\ workerQueue' = <<>>
  /\ UNCHANGED <<connectRequested, described, held, readable, writable,
                 historyVars, boundVars>>

-----------------------------------------------------------------------------
(* Messages handled on the signaling thread.                               *)

Handles(m) == signalingQueue # <<>> /\ Head(signalingQueue) = m
              /\ signalingQueue' = Tail(signalingQueue)

\* Variant (WritableReported): some channels count as none.
GetTransportStateAllOrNone(flagged) ==
  IF Channels # {} /\ Channels \subseteq flagged THEN "ALL" ELSE "NONE"

\* GetTransportState_s, for the channels that have the flag.
GetTransportState(flagged) ==
  IF Channels # {} /\ Channels \subseteq flagged THEN "ALL"
  ELSE IF Channels \cap flagged # {} THEN "SOME"
  ELSE "NONE"

OnChannelReadableState_s ==
  /\ Handles(MSG_READSTATE)
  /\ readable' = GetTransportState(chReadable)
  /\ UNCHANGED <<refs, allocated, connectRequested, described, destroyed,
                 held, writable, channelVars, workerQueue, historyVars,
                 boundVars>>

OnChannelWritableState_s ==
  /\ Handles(MSG_WRITESTATE)
  /\ writable' = GetTransportState(chWritable)
  /\ UNCHANGED <<refs, allocated, connectRequested, described, destroyed,
                 held, readable, channelVars, workerQueue, historyVars,
                 boundVars>>

\* OnConnecting_s tells the session, which looks at writable_.
OnConnecting_s ==
  /\ Handles(MSG_CONNECTING)
  /\ UNCHANGED <<transportVars, channelVars, workerQueue, historyVars,
                 boundVars>>

\* Variant (EveryChannelGathers): a channel that never gathered is ignored.
OnChannelRequestSignaling_sAgain(c) ==
  /\ Handles(MSG_REQUESTSIGNALING(c))
  /\ allocated' = allocated \ {c}
  /\ workerQueue' = IF c \in allocated
                      THEN Append(workerQueue, MSG_ONSIGNALINGREADY)
                      ELSE workerQueue
  /\ UNCHANGED <<refs, connectRequested, described, destroyed, held,
                 readable, writable, channelVars, historyVars, boundVars>>

\* OnChannelRequestSignaling_s: the entry, if it is still there, counts as
\* gathering from now on; the session answers with OnSignalingReady.
OnChannelRequestSignaling_s(c) ==
  /\ Handles(MSG_REQUESTSIGNALING(c))
  /\ allocated' = allocated \ {c}
  /\ workerQueue' = Append(workerQueue, MSG_ONSIGNALINGREADY)
  /\ UNCHANGED <<refs, connectRequested, described, destroyed, held,
                 readable, writable, channelVars, historyVars, boundVars>>

\* Variant (AnnouncedOnceInOrder): the list is copied, not swapped out.
OnChannelCandidateReady_sCopies ==
  /\ Handles(MSG_CANDIDATEREADY)
  /\ announced' = announced \o held
  /\ UNCHANGED <<transportVars, channelVars, workerQueue, produced, dropped,
                 signalled, reported, boundVars>>

\* OnChannelCandidateReady_s announces all candidates held.
OnChannelCandidateReady_s ==
  /\ Handles(MSG_CANDIDATEREADY)
  /\ announced' = announced \o held
  /\ held' = <<>>
  /\ UNCHANGED <<refs, allocated, connectRequested, described, destroyed,
                 readable, writable, channelVars, workerQueue, produced,
                 dropped, signalled, reported, boundVars>>

\* OnChannelCandidatesAllocationDone_s tells the session.
OnChannelCandidatesAllocationDone_s ==
  /\ Handles(MSG_CANDIDATEALLOCATIONCOMPLETE)
  /\ reported' = TRUE
  /\ UNCHANGED <<transportVars, channelVars, workerQueue, produced, dropped,
                 announced, signalled, boundVars>>

-----------------------------------------------------------------------------
(* The worker thread.                                                      *)

\* MSG_ONSIGNALINGREADY: every channel that waits starts an allocator session.
OnSignalingReady_w ==
  /\ workerQueue # <<>>
  /\ workerQueue' = Tail(workerQueue)
  /\ waiting' = {}
  /\ gathering' = [c \in Components |->
                     IF c \in waiting THEN gathering[c] + 1 ELSE gathering[c]]
  /\ signalled' = signalled \ waiting
  /\ reported' = (reported /\ waiting = {})
  /\ UNCHANGED <<transportVars, chReadable, chWritable, signalingQueue,
                 produced, dropped, announced, boundVars>>

\* OnChannelCandidateReady: candidates are held until the client connects.
OnChannelCandidateReady(c) ==
  /\ gathering[c] > 0 /\ produced < MaxCandidates
  /\ produced' = produced + 1
  /\ held' = Append(held, produced + 1)
  /\ signalingQueue' = IF connectRequested
                         THEN Append(signalingQueue, MSG_CANDIDATEREADY)
                         ELSE signalingQueue
  /\ UNCHANGED <<refs, allocated, connectRequested, described, destroyed,
                 readable, writable, channelVars, workerQueue, dropped,
                 announced, signalled, reported, boundVars>>

\* Variant (CompleteMeansGathered): the loop stops at the first channel.
AllAllocatedIfAny(flags) == Channels \cap flags # {}

\* All channels have candidates_allocated().
AllAllocated(flags) == Channels \subseteq flags

\* OnChannelCandidatesAllocationDone: the last channel's end is posted.
OnChannelCandidatesAllocationDone(c) ==
  /\ gathering[c] > 0
  /\ gathering' = [gathering EXCEPT ![c] = @ - 1]
  /\ allocated' = allocated \cup {c}
  /\ signalingQueue' = IF AllAllocated(allocated')
                         THEN Append(signalingQueue,
                                     MSG_CANDIDATEALLOCATIONCOMPLETE)
                         ELSE signalingQueue
  /\ signalled' = signalled \cup {c}
  /\ UNCHANGED <<refs, connectRequested, described, destroyed, held, readable,
                 writable, chReadable, chWritable, waiting, workerQueue,
                 produced, dropped, announced, reported, boundVars>>

\* The channel has an allocator session, hence perhaps ports and connections.
HasSession(c) == c \in Channels /\ (gathering[c] > 0 \/ c \in signalled)

\* OnChannelReadableState: channel c becomes readable or stops being so.
OnChannelReadableState(c) ==
  /\ HasSession(c) /\ changes < MaxChanges
  /\ changes' = changes + 1
  /\ chReadable' = IF c \in chReadable THEN chReadable \ {c}
                                       ELSE chReadable \cup {c}
  /\ signalingQueue' = Append(signalingQueue, MSG_READSTATE)
  /\ UNCHANGED <<transportVars, chWritable, waiting, gathering, workerQueue,
                 historyVars, destroys, restarts, resets>>

\* OnChannelWritableState: likewise.
OnChannelWritableState(c) ==
  /\ HasSession(c) /\ changes < MaxChanges
  /\ changes' = changes + 1
  /\ chWritable' = IF c \in chWritable THEN chWritable \ {c}
                                       ELSE chWritable \cup {c}
  /\ signalingQueue' = Append(signalingQueue, MSG_WRITESTATE)
  /\ UNCHANGED <<transportVars, chReadable, waiting, gathering, workerQueue,
                 historyVars, destroys, restarts, resets>>

-----------------------------------------------------------------------------
Init ==
  /\ refs = [c \in Components |-> 0]
  /\ allocated = {}
  /\ connectRequested = FALSE /\ described = FALSE /\ destroyed = FALSE
  /\ held = <<>>
  /\ readable = "NONE" /\ writable = "NONE"
  /\ chReadable = {} /\ chWritable = {} /\ waiting = {}
  /\ gathering = [c \in Components |-> 0]
  /\ signalingQueue = <<>> /\ workerQueue = <<>>
  /\ produced = 0 /\ dropped = {} /\ announced = <<>>
  /\ signalled = {} /\ reported = FALSE
  /\ changes = 0 /\ destroys = 0 /\ restarts = 0 /\ resets = 0

Calls ==
  \/ \E c \in Components : CreateChannel(c) \/ DestroyChannel(c)
  \/ ConnectChannels
  \/ SetLocalTransportDescription
  \/ ResetChannels
  \/ DestroyAllChannels

SignalingMessage ==
  \/ OnChannelReadableState_s
  \/ OnChannelWritableState_s
  \/ OnConnecting_s
  \/ \E c \in Components : OnChannelRequestSignaling_s(c)
  \/ OnChannelCandidateReady_s
  \/ OnChannelCandidatesAllocationDone_s

ChannelEvent(c) ==
  \/ OnChannelCandidateReady(c)
  \/ OnChannelReadableState(c)
  \/ OnChannelWritableState(c)

Next ==
  \/ Calls
  \/ SignalingMessage
  \/ OnSignalingReady_w
  \/ \E c \in Components : ChannelEvent(c)
                           \/ OnChannelCandidatesAllocationDone(c)

Spec == Init /\ [][Next]_vars

\* Both threads keep dispatching, and an allocator session ends: every one of
\* its ports completes or fails within its STUN transactions' lifetime.
Fairness ==
  /\ WF_vars(SignalingMessage)
  /\ WF_vars(OnSignalingReady_w)
  /\ \A c \in Components : WF_vars(OnChannelCandidatesAllocationDone(c))

FairSpec == Spec /\ Fairness

-----------------------------------------------------------------------------
(* Properties.                                                             *)

TransportOK ==
  /\ refs \in [Components -> 0..MaxRefs]
  /\ allocated \subseteq Components
  /\ connectRequested \in BOOLEAN /\ described \in BOOLEAN
  /\ destroyed \in BOOLEAN
  /\ readable \in TransportStates /\ writable \in TransportStates

ChannelsOK ==
  /\ chReadable \subseteq Channels /\ chWritable \subseteq Channels
  /\ waiting \subseteq Channels
  /\ gathering \in [Components -> Nat]
  /\ \A c \in Components \ Channels : gathering[c] = 0

QueuesOK ==
  /\ signalingQueue \in Seq(SignalingMessages)
  /\ workerQueue \in Seq({MSG_ONSIGNALINGREADY})

HistoryOK ==
  /\ produced \in 0..MaxCandidates
  /\ held \in Seq(1..MaxCandidates) /\ announced \in Seq(1..MaxCandidates)
  /\ dropped \subseteq 1..MaxCandidates
  /\ signalled \subseteq Components /\ reported \in BOOLEAN
  /\ changes \in Nat /\ destroys \in Nat /\ restarts \in Nat /\ resets \in Nat

\* The types of the variables; only a channel that exists has flags, waits for
\* signaling or gathers.
TypeOK == TransportOK /\ ChannelsOK /\ QueuesOK /\ HistoryOK

\* The writable bit that the session reads is the OR of the channels' bits
\* unless a message that will correct it is on its way, whatever channels
\* were created and destroyed in between.
WritableReported ==
  ~destroyed /\ ~Queued(MSG_WRITESTATE)
    => (writable # "NONE" <=> chWritable # {})

\* A candidate is never left behind: while the Transport holds one that it may
\* announce, a message that announces it is on its way.
HeldCandidatesAnnounced ==
  ~destroyed /\ connectRequested /\ held # <<>> => Queued(MSG_CANDIDATEREADY)

\* Each candidate is announced at most once, in the order they were gathered,
\* and none disappears except by ResetChannels.
AnnouncedOnceInOrder ==
  LET all == announced \o held
  IN /\ \A i, j \in DOMAIN all : i < j => all[i] < all[j]
     /\ Range(all) \cup dropped = 1..produced

\* A step that posts the end of gathering.
PostsComplete ==
  \E i \in DOMAIN signalingQueue' :
    /\ i > Len(signalingQueue)
    /\ signalingQueue'[i] = MSG_CANDIDATEALLOCATIONCOMPLETE

\* "If all channels belonging to this Transport got signal, then forward this
\* signal": the end of gathering is posted only when the allocation of every
\* channel is done, as long as no ICE restart or reset has made them start anew.
CompleteMeansGathered ==
  [][PostsComplete /\ restarts = 0 /\ resets = 0
       => Channels \subseteq signalled']_vars

\* A channel that asks for signaling gets to gather, though its request and
\* the answer travel through both queues among other messages.
EveryChannelGathers ==
  \A c \in Components : c \in waiting ~> c \notin waiting

-----------------------------------------------------------------------------
(* What a comment of the code says, and the code does not do.              *)

\* The same comment ("if all channels ... got signal, then forward this signal
\* to upper layer"), read the other way: once the allocation of every channel
\* is done, the upper layer is told.
Gathered == Channels # {} /\ waiting = {} /\ Channels \subseteq signalled
CompletionReported == Gathered ~> (reported \/ ~Gathered)

=============================================================================
