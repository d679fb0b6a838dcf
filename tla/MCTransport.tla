---------------------------- MODULE MCTransport ----------------------------
(* Instances of Transport: the RTP and RTCP channels of one content.        *)
EXTENDS Transport
=============================================================================
