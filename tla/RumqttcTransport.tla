--------------------------- MODULE RumqttcTransport ---------------------------
(***************************************************************************)
(* RumqttcTransport (transport.rs) with the rumqttc client under it and    *)
(* the broker's end of the connection.                                     *)
(*                                                                         *)
(* subscribe, publish and disconnect put a request into a bounded channel  *)
(* and wait while it is full.  Only recv takes requests out: it polls the  *)
(* event loop, which sends them, reports a broken connection once as an    *)
(* error and connects again when it is polled after that, with the options *)
(* of the last connect.                                                    *)
(*                                                                         *)
(* rumqttc and the broker are modelled from how the adapter uses them.     *)
(* The broker publishes the will of a connection that ends without         *)
(* DISCONNECT when it notices, at the latest when the client comes back.   *)
(* The session does not survive a connection (clean start), so             *)
(* subscriptions are gone after one; requests that were not sent yet may   *)
(* be kept or dropped.  A QoS 1 publish is not sent a second time.         *)
(***************************************************************************)
EXTENDS Sparkplug

CONSTANT ChannelCapacity    \* RumqttcTransport.channel_capacity (256)

ASSUME CapacityAssumption == ChannelCapacity \in Nat

VARIABLES
    client,         \* the will in the options of client and eventloop, None before connect
    channel,        \* requests that recv has yet to send
    network,        \* has the event loop a network connection, as far as it knows?
    link,           \* is that connection alive?
    conn,           \* the broker's end: the will of the connection it holds, or None
    subscribed,     \* the filters subscribed on it
    published       \* observer: what the broker published in the last step

transportVars == <<client, channel, network, link, conn, subscribed, published>>

Subscribe(filter) == [type |-> "SUBSCRIBE", filter |-> filter]
DisconnectRequest == [type |-> "DISCONNECT"]

\* The broker ends the connection it holds of this client, and publishes its will.
WillOfOld == IF conn = None THEN << >> ELSE <<NodeDeath(conn)>>

-----------------------------------------------------------------------------
(* connect. *)

\* Fault: connect keeps the channel it finds.
FirstRequests_Kept(requests) == channel \o requests

\* A new client and event loop come with a channel of their own.
FirstRequests(requests) == requests

\* The CONNACK has come; `requests' is what the caller enqueues before the next recv.
TransportConnects(will, requests) ==
    /\ client' = will
    /\ channel' = FirstRequests(requests)
    /\ network' = TRUE
    /\ link' = TRUE
    /\ conn' = will
    /\ subscribed' = {}
    /\ published' = WillOfOld

\* connect returns Err and the client of an earlier connect stays.  An attempt that
\* a timeout drops after the broker has accepted it costs that client its connection.
TransportConnectFails(will) ==
    /\ \/ UNCHANGED <<link, conn, subscribed>> /\ published' = << >>
       \/ /\ link' = FALSE
          /\ conn' = will
          /\ subscribed' = {}
          /\ published' = WillOfOld
    /\ UNCHANGED <<client, channel, network>>

-----------------------------------------------------------------------------
(* subscribe, publish, disconnect. *)

HasRoom(n) == Len(channel) + n <= ChannelCapacity

Enqueue(requests) ==
    /\ client # None
    /\ HasRoom(Len(requests))
    /\ channel' = channel \o requests
    /\ published' = << >>
    /\ UNCHANGED <<client, network, link, conn, subscribed>>

-----------------------------------------------------------------------------
(* recv. *)

\* The event loop sends a request, which gets lost on a connection that is broken.
Transmit ==
    /\ network
    /\ channel # << >>
    /\ channel' = Tail(channel)
    /\ LET request == Head(channel) IN
       /\ published' = IF link /\ request.type \in MessageType THEN <<request>> ELSE << >>
       /\ subscribed' = IF link /\ request.type = "SUBSCRIBE"
                        THEN subscribed \cup {request.filter}
                        ELSE subscribed
       \* the broker ends the connection and forgets its will
       /\ IF link /\ request.type = "DISCONNECT"
          THEN conn' = None /\ link' = FALSE
          ELSE UNCHANGED <<conn, link>>
    /\ UNCHANGED <<client, network>>

\* poll, and with it recv, returns Err.
RecvFails ==
    /\ network
    /\ ~link
    /\ network' = FALSE
    /\ published' = << >>
    /\ UNCHANGED <<client, channel, link, conn, subscribed>>

\* The next recv: the event loop connects with the options it has.
Reconnect ==
    /\ client # None
    /\ ~network
    /\ network' = TRUE
    /\ link' = TRUE
    /\ conn' = client
    /\ subscribed' = {}
    /\ channel' \in {channel, << >>}
    /\ published' = WillOfOld
    /\ UNCHANGED client

-----------------------------------------------------------------------------
(* The environment. *)

LinkBreaks ==
    /\ link
    /\ link' = FALSE
    /\ published' = << >>
    /\ UNCHANGED <<client, channel, network, conn, subscribed>>

\* Keep alive expires, or the broker sees the connection closed.
BrokerNotices ==
    /\ conn # None
    /\ ~link
    /\ conn' = None
    /\ subscribed' = {}
    /\ published' = WillOfOld
    /\ UNCHANGED <<client, channel, network, link>>

ProcessDies ==
    /\ client' = None
    /\ channel' = << >>
    /\ network' = FALSE
    /\ link' = FALSE
    /\ published' = << >>
    /\ UNCHANGED <<conn, subscribed>>

TransportIdle ==
    /\ published' = << >>
    /\ UNCHANGED <<client, channel, network, link, conn, subscribed>>

\* RumqttcTransport::new.
TransportInit ==
    /\ client = None
    /\ channel = << >>
    /\ network = FALSE
    /\ link = FALSE
    /\ conn = None
    /\ subscribed = {}
    /\ published = << >>
=============================================================================
