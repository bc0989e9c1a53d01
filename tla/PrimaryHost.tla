----------------------------- MODULE PrimaryHost -----------------------------
(***************************************************************************)
(* The STATE of a Host Application: the engine's start, its shutdown and   *)
(* its repair of the retained message, and the broker that retains it.     *)
(*                                                                         *)
(* The engine holds &mut self across every await, so what interleaves with *)
(* start and shutdown is the broker: the will of an earlier connection     *)
(* that it publishes only now, and the loss of the present one.  What the  *)
(* engine publishes comes back to it by its own subscription.              *)
(*                                                                         *)
(* External: the broker.  It orders the messages of a topic, keeps the     *)
(* last one for later subscribers and publishes the will of a connection   *)
(* that ends without a disconnect, at any later time.  The clock is taken  *)
(* not to go back, and two starts to be at least a millisecond apart.      *)
(*                                                                         *)
(* Bound: MaxTime, the last moment of the clock, which only start and      *)
(* shutdown read.                                                          *)
(***************************************************************************)
EXTENDS Integers, Sequences

CONSTANTS
    MaxTime,
    StartWhileOpen     \* may the application call start on a live connection?

ASSUME PrimaryHostAssumption == MaxTime \in Nat /\ StartWhileOpen \in BOOLEAN

VARIABLES
    now,           \* the host's clock
    state_ts,      \* HostApplication.state_ts
    phase,         \* where start or shutdown is suspended
    link,          \* the broker's side: is the connection up, and its will's
                   \* timestamp (0: this process has never connected)
    subscribed,    \* does the connection have its STATE subscription?
    inbox,         \* STATE messages on their way to the host
    retained,      \* the retained STATE: empty, or one message
    late_offlines, \* timestamps of wills the broker has yet to publish
    posted,        \* observer: what the broker handed out in the last step
    failed         \* observer: a call returned Err since the last start

broker == <<link, subscribed, inbox, retained, late_offlines>>
primaryVars == <<now, state_ts, phase, link, subscribed, inbox, retained,
                 late_offlines, posted, failed>>

Phase == {"idle", "connected", "subscribed", "leaving"}

StatePayload == [online : BOOLEAN, timestamp : Nat]
Online(ts) == [online |-> TRUE, timestamp |-> ts]
Offline(ts) == [online |-> FALSE, timestamp |-> ts]

NoLink == [open |-> FALSE, will |-> 0]

-----------------------------------------------------------------------------
(* The broker. *)

\* It hands m out: to the host as well, behind the messages in box.
HandOut(m, box) ==
    /\ posted' = <<m>>
    /\ retained' = <<m>>
    /\ inbox' = IF subscribed THEN Append(box, m) ELSE box

HandOutNothing(box) ==
    /\ posted' = << >>
    /\ inbox' = box
    /\ UNCHANGED retained

\* MqttTransport::publish returns Ok: a message on a dead connection is lost.
Post(m, box) ==
    /\ link.will # 0
    /\ IF link.open THEN HandOut(m, box) ELSE HandOutNothing(box)

\* The will of the present connection, when it ends without a disconnect.
WillsDue == IF link.open THEN late_offlines \cup {link.will} ELSE late_offlines

PublishWill ==
    /\ \E ts \in late_offlines :
          /\ late_offlines' = late_offlines \ {ts}
          /\ HandOut(Offline(ts), inbox)
    /\ UNCHANGED <<now, state_ts, phase, link, subscribed, failed>>

\* The connection is lost, perhaps with what was on its way to the host.
LinkLost ==
    /\ link.open
    /\ link' = [link EXCEPT !.open = FALSE]
    /\ late_offlines' = WillsDue
    /\ subscribed' = FALSE
    /\ \E box \in {inbox, << >>} : HandOutNothing(box)
    /\ UNCHANGED <<now, state_ts, phase, failed>>

-----------------------------------------------------------------------------
(* start. *)

MayStart ==
    /\ phase = "idle"
    /\ StartWhileOpen \/ ~link.open
    /\ now < MaxTime

ReadClock ==
    /\ now' = now + 1
    /\ state_ts' = now'

\* Fault: the will is made before the clock is read.
WillTs_Before == state_ts

WillTs == state_ts'

\* The transport refuses: no new connection, and an old one lives on.
StartRefused ==
    /\ MayStart
    /\ ReadClock
    /\ failed' = TRUE
    /\ HandOutNothing(inbox)
    /\ UNCHANGED <<phase, link, subscribed, late_offlines>>

\* The broker accepts, and lets go of an old connection of the same client.
StartConnects ==
    /\ MayStart
    /\ ReadClock
    /\ link' = [open |-> TRUE, will |-> WillTs]
    /\ late_offlines' = WillsDue
    /\ subscribed' = FALSE
    /\ phase' = "connected"
    /\ failed' = FALSE
    /\ HandOutNothing(<< >>)

\* The host's own STATE topic, and with it the retained message.
SubscribesToState ==
    /\ subscribed' = link.open
    /\ HandOutNothing(IF link.open THEN inbox \o retained ELSE inbox)

\* Then the data filters: start may fail before or after the STATE subscription.
StartSubscribes ==
    /\ phase = "connected"
    /\ \/ SubscribesToState /\ phase' = "subscribed" /\ UNCHANGED failed
       \/ /\ SubscribesToState \/ (HandOutNothing(inbox) /\ UNCHANGED subscribed)
          /\ phase' = "idle"
          /\ failed' = TRUE
    /\ UNCHANGED <<now, state_ts, link, late_offlines>>

\* Fault: each birth reads the clock again.
BirthTs_Clock == now

BirthTs == state_ts

\* publish_state_birth
StartAnnounces ==
    /\ phase = "subscribed"
    /\ phase' = "idle"
    /\ \/ Post(Online(BirthTs), inbox) /\ UNCHANGED failed
       \/ HandOutNothing(inbox) /\ failed' = TRUE
    /\ UNCHANGED <<now, state_ts, link, subscribed, late_offlines>>

-----------------------------------------------------------------------------
(* handle_incoming, for the host's own STATE, and shutdown. *)

\* Fault: the host takes no notice of its own STATE.
NeedsRepair_Never(m) == FALSE

NeedsRepair(m) == ~m.online

\* A repair that can not be published is not tried again.
HandleOwnState ==
    /\ phase = "idle"
    /\ inbox # << >>
    /\ IF NeedsRepair(Head(inbox))
       THEN \/ Post(Online(BirthTs), Tail(inbox)) /\ UNCHANGED failed
            \/ HandOutNothing(Tail(inbox)) /\ failed' = TRUE
       ELSE HandOutNothing(Tail(inbox)) /\ UNCHANGED failed
    /\ UNCHANGED <<now, state_ts, phase, link, subscribed, late_offlines>>

ShutdownPublishes ==
    /\ phase = "idle"
    /\ now' \in {now, now + 1} \cap 0 .. MaxTime
    /\ \/ /\ Post(Offline(now'), inbox)
          /\ phase' = "leaving"
          /\ UNCHANGED failed
       \/ /\ HandOutNothing(inbox)
          /\ failed' = TRUE
          /\ UNCHANGED phase
    /\ UNCHANGED <<state_ts, link, subscribed, late_offlines>>

\* A graceful disconnect: the broker discards the will.
ShutdownDisconnects ==
    /\ phase = "leaving"
    /\ phase' = "idle"
    /\ \/ /\ link' = [link EXCEPT !.open = FALSE]
          /\ subscribed' = FALSE
          /\ UNCHANGED failed
       \/ /\ failed' = TRUE
          /\ UNCHANGED <<link, subscribed>>
    /\ HandOutNothing(inbox)
    /\ UNCHANGED <<now, state_ts, late_offlines>>

\* The process dies at any point and starts again with HostApplication::new.
HostCrash ==
    /\ state_ts' = 0
    /\ phase' = "idle"
    /\ link' = NoLink
    /\ late_offlines' = WillsDue
    /\ subscribed' = FALSE
    /\ failed' = FALSE
    /\ HandOutNothing(<< >>)
    /\ UNCHANGED now

-----------------------------------------------------------------------------

PrimaryInit ==
    /\ now = 0
    /\ state_ts = 0
    /\ phase = "idle"
    /\ link = NoLink
    /\ subscribed = FALSE
    /\ inbox = << >>
    /\ retained = << >>
    /\ late_offlines = {}
    /\ posted = << >>
    /\ failed = FALSE

PrimaryNext ==
    \/ StartRefused
    \/ StartConnects
    \/ StartSubscribes
    \/ StartAnnounces
    \/ HandleOwnState
    \/ ShutdownPublishes
    \/ ShutdownDisconnects
    \/ PublishWill
    \/ LinkLost
    \/ HostCrash

PrimarySpec == PrimaryInit /\ [][PrimaryNext]_primaryVars
-----------------------------------------------------------------------------
(* Properties. *)

\* Every field holds a value its Rust type allows; a will and what is retained
\* carry a time at which a start or a shutdown read the clock (start, shutdown).
PrimaryTypeOK ==
    /\ now \in 0 .. MaxTime
    /\ state_ts \in 0 .. MaxTime
    /\ phase \in Phase
    /\ link \in [open : BOOLEAN, will : 0 .. MaxTime]
    /\ link.open => link.will # 0
    /\ subscribed \in BOOLEAN
    /\ inbox \in Seq(StatePayload)
    /\ retained \in Seq(StatePayload) /\ Len(retained) <= 1
    /\ late_offlines \subseteq 1 .. MaxTime
    /\ posted \in Seq(StatePayload)
    /\ failed \in BOOLEAN

\* A host that dies is never left online: behind a retained online STATE stands
\* a will with the same timestamp, on the live connection or due, so that no
\* subscriber that accepted the birth drops the death as stale (start,
\* publish_state_birth, shutdown).
OnlineHasWill ==
    \A i \in DOMAIN retained :
        retained[i].online =>
            \/ link.open /\ link.will = retained[i].timestamp
            \/ retained[i].timestamp \in late_offlines

\* The host has started, and nobody has failed since.
Started == phase = "idle" /\ link.open /\ ~failed

\* A host that is up is retained as online as soon as it has seen what the
\* broker handed out: late wills of earlier connections, during start and after
\* it, do not win (handle_incoming's repair).
Reasserted ==
    Started /\ inbox = << >> => retained = <<Online(state_ts)>>
=============================================================================
