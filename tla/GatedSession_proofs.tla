------------------------- MODULE GatedSession_proofs -------------------------
(***************************************************************************)
(* Proofs about GatedSession: it runs PrimaryHost unchanged, the gate      *)
(* agrees with the host once every STATE has arrived, and a node does not  *)
(* end the session of a host that is up.                                   *)
(***************************************************************************)
EXTENDS GatedSession, EdgeNode_proofs, PrimaryHost_proofs
-----------------------------------------------------------------------------
(* Strengthenings that make the properties inductive. *)

GatedTypeOK ==
    /\ TypeOK
    /\ PrimaryTypeOK
    /\ to_edge \in Seq(StatePayload)
    /\ edge_hears \in BOOLEAN
    /\ edge_failed \in BOOLEAN
    /\ edge_connects \in Nat

HostLives == link.open /\ ~failed /\ phase # "leaving"

\* The message is of the host's present start or an earlier one, and if it is a
\* death, of an earlier one.
Earlier(m) == m.timestamp <= state_ts /\ (~m.online => m.timestamp < state_ts)

\* Messages on their way to the node, and the one that a new subscription gets.
Carried == {to_edge[i] : i \in DOMAIN to_edge} \cup {retained[i] : i \in DOMAIN retained}

\* No timestamp is ahead of the clock, and while the host is up none is ahead of
\* its last start.
TimeInv ==
    /\ state_ts <= now
    /\ link.will <= now
    /\ \A ts \in late_offlines : ts <= now
    /\ last_state_ts # None => last_state_ts <= now
    /\ \A m \in Carried : m.timestamp <= now
    /\ HostLives =>
          /\ \A ts \in late_offlines : ts < state_ts
          /\ last_state_ts # None => last_state_ts <= state_ts
          /\ \A m \in Carried : Earlier(m)

\* The node is in its birth sequence or past it.
EdgeBorn == state = "Online" \/ birth # None

EdgeMode ==
    /\ edge_hears => session.open /\ state # "Disconnected"
    /\ birth # None => state = "WaitingForPrimaryHost"

\* The last message on its way to a node that listens is the retained one; when
\* none is, the node has acted on it, or was told of something later.
EdgeUpToDate ==
    edge_hears /\ ~edge_failed =>
        IF to_edge # << >>
        THEN retained = <<to_edge[Len(to_edge)]>>
        ELSE \A i \in DOMAIN retained :
                retained[i].online =>
                    \/ EdgeBorn
                    \/ last_state_ts # None /\ last_state_ts > retained[i].timestamp

\* The end of the host's connection of time ts will reach the node behind its
\* i-th message: the connection is up, its will is due, or a death is under way.
DeathFollows(ts, i) ==
    \/ link.open /\ phase # "leaving" /\ link.will = ts
    \/ ts \in late_offlines
    \/ \E j \in i + 1 .. Len(to_edge) :
          ~to_edge[j].online /\ to_edge[j].timestamp >= ts

EdgeIsTold ==
    edge_hears /\ ~edge_failed =>
        /\ EdgeBorn => last_state_ts # None /\ DeathFollows(last_state_ts, 0)
        /\ \A i \in DOMAIN to_edge :
              to_edge[i].online => DeathFollows(to_edge[i].timestamp, i)
-----------------------------------------------------------------------------
\* The STATEs that are handed out and the engine that hears them.
HostStep == PrimaryNext /\ Deliver

\* Every step is one of the host or its broker, whose messages the node gets,
\* or one of the node, which the host does not notice.
LEMMA StepsSplit ==
    ASSUME GatedNext
    PROVE  \/ HostStep
           \/ /\ UNCHANGED primaryVars
              /\ EdgeConnects \/ EdgeHandlesState \/ EdgePublishesBirth
                 \/ EdgeDisconnects \/ EdgeFails
BY DEF GatedNext, HostCalls, HostRuns, HostFails, WillPublished, HostStep, PrimaryNext,
       EdgeConnects, EdgeHandlesState, EdgePublishesBirth, EdgeDisconnects, EdgeFails,
       HostIdle

\* Beside the node, the host and its broker behave as PrimaryHost says.
LEMMA PrimaryStep == [GatedNext]_gatedVars => [PrimaryNext]_primaryVars
BY StepsSplit DEF HostStep, gatedVars

\* Beside the node, the host and its broker behave as PrimaryHost says
\* (HostApplication::start, shutdown, handle_incoming).
THEOREM GatedRunsPrimary == GatedSpec => PrimarySpec
<1>1. GatedInit => PrimaryInit
  BY DEF GatedInit
<1> QED
  BY <1>1, PrimaryStep, PTL DEF GatedSpec, PrimarySpec

\* The host's STATE machinery stays well typed beside the node.
THEOREM GatedPrimaryTypeCorrect == GatedSpec => []PrimaryTypeOK
BY GatedRunsPrimary, PrimaryTypeCorrect, PTL

\* A host that dies is never left online, beside any node (publish_state_birth,
\* shutdown).
THEOREM GatedOnlineHasWill ==
    ASSUME ~StartWhileOpen
    PROVE  GatedSpec => []OnlineHasWill
BY GatedRunsPrimary, OnlineHasWillHolds, PTL

\* A host that is up is retained as online once it has heard all, beside any
\* node (handle_incoming's repair).
THEOREM GatedReasserted == GatedSpec => []Reasserted
BY GatedRunsPrimary, ReassertedHolds, PTL
-----------------------------------------------------------------------------
(* Type correctness. *)

\* The broker hands out well formed messages.
LEMMA PostedType ==
    ASSUME PrimaryTypeOK, PrimaryNext
    PROVE  posted' \in Seq(StatePayload) /\ PrimaryTypeOK'
BY PrimaryTypeStep DEF PrimaryTypeOK

\* A step that leaves the node's engine alone leaves it typed.
LEMMA EdgeIdleType == TypeOK /\ EdgeIdle => TypeOK'
BY QuietType DEF EdgeIdle, TypeOK, fields

\* A step of the node's engine keeps it typed.
LEMMA EdgeStepType == TypeOK /\ Next => TypeOK'
BY TypeOKStep

\* What is carried is well formed.
LEMMA CarriedType ==
    ASSUME GatedTypeOK
    PROVE  Carried \subseteq StatePayload /\ \A m \in Carried : m.timestamp \in Nat
<1>1. to_edge \in Seq(StatePayload) /\ retained \in Seq(StatePayload)
  BY DEF GatedTypeOK, PrimaryTypeOK
<1>2. /\ \A i \in DOMAIN to_edge : to_edge[i] \in StatePayload
      /\ \A i \in DOMAIN retained : retained[i] \in StatePayload
  BY <1>1
<1> QED
  BY <1>2 DEF Carried, StatePayload

\* A message on its way to the node is at a time that STATEs have.
LEMMA HeadTyped ==
    ASSUME GatedTypeOK, TimeInv, to_edge # << >>
    PROVE  /\ Head(to_edge) = to_edge[1] /\ 1 \in DOMAIN to_edge
           /\ Head(to_edge) \in StatePayload
           /\ Head(to_edge).timestamp \in Timestamps \cap Nat
           /\ Tail(to_edge) \in Seq(StatePayload)
           /\ Len(Tail(to_edge)) = Len(to_edge) - 1
           /\ \A i \in 1 .. Len(Tail(to_edge)) : Tail(to_edge)[i] = to_edge[i + 1]
<1>1. to_edge \in Seq(StatePayload) /\ now \in 0 .. MaxTime
  BY DEF GatedTypeOK, PrimaryTypeOK
<1>2. /\ Head(to_edge) = to_edge[1] /\ Tail(to_edge) \in Seq(StatePayload)
      /\ Len(Tail(to_edge)) = Len(to_edge) - 1
      /\ \A i \in 1 .. Len(Tail(to_edge)) : Tail(to_edge)[i] = to_edge[i + 1]
  BY <1>1, HeadTailProperties
<1>3. 1 \in DOMAIN to_edge
  BY <1>1, EmptySeq
<1>4. to_edge[1] \in StatePayload
  BY <1>1, <1>3
<1>5. to_edge[1] \in Carried
  BY <1>3 DEF Carried
<1>6. to_edge[1].timestamp <= now /\ to_edge[1].timestamp \in Nat
  BY <1>5, CarriedType DEF TimeInv
<1>7. to_edge[1].timestamp \in 0 .. MaxTime
  BY <1>1, <1>6, PrimaryHostAssumption
<1> QED
  BY <1>2, <1>3, <1>4, <1>7, GatedAssumption

LEMMA GatedTypeStep ==
    ASSUME GatedTypeOK, TimeInv, [GatedNext]_gatedVars
    PROVE  GatedTypeOK'
<1>1. CASE HostStep
  <2>1. posted' \in Seq(StatePayload) /\ PrimaryTypeOK'
    BY <1>1, PostedType DEF HostStep, GatedTypeOK
  <2>2. to_edge' \in Seq(StatePayload)
    BY <1>1, <2>1 DEF HostStep, Deliver, GatedTypeOK
  <2>3. TypeOK'
    BY <1>1, EdgeIdleType DEF HostStep, Deliver, GatedTypeOK
  <2> QED
    BY <1>1, <2>1, <2>2, <2>3 DEF HostStep, Deliver, GatedTypeOK
<1>2. ASSUME UNCHANGED primaryVars
      PROVE  PrimaryTypeOK'
  BY <1>2, PrimaryTypeStep DEF GatedTypeOK
<1>3. CASE UNCHANGED primaryVars /\ EdgeConnects
  <2>1. TypeOK'
    BY <1>3, EdgeStepType DEF EdgeConnects, Next, Connect, GatedTypeOK
  <2>2. to_edge' \in Seq(StatePayload)
    BY <1>3, EmptyQueue DEF EdgeConnects, GatedTypeOK, PrimaryTypeOK
  <2>3. edge_hears' \in BOOLEAN /\ edge_failed' \in BOOLEAN
    BY <1>3, Zenon DEF EdgeConnects
  <2>4. edge_connects' \in Nat
    BY <1>3 DEF EdgeConnects, GatedTypeOK
  <2> QED
    BY <1>2, <1>3, <2>1, <2>2, <2>3, <2>4 DEF GatedTypeOK
<1>4. CASE UNCHANGED primaryVars /\ EdgeHandlesState
  <2>1. /\ Head(to_edge).timestamp \in Timestamps
        /\ to_edge' \in Seq(StatePayload)
    BY <1>4, HeadTyped DEF EdgeHandlesState
  <2>2. EdgeIdle \/ Next
    BY <1>4, <2>1 DEF EdgeHandlesState, Next
  <2>3. TypeOK'
    BY <2>2, EdgeIdleType, EdgeStepType DEF GatedTypeOK
  <2>4. edge_hears' \in BOOLEAN /\ edge_failed' \in BOOLEAN /\ edge_connects' \in Nat
    BY <1>4, Zenon DEF EdgeHandlesState, GatedTypeOK
  <2> QED
    BY <1>2, <1>4, <2>1, <2>3, <2>4 DEF GatedTypeOK
<1>5. CASE UNCHANGED primaryVars /\ EdgePublishesBirth
  <2>1. TypeOK'
    BY <1>5, EdgeStepType DEF EdgePublishesBirth, Next, Publish, GatedTypeOK
  <2>2. edge_hears' \in BOOLEAN /\ edge_failed' \in BOOLEAN
    BY <1>5, Zenon DEF EdgePublishesBirth, GatedTypeOK
  <2> QED
    BY <1>2, <1>5, <2>1, <2>2 DEF EdgePublishesBirth, GatedTypeOK
<1>6. CASE UNCHANGED primaryVars /\ EdgeDisconnects
  <2>1. TypeOK'
    BY <1>6, EdgeStepType DEF EdgeDisconnects, Next, GatedTypeOK
  <2>2. edge_hears' \in BOOLEAN /\ edge_failed' \in BOOLEAN
    BY <1>6, Zenon DEF EdgeDisconnects, GatedTypeOK
  <2> QED
    BY <1>2, <1>6, <2>1, <2>2 DEF EdgeDisconnects, GatedTypeOK
<1>7. CASE UNCHANGED primaryVars /\ EdgeFails
  <2>1. TypeOK'
    BY <1>7, EdgeStepType DEF EdgeFails, Next, Environment, GatedTypeOK
  <2>2. to_edge' \in Seq(StatePayload)
    BY <1>7, EmptyQueue DEF EdgeFails, GatedTypeOK
  <2> QED
    BY <1>2, <1>7, <2>1, <2>2 DEF EdgeFails, GatedTypeOK
<1>8. CASE UNCHANGED gatedVars
  <2>1. TypeOK' /\ UNCHANGED primaryVars /\ UNCHANGED edgeSide
    BY <1>8, TypeOKStep DEF gatedVars, GatedTypeOK
  <2> QED
    BY <1>2, <2>1 DEF GatedTypeOK, edgeSide
<1> QED
  BY <1>1, <1>3, <1>4, <1>5, <1>6, <1>7, <1>8, StepsSplit

-----------------------------------------------------------------------------
(* What a step of the host or its broker does to the link and the wills. *)

\* It posts one message: a will that was due, the host's birth on a connection
\* that stays up, or its death on one that it is about to close.
PostsWill ==
    \E ts \in late_offlines :
        /\ posted' = <<Offline(ts)>> /\ retained' = posted'
        /\ late_offlines' = late_offlines \ {ts}
        /\ UNCHANGED <<now, state_ts, link, phase, failed>>

PostsBirth ==
    /\ link.open
    /\ posted' = <<Online(state_ts)>> /\ retained' = posted'
    /\ phase # "leaving" /\ phase' # "leaving"
    /\ UNCHANGED <<now, state_ts, link, late_offlines, failed>>

PostsDeath ==
    /\ link.open /\ phase # "leaving" /\ phase' = "leaving"
    /\ now' \in Nat /\ now <= now'
    /\ posted' = <<Offline(now')>> /\ retained' = posted'
    /\ UNCHANGED <<state_ts, link, late_offlines, failed>>

PostsNothing == posted' = << >> /\ retained' = retained

\* Or nothing, and the connection begins, ends, or stays as it is.
LinkBegins ==
    /\ ~link.open
    /\ now' = now + 1 /\ state_ts' = now'
    /\ link' = [open |-> TRUE, will |-> now']
    /\ late_offlines' = late_offlines

LinkEnds ==
    /\ ~link'.open /\ late_offlines' = WillsDue
    /\ link'.will \in {0, link.will}
    /\ now' = now /\ state_ts' \in {0, state_ts}

LinkClosed ==
    /\ phase = "leaving" /\ ~link'.open
    /\ link'.will = link.will
    /\ UNCHANGED <<now, state_ts, late_offlines>>

LinkStays ==
    /\ UNCHANGED <<link, late_offlines>>
    /\ now' \in Nat /\ now <= now'
    /\ link.open => state_ts' = state_ts
    /\ state_ts' = state_ts \/ state_ts' = now'
    /\ failed => failed'
    /\ link.open /\ phase # "leaving" => phase' # "leaving"
    /\ link.open /\ phase = "leaving" => phase' = "leaving" \/ failed'

\* These are all the ways there are.
LEMMA HostMoves ==
    ASSUME PrimaryTypeOK, PrimaryNext, ~StartWhileOpen
    PROVE  \/ PostsWill \/ PostsBirth \/ PostsDeath
           \/ PostsNothing /\ (LinkBegins \/ LinkEnds \/ LinkClosed \/ LinkStays)
<1> USE PrimaryHostAssumption
<1>t. now \in Nat /\ link \in [open : BOOLEAN, will : 0 .. MaxTime]
  BY DEF PrimaryTypeOK
<1>1. CASE StartRefused
  BY <1>1, <1>t DEF StartRefused, MayStart, ReadClock, HandOutNothing, PostsNothing, LinkStays
<1>2. CASE StartConnects
  BY <1>2, <1>t
  DEF StartConnects, MayStart, ReadClock, HandOutNothing, WillTs, WillsDue, PostsNothing, LinkBegins
<1>3. CASE StartSubscribes
  BY <1>3, <1>t DEF StartSubscribes, SubscribesToState, HandOutNothing, PostsNothing, LinkStays
<1>4. CASE StartAnnounces
  BY <1>4, <1>t
  DEF StartAnnounces, Post, HandOut, HandOutNothing, BirthTs, PostsBirth, PostsNothing, LinkStays
<1>5. CASE HandleOwnState
  BY <1>5, <1>t
  DEF HandleOwnState, Post, HandOut, HandOutNothing, BirthTs, PostsBirth, PostsNothing, LinkStays
<1>6. CASE ShutdownPublishes
  <2>1. now' \in Nat /\ now <= now'
    BY <1>6, <1>t DEF ShutdownPublishes
  <2> QED
    BY <1>6, <1>t, <2>1
    DEF ShutdownPublishes, Post, HandOut, HandOutNothing, PostsDeath, PostsNothing, LinkStays
<1>7. CASE ShutdownDisconnects
  BY <1>7, <1>t DEF ShutdownDisconnects, HandOutNothing, PostsNothing, LinkClosed, LinkStays
<1>8. CASE PublishWill
  BY <1>8 DEF PublishWill, HandOut, PostsWill
<1>9. CASE LinkLost
  BY <1>9, <1>t DEF LinkLost, HandOutNothing, PostsNothing, LinkEnds
<1>10. CASE HostCrash
  BY <1>10, <1>t DEF HostCrash, NoLink, HandOutNothing, PostsNothing, LinkEnds
<1> QED
  BY <1>1, <1>2, <1>3, <1>4, <1>5, <1>6, <1>7, <1>8, <1>9, <1>10 DEF PrimaryNext
-----------------------------------------------------------------------------
(* Time. *)

\* What the broker hands out arrives behind what was under way, if the node
\* hears it.
LEMMA Delivered ==
    ASSUME to_edge \in Seq(StatePayload), Deliver, NEW m \in StatePayload, posted' = <<m>>
    PROVE  /\ to_edge' = to_edge \/ to_edge' = Append(to_edge, m)
           /\ edge_hears => to_edge' = Append(to_edge, m)
BY DEF Deliver

\* Nothing else arrives.
LEMMA NothingDelivered ==
    ASSUME to_edge \in Seq(StatePayload), Deliver, posted' = << >>
    PROVE  to_edge' = to_edge
BY DEF Deliver

\* A queue with a message at its end.
LEMMA AppendEntries ==
    ASSUME NEW box \in Seq(StatePayload), NEW m \in StatePayload
    PROVE  /\ Append(box, m) \in Seq(StatePayload)
           /\ Len(Append(box, m)) = Len(box) + 1 /\ DOMAIN box = 1 .. Len(box)
           /\ Append(box, m)[Len(box) + 1] = m
           /\ \A i \in DOMAIN box : Append(box, m)[i] = box[i]
           /\ DOMAIN Append(box, m) = DOMAIN box \cup {Len(box) + 1}
OBVIOUS

\* A step of the host adds at most what it posts to what is carried.
LEMMA CarriedByHost ==
    ASSUME GatedTypeOK, HostStep
    PROVE  /\ PostsNothing => Carried' = Carried
           /\ \A m \in StatePayload :
                 posted' = <<m>> /\ retained' = posted' => Carried' \subseteq Carried \cup {m}
<1>1. Deliver /\ to_edge \in Seq(StatePayload)
  BY DEF HostStep, GatedTypeOK
<1>2. ASSUME PostsNothing PROVE Carried' = Carried
  BY <1>1, <1>2, NothingDelivered DEF PostsNothing, Carried
<1>3. ASSUME NEW m \in StatePayload, posted' = <<m>>, retained' = posted'
      PROVE  Carried' \subseteq Carried \cup {m}
  <2>1. to_edge' = to_edge \/ to_edge' = Append(to_edge, m)
    BY <1>1, <1>3, Delivered
  <2>2. {to_edge'[i] : i \in DOMAIN to_edge'} \subseteq {to_edge[i] : i \in DOMAIN to_edge} \cup {m}
    BY <1>1, <2>1, AppendEntries
  <2>3. {retained'[i] : i \in DOMAIN retained'} = {m}
    BY <1>3
  <2> QED
    BY <2>2, <2>3 DEF Carried
<1> QED
  BY <1>2, <1>3

\* Every step of the host or its broker keeps the times in order.
LEMMA TimeHostStep ==
    ASSUME GatedTypeOK, LinkInv, TimeInv, HostStep, ~StartWhileOpen
    PROVE  TimeInv'
<1>t. /\ now \in Nat /\ state_ts \in Nat /\ late_offlines \subseteq Nat
      /\ link.will \in Nat /\ \A m \in Carried : m.timestamp \in Nat /\ m \in StatePayload
      /\ last_state_ts \in Nat \cup {None}
  <2>1. last_state_ts \in Nat \cup {None}
    BY EdgeNodeAssumption DEF GatedTypeOK, TypeOK
  <2>2. link.will \in Nat /\ late_offlines \subseteq Nat
    BY PrimaryHostAssumption DEF GatedTypeOK, PrimaryTypeOK
  <2> QED
    BY <2>1, <2>2, CarriedType, PrimaryHostAssumption DEF GatedTypeOK, PrimaryTypeOK
<1>u. last_state_ts' = last_state_ts
  BY DEF HostStep, Deliver, EdgeIdle, fields
<1>v. /\ state_ts <= now /\ link.will <= now
      /\ \A ts \in late_offlines : ts <= now
      /\ last_state_ts # None => last_state_ts <= now
      /\ \A m \in Carried : m.timestamp <= now
      /\ HostLives =>
            /\ \A ts \in late_offlines : ts < state_ts
            /\ last_state_ts # None => last_state_ts <= state_ts
            /\ \A m \in Carried : Earlier(m)
  BY DEF TimeInv
<1>1. CASE PostsWill
  <2>1. PICK ts \in late_offlines :
            /\ posted' = <<Offline(ts)>> /\ retained' = posted'
            /\ late_offlines' = late_offlines \ {ts}
            /\ UNCHANGED <<now, state_ts, link, phase, failed>>
    BY <1>1 DEF PostsWill
  <2>2. Offline(ts) \in StatePayload /\ Offline(ts).timestamp = ts /\ ~Offline(ts).online
    BY <1>t, PayloadType DEF Offline
  <2>3. Carried' \subseteq Carried \cup {Offline(ts)}
    BY <2>1, <2>2, CarriedByHost
  <2>4. HostLives' = HostLives /\ \A m : Earlier(m)' = Earlier(m)
    BY <2>1 DEF HostLives, Earlier
  <2>5. ts <= now /\ (HostLives => Earlier(Offline(ts)))
    BY <1>t, <1>v, <2>2 DEF Earlier
  <2> QED
    BY <1>u, <1>v, <2>1, <2>2, <2>3, <2>4, <2>5 DEF TimeInv
<1>2. CASE PostsBirth
  <2>1. Online(state_ts) \in StatePayload /\ Online(state_ts).timestamp = state_ts /\ Online(state_ts).online
    BY <1>t, PayloadType DEF Online
  <2>2. Carried' \subseteq Carried \cup {Online(state_ts)}
    BY <1>2, <2>1, CarriedByHost DEF PostsBirth
  <2>3. (HostLives' => HostLives) /\ \A m : Earlier(m)' = Earlier(m)
    BY <1>2 DEF PostsBirth, HostLives, Earlier
  <2>4. Earlier(Online(state_ts))
    BY <1>t, <2>1 DEF Earlier
  <2>5. UNCHANGED <<now, state_ts, link, late_offlines>>
    BY <1>2 DEF PostsBirth
  <2> QED
    BY <1>u, <1>v, <2>1, <2>2, <2>3, <2>4, <2>5 DEF TimeInv
<1>3. CASE PostsDeath
  <2>1. /\ now' \in Nat /\ now <= now'
        /\ UNCHANGED <<state_ts, link, late_offlines>> /\ ~HostLives'
    BY <1>3 DEF PostsDeath, HostLives
  <2>2. Offline(now') \in StatePayload /\ Offline(now').timestamp = now'
    BY <2>1, PayloadType DEF Offline
  <2>3. PICK death \in StatePayload : death = Offline(now') /\ death.timestamp = now'
    BY <2>2
  <2>4. Carried' \subseteq Carried \cup {death}
    BY <1>3, <2>3, CarriedByHost DEF PostsDeath
  <2>5. /\ state_ts <= now' /\ link.will <= now'
        /\ \A ts \in late_offlines : ts <= now'
        /\ last_state_ts # None => last_state_ts <= now'
        /\ \A m \in Carried \cup {death} : m.timestamp <= now'
    BY <1>t, <1>v, <2>1, <2>3
  <2> QED
    BY <1>u, <2>1, <2>4, <2>5 DEF TimeInv
<1>4. CASE PostsNothing /\ (LinkBegins \/ LinkEnds \/ LinkClosed \/ LinkStays)
  <2>1. Carried' = Carried
    BY <1>4, CarriedByHost
  <2>2. CASE LinkBegins
    <3>1. /\ now' = now + 1 /\ state_ts' = now + 1 /\ link'.will = now + 1
          /\ late_offlines' = late_offlines
      BY <2>2 DEF LinkBegins
    <3>2. \A m \in Carried : m.timestamp <= now + 1 /\ m.timestamp < now + 1
      BY <1>t, <1>v
    <3>3. \A m \in Carried : Earlier(m)'
      BY <3>1, <3>2 DEF Earlier
    <3>4. /\ \A ts \in late_offlines : ts <= now + 1 /\ ts < now + 1
          /\ last_state_ts # None => last_state_ts <= now + 1
          /\ now + 1 <= now + 1
      BY <1>t, <1>v
    <3> QED
      BY <1>u, <2>1, <3>1, <3>2, <3>3, <3>4 DEF TimeInv
  <2>3. CASE LinkEnds
    <3>1. /\ ~HostLives' /\ late_offlines' \subseteq late_offlines \cup {link.will}
          /\ link'.will \in {0, link.will}
          /\ now' = now /\ state_ts' \in {0, state_ts}
      BY <2>3 DEF LinkEnds, HostLives, WillsDue
    <3>2. 0 <= now
      BY <1>t
    <3> QED
      BY <1>u, <1>v, <2>1, <3>1, <3>2 DEF TimeInv
  <2>4. CASE LinkClosed
    <3>1. ~HostLives' /\ UNCHANGED <<now, state_ts, late_offlines>> /\ link'.will = link.will
      BY <2>4 DEF LinkClosed, HostLives
    <3> QED
      BY <1>u, <1>v, <2>1, <3>1 DEF TimeInv
  <2>5. CASE LinkStays
    <3>1. /\ UNCHANGED <<link, late_offlines>> /\ now' \in Nat /\ now <= now'
          /\ state_ts' = state_ts \/ state_ts' = now'
      BY <2>5 DEF LinkStays
    <3>2. HostLives' => HostLives /\ state_ts' = state_ts
      BY <2>5 DEF LinkStays, HostLives
    <3>3. /\ state_ts' <= now' /\ link.will <= now'
          /\ \A ts \in late_offlines : ts <= now'
          /\ last_state_ts # None => last_state_ts <= now'
          /\ \A m \in Carried : m.timestamp <= now'
      BY <1>t, <1>v, <3>1
    <3>4. HostLives' => \A m \in Carried : Earlier(m)'
      BY <1>v, <3>2 DEF Earlier
    <3> QED
      BY <1>u, <1>v, <2>1, <3>1, <3>2, <3>3, <3>4 DEF TimeInv
  <2> QED
    BY <1>4, <2>2, <2>3, <2>4, <2>5
<1> QED
  BY <1>1, <1>2, <1>3, <1>4, HostMoves DEF HostStep, GatedTypeOK

\* A step of the node adds no time of its own.
LEMMA TimeEdgeStep ==
    ASSUME TimeInv, UNCHANGED primaryVars, Carried' \subseteq Carried,
           last_state_ts' \in {None, last_state_ts} \cup {m.timestamp : m \in Carried}
    PROVE  TimeInv'
<1>1. /\ UNCHANGED <<now, state_ts, link, late_offlines, phase, failed>>
      /\ HostLives' = HostLives /\ \A m : Earlier(m)' = Earlier(m)
  BY DEF primaryVars, HostLives, Earlier
<1>2. last_state_ts' # None => last_state_ts' <= now
  BY DEF TimeInv
<1>3. HostLives => (last_state_ts' # None => last_state_ts' <= state_ts)
  BY DEF TimeInv, Earlier
<1> QED
  BY <1>1, <1>2, <1>3 DEF TimeInv

-----------------------------------------------------------------------------
(* What a step of the node does to its mode. *)

\* The node drops a STATE that is stale to it, is or starts to be born for an
\* online one, and ends its session, fails to, or goes on waiting for an offline
\* one.
NodeDrops(m) ==
    /\ last_state_ts # None /\ m.timestamp < last_state_ts
    /\ UNCHANGED <<state, birth, session, last_state_ts>>

NodeAccepts(m) ==
    /\ last_state_ts = None \/ last_state_ts <= m.timestamp
    /\ last_state_ts' = m.timestamp

NodeGoesOn(m) ==
    /\ m.online /\ NodeAccepts(m)
    /\ UNCHANGED <<state, session>>
    /\ state = "WaitingForPrimaryHost" => birth' # None
    /\ state # "WaitingForPrimaryHost" => birth' = None

NodeEnds(m) ==
    /\ ~m.online /\ NodeAccepts(m)
    /\ birth' = None
    /\ \/ state # "Online" /\ UNCHANGED <<state, session>>
       \/ state = "Online" /\ state' = "Disconnected" /\ ~session'.open
       \/ state = "Online" /\ UNCHANGED <<state, session>> /\ edge_failed'

LEMMA NodeHandles ==
    ASSUME GatedTypeOK, TimeInv, EdgeHandlesState, NEW m, m = Head(to_edge)
    PROVE  /\ birth = None /\ (edge_failed => edge_failed')
           /\ edge_hears' = (edge_hears /\ session'.open)
           /\ NodeDrops(m) \/ NodeGoesOn(m) \/ NodeEnds(m)
<1>t. /\ m.timestamp \in Nat /\ m.online \in BOOLEAN
      /\ last_state_ts \in Nat \cup {None} /\ None \notin Nat
      /\ session \in [open : BOOLEAN, will : BdSeqs \cup {None}]
  <2>1. to_edge # << >>
    BY DEF EdgeHandlesState
  <2>2. m \in StatePayload /\ m.timestamp \in Nat
    BY <2>1, HeadTyped
  <2>3. last_state_ts \in Nat \cup {None} /\ session \in [open : BOOLEAN, will : BdSeqs \cup {None}]
    BY EdgeNodeAssumption DEF GatedTypeOK, TypeOK
  <2> QED
    BY <2>2, <2>3, SparkplugAssumption DEF StatePayload
<1>1. /\ edge_hears' = (edge_hears /\ session'.open)
      /\ edge_failed => edge_failed'
      /\ ~m.online /\ state' = "Online" /\ ~Stale(m.timestamp) => edge_failed'
      /\ \/ Idle /\ Stale(m.timestamp) /\ EdgeIdle
         \/ m.online /\ HandleHostOnline(m.timestamp)
         \/ ~m.online /\ HandleHostOffline(m.timestamp)
  BY Zenon DEF EdgeHandlesState
<1>2. Stale(m.timestamp) \/ last_state_ts = None \/ last_state_ts <= m.timestamp
  BY <1>t DEF Stale
<1>3. CASE Idle /\ Stale(m.timestamp) /\ EdgeIdle
  <2>1. NodeDrops(m)
    BY <1>3 DEF Stale, EdgeIdle, fields, NodeDrops
  <2> QED
    BY <1>1, <1>3, <2>1 DEF Idle
<1>4. CASE m.online /\ HandleHostOnline(m.timestamp)
  <2>1. birth = None /\ ~Stale(m.timestamp) /\ last_state_ts' = m.timestamp
        /\ UNCHANGED <<state, session>>
    BY <1>4 DEF HandleHostOnline, Idle
  <2>2. state = "WaitingForPrimaryHost" => birth' = [at |-> 0, by |-> "state"]
    BY <1>4 DEF HandleHostOnline, StartBirths
  <2>3. state # "WaitingForPrimaryHost" => birth' = birth
    BY <1>4 DEF HandleHostOnline
  <2>4. [at |-> 0, by |-> "state"] # None
    <3>1. [at |-> 0, by |-> "state"] \in BirthProgress
      BY SparkplugAssumption DEF BirthProgress, Caller
    <3> QED
      BY <3>1, BirthAssumption
  <2>5. NodeGoesOn(m)
    BY <1>2, <1>4, <2>1, <2>2, <2>3, <2>4 DEF NodeGoesOn, NodeAccepts
  <2> QED
    BY <1>1, <2>1, <2>5
<1>5. CASE ~m.online /\ HandleHostOffline(m.timestamp)
  <2>1. birth = None /\ ~Stale(m.timestamp) /\ last_state_ts' = m.timestamp /\ birth' = birth
    BY <1>5 DEF HandleHostOffline, Idle
  <2>2. \/ state # "Online" /\ UNCHANGED <<state, session>>
        \/ state = "Online" /\ (DisconnectOk \/ DisconnectFails)
    BY <1>5 DEF HandleHostOffline
  <2>3. DisconnectOk => state' = "Disconnected" /\ ~session'.open
    BY <1>t DEF DisconnectOk
  <2>4. DisconnectFails => UNCHANGED <<state, session>>
    BY DEF DisconnectFails
  <2>5. NodeEnds(m)
    BY <1>1, <1>2, <1>5, <2>1, <2>2, <2>3, <2>4 DEF NodeEnds, NodeAccepts
  <2> QED
    BY <1>1, <2>1, <2>5
<1> QED
  BY <1>1, <1>3, <1>4, <1>5

\* A birth that is published without an error leaves the node born, or at it.
LEMMA NodePublishesBirth ==
    ASSUME TypeOK, EdgePublishesBirth
    PROVE  /\ birth # None /\ UNCHANGED <<session, last_state_ts>>
           /\ \/ birth' # None /\ state' = state
              \/ birth' = None /\ state' = "Online"
              \/ birth' = None /\ state' = state /\ (state # "Online" => edge_failed')
<1>1. /\ PublishNodeBirth \/ PublishDeviceBirth
      /\ birth' = None /\ state' # "Online" => edge_failed'
  BY Zenon DEF EdgePublishesBirth
<1>2. /\ birth # None /\ UNCHANGED <<session, last_state_ts>>
      /\ BirthPublished \/ BirthFailed
  BY <1>1 DEF PublishNodeBirth, PublishDeviceBirth, Idle
<1>3. birth \in BirthProgress
  BY <1>2 DEF TypeOK
<1>4. birth.at < Len(DeviceList) => [birth EXCEPT !.at = @ + 1] \in BirthProgress
  BY <1>3, SparkplugAssumption DEF BirthProgress
<1>5. CASE BirthPublished /\ birth.at < Len(DeviceList)
  BY <1>2, <1>4, <1>5, BirthAssumption DEF BirthPublished
<1>6. CASE BirthPublished /\ ~(birth.at < Len(DeviceList))
  BY <1>2, <1>6 DEF BirthPublished, BirthsDone
<1>7. CASE BirthFailed
  BY <1>1, <1>2, <1>7 DEF BirthFailed
<1> QED
  BY <1>2, <1>5, <1>6, <1>7

\* A disconnect that returns Ok ends the connection, any other is a failure.
LEMMA NodeDisconnects ==
    ASSUME TypeOK, EdgeDisconnects
    PROVE  /\ birth = None /\ birth' = None /\ last_state_ts' = last_state_ts
           /\ edge_hears' = (edge_hears /\ session'.open)
           /\ \/ state' = "Disconnected" /\ ~session'.open
              \/ UNCHANGED <<state, session>> /\ edge_failed'
<1>1. /\ Idle /\ UNCHANGED <<birth, last_state_ts>>
      /\ DisconnectOk \/ DisconnectFails
  BY DEF EdgeDisconnects, Disconnect
<1>2. /\ edge_hears' = (edge_hears /\ session'.open)
      /\ ~lifecycle_ok' => edge_failed'
  BY Zenon DEF EdgeDisconnects
<1>3. DisconnectOk => state' = "Disconnected" /\ ~session'.open
  BY DEF DisconnectOk, TypeOK
<1>4. DisconnectFails => UNCHANGED <<state, session>> /\ edge_failed'
  BY <1>2 DEF DisconnectFails
<1> QED
  BY <1>1, <1>2, <1>3, <1>4 DEF Idle

\* A connect ends waiting, with the retained STATE on its way, or unheard.
LEMMA NodeConnects ==
    ASSUME TypeOK, EdgeConnects
    PROVE  /\ birth = None /\ birth' = None /\ last_state_ts' = last_state_ts
           /\ \/ /\ state' = "WaitingForPrimaryHost" /\ session'.open
                 /\ to_edge' = retained
              \/ ~edge_hears' /\ to_edge' = << >> /\ state' = state
<1>1. CASE ConnectAndWait
  BY <1>1 DEF EdgeConnects, ConnectAndWait, ConnectSubscribeFails, MayConnect, Idle, Open
<1>2. CASE ConnectSubscribeFails
  BY <1>2 DEF EdgeConnects, ConnectAndWait, ConnectSubscribeFails, MayConnect, Idle, Open
<1> QED
  BY <1>1, <1>2 DEF EdgeConnects

\* A node that fails no longer listens.
LEMMA NodeFails ==
    ASSUME TypeOK, EdgeFails
    PROVE  /\ ~edge_hears' /\ last_state_ts' \in {None, last_state_ts}
           /\ to_edge' \in {to_edge, << >>}
           /\ birth' \in {None, birth} /\ (birth' # None => state' = state)
BY DEF EdgeFails, ConnectionLost, Crash, fields

\* The host's steps leave the node as it is.
LEMMA NodeIdles ==
    ASSUME HostStep
    PROVE  /\ state' = state /\ birth' = birth /\ session' = session
           /\ last_state_ts' = last_state_ts
           /\ edge_hears' = edge_hears /\ edge_failed' = edge_failed
BY DEF HostStep, Deliver, EdgeIdle, fields

\* Every step keeps the node's mode consistent.
LEMMA EdgeModeStep ==
    ASSUME GatedTypeOK, TimeInv, EdgeMode, [GatedNext]_gatedVars
    PROVE  EdgeMode'
<1> TypeOK
  BY DEF GatedTypeOK
<1>1. CASE HostStep
  BY <1>1, NodeIdles DEF EdgeMode
<1>2. CASE EdgeConnects
  BY <1>2, NodeConnects DEF EdgeMode
<1>3. CASE EdgeHandlesState
  <2>1. PICK m : m = Head(to_edge)
    OBVIOUS
  <2>2. /\ birth = None /\ edge_hears' = (edge_hears /\ session'.open)
        /\ NodeDrops(m) \/ NodeGoesOn(m) \/ NodeEnds(m)
    BY <1>3, <2>1, NodeHandles
  <2> QED
    BY <2>2 DEF EdgeMode, NodeDrops, NodeGoesOn, NodeEnds
<1>4. CASE EdgePublishesBirth
  <2>1. UNCHANGED edge_hears
    BY <1>4 DEF EdgePublishesBirth
  <2> QED
    BY <1>4, <2>1, NodePublishesBirth DEF EdgeMode
<1>5. CASE EdgeDisconnects
  BY <1>5, NodeDisconnects DEF EdgeMode
<1>6. CASE EdgeFails
  BY <1>6, NodeFails DEF EdgeMode
<1>7. CASE UNCHANGED gatedVars
  BY <1>7 DEF gatedVars, vars, edgeSide, EdgeMode
<1> QED
  BY <1>1, <1>2, <1>3, <1>4, <1>5, <1>6, <1>7, StepsSplit

\* Every step keeps the times in order.
LEMMA TimeInvStep ==
    ASSUME GatedTypeOK, LinkInv, TimeInv, [GatedNext]_gatedVars, ~StartWhileOpen
    PROVE  TimeInv'
<1> TypeOK
  BY DEF GatedTypeOK
<1>1. CASE HostStep
  BY <1>1, TimeHostStep
<1>2. CASE UNCHANGED primaryVars /\ EdgeConnects
  <2>1. Carried' \subseteq Carried
    BY <1>2, NodeConnects DEF EdgeConnects, primaryVars, Carried
  <2> QED
    BY <1>2, <2>1, NodeConnects, TimeEdgeStep
<1>3. CASE UNCHANGED primaryVars /\ EdgeHandlesState
  <2>1. PICK m : m = Head(to_edge)
    OBVIOUS
  <2>2. last_state_ts' \in {last_state_ts, m.timestamp}
    BY <1>3, <2>1, NodeHandles DEF NodeDrops, NodeGoesOn, NodeEnds, NodeAccepts
  <2>3. /\ to_edge # << >> /\ to_edge' = Tail(to_edge) /\ retained' = retained
    BY <1>3 DEF EdgeHandlesState, primaryVars
  <2>4. m \in Carried
    BY <2>1, <2>3, HeadTyped DEF Carried
  <2>5. Carried' \subseteq Carried
    <3>1. ASSUME NEW i \in DOMAIN Tail(to_edge)
          PROVE  \E j \in DOMAIN to_edge : Tail(to_edge)[i] = to_edge[j]
      <4>1. /\ i \in 1 .. Len(Tail(to_edge)) /\ Len(Tail(to_edge)) = Len(to_edge) - 1
            /\ Tail(to_edge)[i] = to_edge[i + 1] /\ to_edge \in Seq(StatePayload)
        BY <2>3, <3>1, HeadTyped DEF GatedTypeOK
      <4>2. i + 1 \in DOMAIN to_edge
        BY <4>1
      <4> QED
        BY <4>1, <4>2
    <3> QED
      BY <2>3, <3>1 DEF Carried
  <2> QED
    BY <1>3, <2>2, <2>4, <2>5, TimeEdgeStep
<1>4. CASE UNCHANGED primaryVars /\ EdgePublishesBirth
  <2>1. last_state_ts' = last_state_ts
    BY <1>4, NodePublishesBirth
  <2>2. Carried' = Carried
    BY <1>4 DEF EdgePublishesBirth, primaryVars, Carried
  <2> QED
    BY <1>4, <2>1, <2>2, TimeEdgeStep
<1>5. CASE UNCHANGED primaryVars /\ EdgeDisconnects
  <2>1. last_state_ts' = last_state_ts
    BY <1>5, NodeDisconnects
  <2>2. Carried' = Carried
    BY <1>5 DEF EdgeDisconnects, primaryVars, Carried
  <2> QED
    BY <1>5, <2>1, <2>2, TimeEdgeStep
<1>6. CASE UNCHANGED primaryVars /\ EdgeFails
  <2>1. Carried' \subseteq Carried
    BY <1>6, NodeFails DEF primaryVars, Carried
  <2> QED
    BY <1>6, <2>1, NodeFails, TimeEdgeStep
<1>7. CASE UNCHANGED gatedVars
  <2>1. UNCHANGED primaryVars /\ last_state_ts' = last_state_ts /\ Carried' = Carried
    BY <1>7 DEF gatedVars, vars, edgeSide, primaryVars, Carried
  <2> QED
    BY <2>1, TimeEdgeStep
<1> QED
  BY <1>1, <1>2, <1>3, <1>4, <1>5, <1>6, <1>7, StepsSplit
-----------------------------------------------------------------------------
(* The node has the last word of the broker. *)

\* A queue with room for one message.
LEMMA AtMostOne ==
    ASSUME NEW box \in Seq(StatePayload), Len(box) <= 1
    PROVE  \/ box = << >> /\ DOMAIN box = {}
           \/ box # << >> /\ Len(box) = 1 /\ box = <<box[Len(box)]>>
<1>1. Len(box) \in Nat /\ DOMAIN box = 1 .. Len(box)
  OBVIOUS
<1>2. CASE Len(box) = 0
  BY <1>1, <1>2, EmptySeq
<1>3. CASE Len(box) = 1
  <2>0. PICK m \in StatePayload : m = box[1]
    <3>1. 1 \in DOMAIN box
      BY <1>1, <1>3
    <3>2. box[1] \in StatePayload
      BY <3>1
    <3> QED
      BY <3>2, Zenon
  <2>1. <<box[1]>> \in Seq(StatePayload) /\ Len(<<box[1]>>) = 1 /\ <<box[1]>>[1] = box[1]
    BY <2>0
  <2>2. \A i \in 1 .. Len(box) : box[i] = <<box[1]>>[i]
    BY <1>3, <2>1
  <2>3. box = <<box[1]>>
    BY <1>3, <2>1, <2>2, SeqEqual
  <2>4. box # << >>
    <3>1. 1 # 0
      OBVIOUS
    <3> QED
      BY <1>3, <3>1, EmptyQueue, Zenon
  <2> QED
    BY <1>3, <2>3, <2>4
<1> QED
  BY <1>1, <1>2, <1>3

\* Every step keeps EdgeUpToDate: what the broker retains is on its way to the
\* node, or the node has acted on it.
LEMMA EdgeUpToDateStep ==
    ASSUME GatedTypeOK, TimeInv, EdgeMode, EdgeUpToDate, [GatedNext]_gatedVars, ~StartWhileOpen
    PROVE  EdgeUpToDate'
<1> SUFFICES ASSUME edge_hears', ~edge_failed'
             PROVE  IF to_edge' # << >>
                    THEN retained' = <<to_edge'[Len(to_edge')]>>
                    ELSE \A i \in DOMAIN retained' :
                            retained'[i].online =>
                                \/ EdgeBorn'
                                \/ last_state_ts' # None /\ last_state_ts' > retained'[i].timestamp
  BY DEF EdgeUpToDate
<1>t. /\ TypeOK /\ PrimaryTypeOK /\ to_edge \in Seq(StatePayload)
      /\ retained \in Seq(StatePayload) /\ Len(retained) <= 1 /\ state \in EdgeState
  BY DEF GatedTypeOK, TypeOK, PrimaryTypeOK
<1>1. CASE HostStep
  <2>i. /\ edge_hears' = edge_hears /\ edge_failed' = edge_failed
        /\ last_state_ts' = last_state_ts /\ EdgeBorn' = EdgeBorn
    BY <1>1, NodeIdles, Zenon DEF EdgeBorn
  <2>1. /\ Deliver /\ PrimaryNext /\ edge_hears /\ ~edge_failed /\ EdgeBorn' = EdgeBorn
        /\ last_state_ts' = last_state_ts
    BY <1>1, <2>i, Zenon DEF HostStep
  <2>2. CASE PostsNothing
    <3>1. to_edge' = to_edge /\ retained' = retained
      BY <1>t, <2>1, <2>2, NothingDelivered DEF PostsNothing
    <3> QED
      BY <2>1, <3>1 DEF EdgeUpToDate
  <2>3. ASSUME NEW m \in StatePayload, posted' = <<m>>, retained' = posted'
        PROVE  to_edge' # << >> /\ retained' = <<to_edge'[Len(to_edge')]>>
    <3>1. to_edge' = Append(to_edge, m)
      BY <1>t, <2>1, <2>3, Delivered
    <3>2. Append(to_edge, m) # << >> /\ Append(to_edge, m)[Len(Append(to_edge, m))] = m
      BY <1>t
    <3> QED
      BY <2>3, <3>1, <3>2
  <2>4. \A ts \in Nat : Online(ts) \in StatePayload /\ Offline(ts) \in StatePayload
    BY PayloadType
  <2>5. /\ state_ts \in Nat /\ late_offlines \subseteq Nat
    BY <1>t, PrimaryHostAssumption DEF PrimaryTypeOK
  <2>6. PostsNothing \/ \E m \in StatePayload : posted' = <<m>> /\ retained' = posted'
    BY <1>t, <2>1, <2>4, <2>5, HostMoves DEF PostsWill, PostsBirth, PostsDeath
  <2> QED
    BY <2>2, <2>3, <2>6
<1>2. CASE UNCHANGED primaryVars /\ EdgeConnects
  <2>1. to_edge' = retained /\ retained' = retained
    BY <1>t, <1>2, NodeConnects DEF primaryVars
  <2> QED
    BY <1>t, <2>1, AtMostOne
<1>3. CASE UNCHANGED primaryVars /\ EdgeHandlesState
  <2>1. PICK m : m = Head(to_edge)
    OBVIOUS
  <2>2. /\ birth = None /\ ~edge_failed /\ edge_hears /\ session'.open
        /\ NodeDrops(m) \/ NodeGoesOn(m) \/ NodeEnds(m)
    BY <1>3, <2>1, NodeHandles
  <2>3. /\ to_edge # << >> /\ to_edge' = Tail(to_edge) /\ retained' = retained
        /\ retained = <<to_edge[Len(to_edge)]>>
    BY <1>3, <2>2 DEF EdgeHandlesState, primaryVars, EdgeUpToDate
  <2>4. CASE Len(to_edge) # 1
    BY <1>t, <2>3, <2>4, LastOfTail
  <2>5. CASE Len(to_edge) = 1
    <3>1. retained' = <<m>> /\ to_edge' = << >>
      <4>1. Len(Tail(to_edge)) = 0 /\ Tail(to_edge) \in Seq(StatePayload)
        BY <1>t, <2>3, <2>5, HeadTyped
      <4> QED
        BY <1>t, <2>1, <2>3, <2>5, <4>1, LastOfTail, EmptySeq
    <3>2. m.online => EdgeBorn' \/ (last_state_ts' # None /\ last_state_ts' > m.timestamp)
      <4>1. m.timestamp \in Nat /\ last_state_ts \in Nat \cup {None}
        BY <1>t, <2>1, <2>3, HeadTyped, EdgeNodeAssumption DEF TypeOK
      <4>2. CASE NodeDrops(m)
        BY <4>1, <4>2 DEF NodeDrops
      <4>3. CASE NodeGoesOn(m)
        BY <1>t, <2>2, <4>3 DEF NodeGoesOn, EdgeMode, EdgeBorn, EdgeState
      <4>4. CASE NodeEnds(m)
        BY <4>4 DEF NodeEnds
      <4> QED
        BY <2>2, <4>2, <4>3, <4>4
    <3>3. DOMAIN <<m>> = {1} /\ <<m>>[1] = m
      OBVIOUS
    <3> QED
      BY <3>1, <3>2, <3>3
  <2> QED
    BY <2>4, <2>5
<1>4. CASE UNCHANGED primaryVars /\ EdgePublishesBirth
  <2>1. /\ to_edge' = to_edge /\ retained' = retained /\ edge_hears /\ ~edge_failed
    BY <1>4, Zenon DEF EdgePublishesBirth, primaryVars
  <2>2. EdgeBorn'
    BY <1>t, <1>4, NodePublishesBirth DEF EdgeBorn, EdgeMode
  <2> QED
    BY <2>1, <2>2 DEF EdgeUpToDate
<1>5. CASE UNCHANGED primaryVars /\ EdgeDisconnects
  BY <1>t, <1>5, NodeDisconnects
<1>6. CASE UNCHANGED primaryVars /\ EdgeFails
  BY <1>t, <1>6, NodeFails
<1>7. CASE UNCHANGED gatedVars
  BY <1>7 DEF gatedVars, vars, primaryVars, edgeSide, EdgeUpToDate, EdgeBorn
<1> QED
  BY <1>1, <1>2, <1>3, <1>4, <1>5, <1>6, <1>7, StepsSplit

-----------------------------------------------------------------------------
(* The node is told of the end of the host's connection. *)

\* The death that follows a message stays behind it when the node takes another
\* message that is not that death.
LEMMA DeathMovesUp ==
    ASSUME GatedTypeOK, TimeInv, to_edge # << >>, to_edge' = Tail(to_edge),
           UNCHANGED primaryVars, NEW ts \in Nat, NEW i \in Nat,
           \/ DeathFollows(ts, i + 1)
           \/ i = 0 /\ DeathFollows(ts, 0) /\ (to_edge[1].online \/ to_edge[1].timestamp < ts)
    PROVE  DeathFollows(ts, i)'
<1>1. UNCHANGED <<link, phase, late_offlines>>
  BY DEF primaryVars
<1>2. CASE (link.open /\ phase # "leaving" /\ link.will = ts) \/ ts \in late_offlines
  BY <1>1, <1>2 DEF DeathFollows
<1>3. ASSUME NEW j \in i + 2 .. Len(to_edge),
             ~to_edge[j].online, to_edge[j].timestamp >= ts
      PROVE  DeathFollows(ts, i)'
  <2>1. /\ Len(Tail(to_edge)) = Len(to_edge) - 1 /\ Len(to_edge) \in Nat
        /\ \A k \in 1 .. Len(Tail(to_edge)) : Tail(to_edge)[k] = to_edge[k + 1]
    BY HeadTyped DEF GatedTypeOK
  <2>2. j - 1 \in 1 .. Len(Tail(to_edge)) /\ (j - 1) + 1 = j
    BY <1>3, <2>1
  <2>3. Tail(to_edge)[j - 1] = to_edge[j]
    BY <2>1, <2>2
  <2>4. to_edge'[j - 1] = to_edge[j]
    BY <2>3
  <2>5. j - 1 \in i + 1 .. Len(to_edge')
    BY <2>1, <2>2
  <2> QED
    BY <1>3, <2>4, <2>5, Zenon DEF DeathFollows
<1>4. CASE DeathFollows(ts, i + 1)
  <2>1. (i + 1) + 1 = i + 2
    OBVIOUS
  <2> QED
    BY <1>2, <1>3, <1>4, <2>1 DEF DeathFollows
<1>5. CASE i = 0 /\ DeathFollows(ts, 0) /\ (to_edge[1].online \/ to_edge[1].timestamp < ts)
  <2>1. to_edge[1].timestamp \in Nat
    BY HeadTyped
  <2>2. \A j \in 1 .. Len(to_edge) :
            ~to_edge[j].online /\ to_edge[j].timestamp >= ts => j \in i + 2 .. Len(to_edge)
    BY <1>5, <2>1
  <2>3. i + 1 = 1 /\ 0 + 1 = 1
    BY <1>5
  <2> QED
    BY <1>2, <1>3, <1>5, <2>2, <2>3 DEF DeathFollows
<1> QED
  BY <1>4, <1>5

\* A step of the host leaves what is on its way where it is, and adds what the
\* broker hands out behind it.
LEMMA QueueGrows ==
    ASSUME GatedTypeOK, HostStep, ~StartWhileOpen
    PROVE  /\ Len(to_edge') \in Nat /\ Len(to_edge) <= Len(to_edge')
           /\ \A j \in 1 .. Len(to_edge) : to_edge'[j] = to_edge[j]
           /\ PostsNothing => to_edge' = to_edge
           /\ \A m \in StatePayload : edge_hears /\ posted' = <<m>> =>
                 to_edge' = Append(to_edge, m)
<1>1. to_edge \in Seq(StatePayload) /\ Deliver /\ PrimaryNext
  BY DEF HostStep, GatedTypeOK
<1>2. PostsNothing => to_edge' = to_edge
  BY <1>1, NothingDelivered DEF PostsNothing
<1>3. \A m \in StatePayload : posted' = <<m>> =>
          /\ to_edge' = to_edge \/ to_edge' = Append(to_edge, m)
          /\ edge_hears => to_edge' = Append(to_edge, m)
  BY <1>1, Delivered
<1>4. to_edge' = to_edge \/ \E m \in StatePayload : to_edge' = Append(to_edge, m)
  <2>1. \A ts \in Nat : Online(ts) \in StatePayload /\ Offline(ts) \in StatePayload
    BY PayloadType
  <2>2. state_ts \in Nat /\ late_offlines \subseteq Nat
    BY PrimaryHostAssumption DEF GatedTypeOK, PrimaryTypeOK
  <2>3. PostsNothing \/ \E m \in StatePayload : posted' = <<m>>
    BY <1>1, <2>1, <2>2, HostMoves DEF GatedTypeOK, PostsWill, PostsBirth, PostsDeath
  <2> QED
    BY <1>2, <1>3, <2>3
<1>5. CASE to_edge' = to_edge
  <2>1. Len(to_edge) \in Nat /\ Len(to_edge) <= Len(to_edge)
    BY <1>1
  <2> QED
    BY <1>2, <1>3, <1>5, <2>1
<1>6. ASSUME NEW m \in StatePayload, to_edge' = Append(to_edge, m)
      PROVE  /\ Len(to_edge') \in Nat /\ Len(to_edge) <= Len(to_edge')
             /\ \A j \in 1 .. Len(to_edge) : to_edge'[j] = to_edge[j]
  BY <1>1, <1>6, AppendEntries
<1> QED
  BY <1>2, <1>3, <1>4, <1>5, <1>6

\* A death at the end of the queue follows every message before it.
LEMMA DeathIsPosted ==
    ASSUME GatedTypeOK, HostStep, edge_hears, ~StartWhileOpen, NEW ts \in Nat, NEW i \in Nat,
           i <= Len(to_edge), NEW m \in StatePayload, posted' = <<m>>,
           ~m.online, m.timestamp >= ts
    PROVE  DeathFollows(ts, i)'
<1>1. to_edge' = Append(to_edge, m) /\ to_edge \in Seq(StatePayload)
  BY QueueGrows DEF GatedTypeOK
<1>2. Len(to_edge') = Len(to_edge) + 1 /\ to_edge'[Len(to_edge) + 1] = m
  BY <1>1, AppendEntries
<1>3. Len(to_edge) + 1 \in i + 1 .. Len(to_edge')
  BY <1>1, <1>2
<1>4. ~to_edge'[Len(to_edge) + 1].online /\ to_edge'[Len(to_edge) + 1].timestamp >= ts
  BY <1>2
<1> QED
  BY <1>3, <1>4, Zenon DEF DeathFollows

\* No step of the host or its broker takes back the death that follows.
LEMMA DeathStillFollows ==
    ASSUME GatedTypeOK, LinkInv, TimeInv, HostStep, edge_hears, ~StartWhileOpen,
           NEW ts \in Nat, NEW i \in Nat, i <= Len(to_edge), DeathFollows(ts, i)
    PROVE  DeathFollows(ts, i)'
<1>t. /\ now \in Nat /\ link.will \in Nat /\ late_offlines \subseteq Nat /\ PrimaryNext
      /\ link.will <= now /\ Len(to_edge) \in Nat
  BY PrimaryHostAssumption DEF GatedTypeOK, PrimaryTypeOK, TimeInv, HostStep
<1>1. ASSUME NEW j \in i + 1 .. Len(to_edge), ~to_edge[j].online, to_edge[j].timestamp >= ts
      PROVE  DeathFollows(ts, i)'
  <2>1. Len(to_edge') \in Nat /\ Len(to_edge) <= Len(to_edge')
    BY QueueGrows
  <2>2. j \in 1 .. Len(to_edge) /\ j \in i + 1 .. Len(to_edge')
    BY <1>t, <1>1, <2>1
  <2>3. to_edge'[j] = to_edge[j]
    BY <2>2, QueueGrows
  <2>4. ~to_edge'[j].online /\ to_edge'[j].timestamp >= ts
    BY <1>1, <2>3
  <2> QED
    BY <2>2, <2>4, Zenon DEF DeathFollows
<1>2. ASSUME ts \in late_offlines
      PROVE  DeathFollows(ts, i)'
  <2>1. CASE ts \in late_offlines'
    BY <2>1 DEF DeathFollows
  <2>2. CASE ts \notin late_offlines'
    <3>1. PostsWill
      BY <1>t, <1>2, <2>2, HostMoves
      DEF GatedTypeOK, PostsBirth, PostsDeath, LinkBegins, LinkEnds, LinkClosed, LinkStays, WillsDue
    <3>2. posted' = <<Offline(ts)>>
      BY <1>2, <2>2, <3>1 DEF PostsWill
    <3>3. Offline(ts) \in StatePayload /\ ~Offline(ts).online /\ Offline(ts).timestamp >= ts
      BY PayloadType DEF Offline
    <3> QED
      BY <3>2, <3>3, DeathIsPosted
  <2> QED
    BY <2>1, <2>2
<1>3. ASSUME link.open, phase # "leaving", link.will = ts
      PROVE  DeathFollows(ts, i)'
  <2>1. CASE PostsDeath
    <3>1. now' \in Nat /\ ts <= now' /\ posted' = <<Offline(now')>>
      BY <1>t, <1>3, <2>1 DEF PostsDeath
    <3>2. PICK death \in StatePayload : death = Offline(now')
      BY <3>1, PayloadType
    <3>3. ~death.online /\ death.timestamp = now'
      BY <3>2 DEF Offline
    <3>4. death.timestamp >= ts /\ posted' = <<death>>
      BY <3>1, <3>2, <3>3
    <3> QED
      BY <3>3, <3>4, DeathIsPosted
  <2>2. CASE ~PostsDeath
    <3>1. \/ ts \in late_offlines'
          \/ link'.open /\ phase' # "leaving" /\ link'.will = ts
      BY <1>t, <1>3, <2>2, HostMoves
      DEF GatedTypeOK, PostsWill, PostsBirth, LinkBegins, LinkEnds, LinkClosed, LinkStays, WillsDue
    <3> QED
      BY <3>1 DEF DeathFollows
  <2> QED
    BY <2>1, <2>2
<1> QED
  BY <1>1, <1>2, <1>3 DEF DeathFollows

\* Every step keeps EdgeIsTold: a node that is born, or is about to hear of an
\* online host, will hear of the end of that host's connection.
LEMMA EdgeIsToldStep ==
    ASSUME GatedTypeOK, LinkInv, OnlineHasWill, TimeInv, EdgeMode, EdgeIsTold,
           [GatedNext]_gatedVars, ~StartWhileOpen
    PROVE  EdgeIsTold'
<1> SUFFICES ASSUME edge_hears', ~edge_failed'
             PROVE  /\ EdgeBorn' => /\ last_state_ts' # None
                                    /\ DeathFollows(last_state_ts, 0)'
                    /\ \A i \in DOMAIN to_edge' :
                          to_edge'[i].online => DeathFollows(to_edge[i].timestamp, i)'
  BY Zenon DEF EdgeIsTold
<1>t. /\ TypeOK /\ PrimaryTypeOK /\ to_edge \in Seq(StatePayload)
      /\ retained \in Seq(StatePayload) /\ last_state_ts \in Nat \cup {None}
      /\ DOMAIN to_edge = 1 .. Len(to_edge) /\ Len(to_edge) \in Nat
      /\ \A i \in DOMAIN to_edge : to_edge[i].timestamp \in Nat
      /\ \A i \in DOMAIN retained : retained[i].timestamp \in Nat
  <2>1. /\ TypeOK /\ PrimaryTypeOK /\ to_edge \in Seq(StatePayload)
        /\ retained \in Seq(StatePayload) /\ last_state_ts \in Nat \cup {None}
    BY EdgeNodeAssumption DEF GatedTypeOK, TypeOK, PrimaryTypeOK
  <2>2. /\ \A i \in DOMAIN to_edge : to_edge[i].timestamp \in Nat
        /\ \A i \in DOMAIN retained : retained[i].timestamp \in Nat
    BY CarriedType DEF Carried
  <2> QED
    BY <2>1, <2>2
<1>1. CASE HostStep
  <2>1. /\ edge_hears' = edge_hears /\ edge_failed' = edge_failed
        /\ last_state_ts' = last_state_ts /\ EdgeBorn' = EdgeBorn
    BY <1>1, NodeIdles, Zenon DEF EdgeBorn
  <2>2. edge_hears /\ ~edge_failed
    BY <2>1, Zenon
  <2>3. /\ EdgeBorn => last_state_ts # None /\ DeathFollows(last_state_ts, 0)
        /\ \A i \in DOMAIN to_edge :
              to_edge[i].online => DeathFollows(to_edge[i].timestamp, i)
    BY <2>2, Zenon DEF EdgeIsTold
  <2>4. ASSUME EdgeBorn'
        PROVE  last_state_ts' # None /\ DeathFollows(last_state_ts, 0)'
    <3>1. last_state_ts # None /\ DeathFollows(last_state_ts, 0)
      BY <2>1, <2>3, <2>4, Zenon
    <3>2. PICK ts \in Nat : ts = last_state_ts
      BY <1>t, <3>1
    <3>3. DeathFollows(ts, 0)'
      BY <1>1, <1>t, <2>2, <3>1, <3>2, DeathStillFollows
    <3> QED
      BY <2>1, <3>1, <3>2, <3>3 DEF DeathFollows
  <2>5. ASSUME NEW i \in DOMAIN to_edge', to_edge'[i].online
        PROVE  DeathFollows(to_edge[i].timestamp, i)'
    <3>1. CASE i \in DOMAIN to_edge
      <4>1. to_edge'[i] = to_edge[i]
        BY <1>1, <1>t, <3>1, QueueGrows
      <4>2. PICK ts \in Nat : ts = to_edge[i].timestamp
        BY <1>t, <3>1
      <4>3. DeathFollows(ts, i) /\ i \in Nat /\ i <= Len(to_edge)
        BY <1>t, <2>3, <2>5, <3>1, <4>1, <4>2
      <4>4. DeathFollows(ts, i)'
        BY <1>1, <2>2, <4>3, DeathStillFollows
      <4> QED
        BY <4>1, <4>2, <4>4 DEF DeathFollows
    <3>2. CASE i \notin DOMAIN to_edge
      <4>1. \A ts \in Nat : Online(ts) \in StatePayload /\ Offline(ts) \in StatePayload
        BY PayloadType
      <4>2. state_ts \in Nat /\ late_offlines \subseteq Nat /\ PrimaryNext
        BY <1>1, <1>t, PrimaryHostAssumption DEF PrimaryTypeOK, HostStep
      <4>3. ~PostsNothing
        BY <1>1, <3>2, QueueGrows
      <4>4. PICK m \in StatePayload :
                /\ posted' = <<m>>
                /\ m.online => PostsBirth /\ m = Online(state_ts)
        BY <1>t, <4>1, <4>2, <4>3, HostMoves DEF PostsWill, PostsBirth, PostsDeath, Offline
      <4>5. to_edge' = Append(to_edge, m)
        BY <1>1, <2>2, <4>4, QueueGrows
      <4>6. to_edge'[i] = m
        BY <1>t, <3>2, <4>5, AppendEntries
      <4>7. PostsBirth /\ m.timestamp = state_ts
        BY <2>5, <4>4, <4>6 DEF Online
      <4>8. link'.open /\ phase' # "leaving" /\ link'.will = m.timestamp
        BY <4>7 DEF PostsBirth, LinkInv
      <4> QED
        BY <4>6, <4>8 DEF DeathFollows
    <3> QED
      BY <3>1, <3>2
  <2> QED
    BY <2>4, <2>5
<1>2. CASE UNCHANGED primaryVars /\ EdgeConnects
  <2>1. /\ birth' = None /\ state' = "WaitingForPrimaryHost" /\ to_edge' = retained
    BY <1>t, <1>2, NodeConnects
  <2>2. ~EdgeBorn'
    BY <2>1 DEF EdgeBorn
  <2>3. ASSUME NEW i \in DOMAIN retained, retained[i].online
        PROVE  \/ link.open /\ phase # "leaving" /\ link.will = retained[i].timestamp
               \/ retained[i].timestamp \in late_offlines
    BY <2>3 DEF OnlineHasWill, LinkInv
  <2>4. UNCHANGED <<link, phase, late_offlines>>
    BY <1>2 DEF primaryVars
  <2> QED
    BY <2>1, <2>2, <2>3, <2>4 DEF DeathFollows
<1>3. CASE UNCHANGED primaryVars /\ EdgeHandlesState
  <2>1. PICK m : m = Head(to_edge)
    OBVIOUS
  <2>2. /\ birth = None /\ ~edge_failed /\ edge_hears /\ session'.open
        /\ NodeDrops(m) \/ NodeGoesOn(m) \/ NodeEnds(m)
    BY <1>3, <2>1, NodeHandles
  <2>3. /\ to_edge # << >> /\ to_edge' = Tail(to_edge)
    BY <1>3 DEF EdgeHandlesState
  <2>4. /\ EdgeBorn => last_state_ts # None /\ DeathFollows(last_state_ts, 0)
        /\ \A i \in DOMAIN to_edge :
              to_edge[i].online => DeathFollows(to_edge[i].timestamp, i)
    BY <2>2, Zenon DEF EdgeIsTold
  <2>5. /\ m = to_edge[1] /\ 1 \in DOMAIN to_edge /\ m.timestamp \in Nat
        /\ Len(Tail(to_edge)) = Len(to_edge) - 1
        /\ \A i \in 1 .. Len(Tail(to_edge)) : Tail(to_edge)[i] = to_edge[i + 1]
        /\ DOMAIN Tail(to_edge) = 1 .. Len(Tail(to_edge))
    BY <1>t, <2>1, <2>3, HeadTyped
  <2>6. ASSUME NEW i \in DOMAIN to_edge', to_edge'[i].online
        PROVE  DeathFollows(to_edge[i].timestamp, i)'
    <3>1. i \in Nat /\ i + 1 \in DOMAIN to_edge
      BY <1>t, <2>3, <2>5
    <3>2. to_edge'[i] = to_edge[i + 1]
      BY <2>3, <2>5
    <3>3. PICK ts \in Nat : ts = to_edge[i + 1].timestamp
      BY <1>t, <3>1
    <3>4. DeathFollows(ts, i + 1)
      BY <2>4, <2>6, <3>1, <3>2, <3>3
    <3>5. DeathFollows(ts, i)'
      BY <1>3, <2>3, <3>1, <3>4, DeathMovesUp
    <3> QED
      BY <3>2, <3>3, <3>5 DEF DeathFollows
  <2>7. ASSUME EdgeBorn'
        PROVE  last_state_ts' # None /\ DeathFollows(last_state_ts, 0)'
    <3>1. PICK ts \in Nat :
              /\ last_state_ts' = ts /\ None \notin Nat
              /\ \/ DeathFollows(ts, 0 + 1)
                 \/ DeathFollows(ts, 0) /\ (to_edge[1].online \/ to_edge[1].timestamp < ts)
      <4>1. CASE NodeDrops(m)
        <5>1. EdgeBorn /\ last_state_ts' = last_state_ts
          BY <2>7, <4>1 DEF NodeDrops, EdgeBorn
        <5> QED
          BY <1>t, <2>4, <2>5, <4>1, <5>1, EdgeNodeAssumption, SparkplugAssumption DEF NodeDrops
      <4>2. CASE NodeGoesOn(m)
        <5>1. m.online /\ last_state_ts' = m.timestamp /\ 0 + 1 = 1
          BY <4>2 DEF NodeGoesOn, NodeAccepts
        <5>2. DeathFollows(m.timestamp, 0 + 1)
          BY <2>4, <2>5, <5>1
        <5> QED
          BY <2>5, <5>1, <5>2, EdgeNodeAssumption, SparkplugAssumption
      <4>3. CASE NodeEnds(m)
        BY <2>2, <2>7, <4>3 DEF NodeEnds, EdgeBorn
      <4> QED
        BY <2>2, <4>1, <4>2, <4>3
    <3>2. DeathFollows(ts, 0)'
      BY <1>3, <2>3, <3>1, DeathMovesUp
    <3> QED
      BY <3>1, <3>2 DEF DeathFollows
  <2> QED
    BY <2>6, <2>7
<1>4. CASE UNCHANGED primaryVars /\ EdgePublishesBirth
  <2>1. /\ to_edge' = to_edge /\ edge_hears /\ ~edge_failed
        /\ UNCHANGED <<link, phase, late_offlines>>
    BY <1>4, Zenon DEF EdgePublishesBirth, primaryVars
  <2>2. EdgeBorn /\ last_state_ts' = last_state_ts
    BY <1>t, <1>4, NodePublishesBirth DEF EdgeBorn
  <2> QED
    BY <2>1, <2>2 DEF EdgeIsTold, DeathFollows
<1>5. CASE UNCHANGED primaryVars /\ EdgeDisconnects
  BY <1>t, <1>5, NodeDisconnects
<1>6. CASE UNCHANGED primaryVars /\ EdgeFails
  BY <1>t, <1>6, NodeFails
<1>7. CASE UNCHANGED gatedVars
  BY <1>7 DEF gatedVars, vars, primaryVars, edgeSide, EdgeIsTold, EdgeBorn, DeathFollows
<1> QED
  BY <1>1, <1>2, <1>3, <1>4, <1>5, <1>6, <1>7, StepsSplit
-----------------------------------------------------------------------------
(* The gate. *)

\* The inductive invariant of the gated session.
GatedInv ==
    /\ GatedTypeOK
    /\ LinkInv /\ OnlineHasWill /\ RepairInv
    /\ TimeInv /\ EdgeMode /\ EdgeUpToDate /\ EdgeIsTold

\* It holds at first: nobody is connected and nothing is under way.
LEMMA GatedInitInv ==
    ASSUME GatedInit
    PROVE  GatedInv
<1>1. PrimaryTypeOK /\ LinkInv /\ OnlineHasWill /\ RepairInv
  BY PrimaryInitType, PrimaryInitInv DEF GatedInit
<1>2. /\ GatedTypeOK
  BY <1>1, InitTypeOK, EmptyQueue DEF GatedInit, GatedTypeOK
<1>3. /\ ~link.open /\ link.will \in {0, now} /\ now = 0 /\ state_ts = 0 /\ late_offlines = {}
      /\ Carried = {} /\ last_state_ts = None /\ ~edge_hears /\ birth = None
  BY DEF GatedInit, PrimaryInit, Init, NoLink, Carried
<1>4. TimeInv
  BY <1>3 DEF TimeInv, HostLives
<1>5. EdgeMode /\ EdgeUpToDate /\ EdgeIsTold
  BY <1>3 DEF EdgeMode, EdgeUpToDate, EdgeIsTold
<1> QED
  BY <1>1, <1>2, <1>4, <1>5 DEF GatedInv

\* Every step keeps it.
LEMMA GatedInvStep ==
    ASSUME GatedInv, [GatedNext]_gatedVars, ~StartWhileOpen
    PROVE  GatedInv'
<1>1. [PrimaryNext]_primaryVars
  BY PrimaryStep
<1>2. LinkInv' /\ OnlineHasWill'
  BY <1>1, PrimaryInvStep DEF GatedInv, GatedTypeOK, PrimaryInv
<1>3. RepairInv'
  BY <1>1, RepairStep DEF GatedInv, GatedTypeOK
<1>4. GatedTypeOK' /\ TimeInv' /\ EdgeMode'
  BY GatedTypeStep, TimeInvStep, EdgeModeStep DEF GatedInv
<1>5. EdgeUpToDate' /\ EdgeIsTold'
  BY EdgeUpToDateStep, EdgeIsToldStep DEF GatedInv
<1> QED
  BY <1>2, <1>3, <1>4, <1>5 DEF GatedInv

\* It holds throughout, if the application does not call start on a live
\* connection.
LEMMA GatedInvHolds ==
    ASSUME ~StartWhileOpen
    PROVE  GatedSpec => []GatedInv
<1>1. GatedInit => GatedInv
  BY GatedInitInv
<1>2. GatedInv /\ [GatedNext]_gatedVars => GatedInv'
  BY GatedInvStep
<1> QED
  BY <1>1, <1>2, PTL DEF GatedSpec

\* Node, host and broker stay well typed together.
THEOREM GatedTypeCorrect ==
    ASSUME ~StartWhileOpen
    PROVE  GatedSpec => []GatedTypeOK
<1>1. GatedInv => GatedTypeOK
  BY DEF GatedInv
<1> QED
  BY <1>1, GatedInvHolds, PTL

\* Once every STATE has arrived, a connected node is online exactly if its
\* primary host is, for every interleaving of crashes, late wills, repairs and
\* births (handle_incoming of both engines), if the application does not call
\* start on a live connection.
THEOREM GateAgreementHolds ==
    ASSUME ~StartWhileOpen
    PROVE  GatedSpec => []GateAgreement
<1>1. GatedInv => GateAgreement
  <2> SUFFICES ASSUME GatedInv, EdgeListens, Idle, AllDelivered, Started \/ HostGone
               PROVE  state = "Online" <=> Started
    BY DEF GateAgreement
  <2>t. /\ last_state_ts \in Nat \cup {None} /\ state_ts \in Nat
        /\ birth = None /\ to_edge = << >> /\ inbox = << >> /\ late_offlines = {}
        /\ edge_hears /\ ~edge_failed
    BY EdgeNodeAssumption, PrimaryHostAssumption
    DEF GatedInv, GatedTypeOK, TypeOK, PrimaryTypeOK, Idle, AllDelivered, EdgeListens
  <2>1. ASSUME Started
        PROVE  state = "Online"
    <3>1. 1 \in DOMAIN retained /\ retained[1] = Online(state_ts)
      BY <2>t, <2>1 DEF GatedInv, GatedTypeOK, PrimaryTypeOK, RepairInv
    <3>2. EdgeBorn \/ (last_state_ts # None /\ last_state_ts > state_ts)
      BY <2>t, <3>1 DEF GatedInv, EdgeUpToDate, Online
    <3>3. HostLives
      BY <2>1 DEF Started, HostLives
    <3>4. last_state_ts # None => last_state_ts <= state_ts
      BY <3>3 DEF GatedInv, TimeInv
    <3>5. EdgeBorn
      BY <2>t, <3>2, <3>4
    <3> QED
      BY <2>t, <3>5 DEF EdgeBorn
  <2>2. ASSUME HostGone, state = "Online"
        PROVE  FALSE
    <3>1. DeathFollows(last_state_ts, 0)
      BY <2>t, <2>2 DEF GatedInv, EdgeIsTold, EdgeBorn
    <3>2. ~link.open /\ 0 + 1 .. Len(to_edge) = {}
      BY <2>t, <2>2 DEF HostGone
    <3> QED
      BY <2>t, <3>1, <3>2 DEF DeathFollows
  <2> QED
    BY <2>1, <2>2
<1> QED
  BY <1>1, GatedInvHolds, PTL

\* A node ends its session for the host it was born for only when that host is
\* down: what is left of earlier connections is stale to it (handle_incoming,
\* last_state_ts), if the application does not call start on a live connection.
THEOREM EndsForReasonHolds ==
    ASSUME ~StartWhileOpen
    PROVE  GatedSpec => EndsForReason
<1>1. ASSUME GatedInv, EdgeHandlesState, state = "Online", state' # "Online",
             Started, state_ts = last_state_ts
      PROVE  FALSE
  <2>1. PICK m : m = Head(to_edge)
    OBVIOUS
  <2>2. NodeEnds(m)
    BY <1>1, <2>1, NodeHandles DEF GatedInv, NodeDrops, NodeGoesOn
  <2>3. to_edge # << >>
    BY <1>1 DEF EdgeHandlesState
  <2>4. m \in Carried
    BY <1>1, <2>1, <2>3, HeadTyped DEF GatedInv, Carried
  <2>5. HostLives
    BY <1>1 DEF Started, HostLives
  <2>6. m.timestamp < state_ts /\ m.timestamp \in Nat /\ state_ts \in Nat
    BY <1>1, <2>2, <2>4, <2>5, CarriedType, PrimaryHostAssumption
    DEF GatedInv, GatedTypeOK, PrimaryTypeOK, TimeInv, Earlier, NodeEnds
  <2>7. last_state_ts = None \/ last_state_ts <= m.timestamp
    BY <2>2 DEF NodeEnds, NodeAccepts
  <2> QED
    BY <1>1, <2>6, <2>7, EdgeNodeAssumption, SparkplugAssumption
<1>2. GatedInv /\ [GatedNext]_gatedVars =>
        [EdgeHandlesState /\ state = "Online" /\ state' # "Online"
           => ~(Started /\ state_ts = last_state_ts)]_gatedVars
  BY <1>1
<1> QED
  BY <1>2, GatedInvHolds, PTL DEF GatedSpec, EndsForReason
-----------------------------------------------------------------------------
(* What the node keeps of its own. *)

\* The node's engine runs unchanged: a STATE that reaches it is one that may reach
\* it in EdgeNode (EdgeNode::handle_incoming).
THEOREM GatedRunsEdge ==
    ASSUME ~StartWhileOpen
    PROVE  GatedSpec => JoinedSpec
<1>1. GatedInit => Init
  BY DEF GatedInit
<1>2. GatedInv /\ [GatedNext]_gatedVars => [Next \/ EngineWaits]_vars
  <2> SUFFICES ASSUME GatedInv, [GatedNext]_gatedVars
               PROVE  [Next \/ EngineWaits]_vars
    OBVIOUS
  <2>1. CASE HostStep
    BY <2>1 DEF HostStep, Deliver, EdgeIdle, EngineWaits
  <2>2. CASE EdgeConnects \/ EdgePublishesBirth \/ EdgeDisconnects \/ EdgeFails
    BY <2>2 DEF EdgeConnects, EdgePublishesBirth, EdgeDisconnects, EdgeFails, Next, Connect,
                Publish, Environment
  <2>3. CASE EdgeHandlesState
    <3>1. Head(to_edge).timestamp \in Timestamps
      BY <2>3, HeadTyped DEF EdgeHandlesState, GatedInv
    <3> QED
      BY <2>3, <3>1 DEF EdgeHandlesState, EdgeIdle, EngineWaits, Next
  <2>4. CASE UNCHANGED gatedVars
    BY <2>4 DEF gatedVars
  <2> QED
    BY <2>1, <2>2, <2>3, <2>4, StepsSplit
<1> QED
  BY <1>1, <1>2, GatedInvHolds, PTL DEF GatedSpec, JoinedSpec

\* A node that its primary host's STATE starts and ends keeps its bdSeqs: births
\* and the deaths that follow the host's carry the live connection's (connect,
\* handle_incoming of an offline STATE, disconnect).
THEOREM GatedKeepsEdge ==
    ASSUME ~StartWhileOpen, ~ReconnectWhileOpen
    PROVE  GatedSpec => [](SessionBdSeq /\ RestartWillDiffers)
BY GatedRunsEdge, JoinedKeepsBdSeq, PTL
=============================================================================
