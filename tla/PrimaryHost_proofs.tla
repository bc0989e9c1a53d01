------------------------- MODULE PrimaryHost_proofs -------------------------
(***************************************************************************)
(* Proofs about PrimaryHost: type correctness, that a retained online      *)
(* STATE always has its will, and that the host reasserts its STATE.       *)
(***************************************************************************)
EXTENDS PrimaryHost, SequenceTheorems, TLAPS
-----------------------------------------------------------------------------
(* Strengthenings that make the properties inductive. *)

\* The engine's timestamp is that of its connection's will, and a host that is
\* about to disconnect has replaced its birth.
LinkInv ==
    /\ link.open => link.will = state_ts
    /\ link.open /\ phase = "leaving" =>
          \A i \in DOMAIN retained : ~retained[i].online

\* A host that is up hears its own topic; a retained offline is the last message
\* on its way to it, and a retained online is its own.
RepairInv ==
    /\ link.open /\ phase = "subscribed" => subscribed
    /\ Started =>
          /\ subscribed
          /\ Len(retained) = 1
          /\ IF retained[1].online
             THEN retained[1] = Online(state_ts)
             ELSE inbox # << >> /\ inbox[Len(inbox)] = retained[1]
-----------------------------------------------------------------------------
\* What the broker does with a message keeps its queues typed.
QueuesOK ==
    /\ inbox \in Seq(StatePayload)
    /\ retained \in Seq(StatePayload) /\ Len(retained) <= 1
    /\ posted \in Seq(StatePayload)

\* The empty queue is a queue of messages.
LEMMA EmptyQueue == << >> \in Seq(StatePayload) /\ Len(<< >>) = 0
  OBVIOUS

\* A process that has not connected has no will.
LEMMA NoLinkType ==
  NoLink \in [open : BOOLEAN, will : 0 .. MaxTime] /\ ~NoLink.open
  BY PrimaryHostAssumption DEF NoLink

\* What the broker hands out leaves all queues well formed.
LEMMA HandOutType ==
  ASSUME QueuesOK, NEW m \in StatePayload, NEW box \in Seq(StatePayload),
         HandOut(m, box)
  PROVE  QueuesOK'
<1>1. /\ posted' = <<m>>
      /\ retained' = <<m>>
      /\ inbox' = Append(box, m) \/ inbox' = box
  BY DEF HandOut
<1>2. <<m>> \in Seq(StatePayload) /\ Len(<<m>>) = 1 /\ Append(box, m) \in Seq(StatePayload)
  OBVIOUS
<1>3. inbox' \in Seq(StatePayload)
  BY <1>1, <1>2
<1>4. retained' \in Seq(StatePayload) /\ posted' \in Seq(StatePayload)
  BY <1>1, <1>2
<1>5. Len(retained') = 1
  BY <1>1
<1> QED
  BY <1>3, <1>4, <1>5 DEF QueuesOK

\* The same for a step in which it hands nothing out.
LEMMA HandOutNothingType ==
  ASSUME QueuesOK, NEW box \in Seq(StatePayload), HandOutNothing(box)
  PROVE  QueuesOK'
<1>1. posted' = << >> /\ retained' = retained /\ inbox' = box
  BY DEF HandOutNothing
<1> QED
  BY <1>1, EmptyQueue DEF QueuesOK

\* The same for a publish, whether the connection is up or not.
LEMMA PostType ==
  ASSUME QueuesOK, NEW m \in StatePayload, NEW box \in Seq(StatePayload), Post(m, box)
  PROVE  QueuesOK'
<1>1. HandOut(m, box) \/ HandOutNothing(box)
  BY DEF Post
<1> QED
  BY <1>1, HandOutType, HandOutNothingType

\* A STATE of any moment of the clock is well formed.
LEMMA PayloadType ==
  ASSUME NEW ts \in Nat
  PROVE  Online(ts) \in StatePayload /\ Offline(ts) \in StatePayload
  BY DEF Online, Offline, StatePayload

\* The wills the broker owes carry times of the clock.
LEMMA WillsDueType ==
  ASSUME PrimaryTypeOK
  PROVE  WillsDue \subseteq 1 .. MaxTime
<1>1. link.open => link.will \in 1 .. MaxTime
  BY PrimaryHostAssumption DEF PrimaryTypeOK
<1> QED
  BY <1>1 DEF PrimaryTypeOK, WillsDue

-----------------------------------------------------------------------------
(* Type correctness. *)

\* Every step of the host and of the broker preserves the type invariant.
LEMMA PrimaryTypeStep ==
  ASSUME PrimaryTypeOK, [PrimaryNext]_primaryVars
  PROVE  PrimaryTypeOK'
<1> USE PrimaryHostAssumption
<1>0. QueuesOK
  BY DEF PrimaryTypeOK, QueuesOK
<1>1. CASE StartRefused
  <2>1. now' \in 0 .. MaxTime /\ state_ts' \in 0 .. MaxTime
    BY <1>1 DEF StartRefused, MayStart, ReadClock, PrimaryTypeOK
  <2>2. QueuesOK'
    BY <1>0, <1>1, HandOutNothingType DEF StartRefused, PrimaryTypeOK
  <2> QED
    BY <1>1, <2>1, <2>2 DEF StartRefused, PrimaryTypeOK, QueuesOK
<1>2. CASE StartConnects
  <2>1. now' \in 0 .. MaxTime /\ state_ts' \in 1 .. MaxTime
    BY <1>2 DEF StartConnects, MayStart, ReadClock, PrimaryTypeOK
  <2>2. /\ link' \in [open : BOOLEAN, will : 0 .. MaxTime]
        /\ link'.will # 0
        /\ state_ts' \in 0 .. MaxTime
    BY <1>2, <2>1 DEF StartConnects, WillTs
  <2>3. QueuesOK'
    BY <1>0, <1>2, HandOutNothingType, EmptyQueue DEF StartConnects
  <2>4. late_offlines' \subseteq 1 .. MaxTime
    BY <1>2, WillsDueType DEF StartConnects
  <2> QED
    BY <1>2, <2>1, <2>2, <2>3, <2>4 DEF StartConnects, PrimaryTypeOK, Phase, QueuesOK
<1>3. CASE StartSubscribes
  <2>1. /\ inbox \o retained \in Seq(StatePayload)
        /\ inbox \in Seq(StatePayload)
    BY DEF PrimaryTypeOK
  <2>2. QueuesOK'
    BY <1>0, <1>3, <2>1, HandOutNothingType DEF StartSubscribes, SubscribesToState
  <2> QED
    BY <1>3, <2>2 DEF StartSubscribes, SubscribesToState, PrimaryTypeOK, Phase, QueuesOK
<1>4. CASE StartAnnounces
  <2>1. Online(BirthTs) \in StatePayload
    BY PayloadType DEF BirthTs, PrimaryTypeOK
  <2>2. QueuesOK'
    BY <1>0, <1>4, <2>1, PostType, HandOutNothingType DEF StartAnnounces, PrimaryTypeOK
  <2> QED
    BY <1>4, <2>2 DEF StartAnnounces, PrimaryTypeOK, Phase, QueuesOK
<1>5. CASE HandleOwnState
  <2>1. Online(BirthTs) \in StatePayload
    BY PayloadType DEF BirthTs, PrimaryTypeOK
  <2>2. Tail(inbox) \in Seq(StatePayload)
    BY <1>5 DEF HandleOwnState, PrimaryTypeOK
  <2>3. QueuesOK'
    BY <1>0, <1>5, <2>1, <2>2, PostType, HandOutNothingType DEF HandleOwnState, PrimaryTypeOK
  <2> QED
    BY <1>5, <2>3 DEF HandleOwnState, PrimaryTypeOK, QueuesOK
<1>6. CASE ShutdownPublishes
  <2>1. now' \in 0 .. MaxTime
    BY <1>6 DEF ShutdownPublishes
  <2>2. Offline(now') \in StatePayload
    BY <2>1, PayloadType
  <2>3. QueuesOK'
    BY <1>0, <1>6, <2>2, PostType, HandOutNothingType DEF ShutdownPublishes, PrimaryTypeOK
  <2> QED
    BY <1>6, <2>1, <2>3 DEF ShutdownPublishes, PrimaryTypeOK, Phase, QueuesOK
<1>7. CASE ShutdownDisconnects
  <2>1. QueuesOK'
    BY <1>0, <1>7, HandOutNothingType DEF ShutdownDisconnects, PrimaryTypeOK
  <2> QED
    BY <1>7, <2>1 DEF ShutdownDisconnects, PrimaryTypeOK, Phase, QueuesOK
<1>8. CASE PublishWill
  <2>1. PICK ts \in late_offlines :
               late_offlines' = late_offlines \ {ts} /\ HandOut(Offline(ts), inbox)
    BY <1>8 DEF PublishWill
  <2>2. Offline(ts) \in StatePayload
    BY PayloadType DEF PrimaryTypeOK
  <2>3. QueuesOK'
    BY <1>0, <2>1, <2>2, HandOutType DEF PrimaryTypeOK
  <2> QED
    BY <1>8, <2>1, <2>3 DEF PublishWill, PrimaryTypeOK, QueuesOK
<1>9. CASE LinkLost
  <2>1. QueuesOK'
    BY <1>0, <1>9, HandOutNothingType, EmptyQueue DEF LinkLost, PrimaryTypeOK
  <2>2. late_offlines' \subseteq 1 .. MaxTime
    BY <1>9, WillsDueType DEF LinkLost
  <2> QED
    BY <1>9, <2>1, <2>2 DEF LinkLost, PrimaryTypeOK, QueuesOK
<1>10. CASE HostCrash
  <2>1. QueuesOK'
    BY <1>0, <1>10, HandOutNothingType, EmptyQueue DEF HostCrash
  <2>2. late_offlines' \subseteq 1 .. MaxTime
    BY <1>10, WillsDueType DEF HostCrash
  <2>3. link' \in [open : BOOLEAN, will : 0 .. MaxTime] /\ ~link'.open
    BY <1>10, NoLinkType DEF HostCrash
  <2>4. now' \in 0 .. MaxTime /\ state_ts' \in 0 .. MaxTime
    BY <1>10 DEF HostCrash, PrimaryTypeOK
  <2> QED
    BY <1>10, <2>1, <2>2, <2>3, <2>4 DEF HostCrash, PrimaryTypeOK, Phase, QueuesOK
<1>11. CASE UNCHANGED primaryVars
  BY <1>11 DEF primaryVars, PrimaryTypeOK
<1> QED
  BY <1>1, <1>2, <1>3, <1>4, <1>5, <1>6, <1>7, <1>8, <1>9, <1>10, <1>11
  DEF PrimaryNext

\* The machinery starts well typed.
LEMMA PrimaryInitType ==
  ASSUME PrimaryInit
  PROVE  PrimaryTypeOK
<1>1. now \in 0 .. MaxTime /\ state_ts \in 0 .. MaxTime
  BY PrimaryHostAssumption DEF PrimaryInit
<1>2. link \in [open : BOOLEAN, will : 0 .. MaxTime] /\ ~link.open
  BY NoLinkType DEF PrimaryInit
<1>3. /\ inbox \in Seq(StatePayload)
      /\ retained \in Seq(StatePayload) /\ Len(retained) <= 1
      /\ posted \in Seq(StatePayload)
  BY EmptyQueue DEF PrimaryInit
<1> QED
  BY <1>1, <1>2, <1>3 DEF PrimaryInit, PrimaryTypeOK, Phase

\* It starts with no link and nothing retained.
LEMMA PrimaryInitInv ==
  ASSUME PrimaryInit
  PROVE  LinkInv /\ OnlineHasWill /\ RepairInv
<1>1. ~link.open /\ DOMAIN retained = {}
  BY NoLinkType DEF PrimaryInit
<1> QED
  BY <1>1 DEF LinkInv, OnlineHasWill, RepairInv, Started

\* The host's STATE machinery is well typed whatever the broker does, and each
\* will carries a time at which start has read the clock (HostApplication::start).
THEOREM PrimaryTypeCorrect == PrimarySpec => []PrimaryTypeOK
<1>1. PrimaryInit => PrimaryTypeOK
  BY PrimaryInitType
<1>2. PrimaryTypeOK /\ [PrimaryNext]_primaryVars => PrimaryTypeOK'
  BY PrimaryTypeStep
<1> QED
  BY <1>1, <1>2, PTL DEF PrimarySpec

-----------------------------------------------------------------------------
(* A retained online STATE has its will. *)

PrimaryInv == PrimaryTypeOK /\ LinkInv /\ OnlineHasWill

\* What is retained after a will, or any offline, is not online.
LEMMA RetainedOffline ==
  ASSUME NEW ts, NEW box, HandOut(Offline(ts), box)
  PROVE  \A i \in DOMAIN retained' : ~retained'[i].online
<1>1. retained' = <<Offline(ts)>> /\ ~Offline(ts).online
  BY DEF HandOut, Offline
<1> QED
  BY <1>1

\* What is retained after a birth carries its timestamp.
LEMMA RetainedOnline ==
  ASSUME NEW ts, NEW box, HandOut(Online(ts), box)
  PROVE  \A i \in DOMAIN retained' : retained'[i].timestamp = ts
<1>1. retained' = <<Online(ts)>> /\ Online(ts).timestamp = ts
  BY DEF HandOut, Online
<1> QED
  BY <1>1

\* The end of a connection leaves its will due.
LEMMA WillStaysDue ==
  ASSUME OnlineHasWill, late_offlines' = WillsDue, retained' = retained
  PROVE  OnlineHasWill'
<1> SUFFICES ASSUME NEW i \in DOMAIN retained, retained[i].online
             PROVE  retained[i].timestamp \in WillsDue
  BY DEF OnlineHasWill
<1> QED
  BY DEF OnlineHasWill, WillsDue

\* Publishing the engine's own birth.
LEMMA BirthHasWill ==
  ASSUME LinkInv, OnlineHasWill, NEW box,
         Post(Online(BirthTs), box) \/ HandOutNothing(box),
         UNCHANGED <<link, late_offlines>>
  PROVE  OnlineHasWill'
<1>1. CASE link.open /\ HandOut(Online(state_ts), box)
  BY <1>1, RetainedOnline DEF LinkInv, OnlineHasWill
<1>2. CASE HandOutNothing(box)
  BY <1>2 DEF HandOutNothing, OnlineHasWill
<1> QED
  BY <1>1, <1>2 DEF Post, BirthTs

\* Every step preserves OnlineHasWill together with LinkInv, which it rests on.
LEMMA PrimaryInvStep ==
  ASSUME PrimaryInv, [PrimaryNext]_primaryVars, ~StartWhileOpen
  PROVE  LinkInv' /\ OnlineHasWill'
<1> USE DEF PrimaryInv
<1>1. CASE StartRefused
  <2>1. ~link.open /\ link' = link /\ late_offlines' = late_offlines /\ retained' = retained
    BY <1>1 DEF StartRefused, MayStart, HandOutNothing
  <2> QED
    BY <2>1 DEF LinkInv, OnlineHasWill
<1>2. CASE StartConnects
  <2>1. link'.will = state_ts' /\ phase' = "connected" /\ retained' = retained
    BY <1>2 DEF StartConnects, WillTs, HandOutNothing
  <2>2. OnlineHasWill'
    BY <1>2, <2>1, WillStaysDue DEF StartConnects
  <2> QED
    BY <2>1, <2>2 DEF LinkInv
<1>3. CASE StartSubscribes
  <2>1. /\ UNCHANGED <<link, state_ts, late_offlines, retained>>
        /\ phase' # "leaving"
    BY <1>3 DEF StartSubscribes, SubscribesToState, HandOutNothing
  <2> QED
    BY <2>1 DEF LinkInv, OnlineHasWill
<1>4. CASE StartAnnounces
  <2>1. UNCHANGED <<link, state_ts>> /\ phase' = "idle"
    BY <1>4 DEF StartAnnounces
  <2>2. OnlineHasWill'
    BY <1>4, BirthHasWill DEF StartAnnounces
  <2> QED
    BY <2>1, <2>2 DEF LinkInv
<1>5. CASE HandleOwnState
  <2>1. UNCHANGED <<link, state_ts>> /\ phase' = "idle"
    BY <1>5 DEF HandleOwnState
  <2>2. OnlineHasWill'
    BY <1>5, BirthHasWill DEF HandleOwnState
  <2> QED
    BY <2>1, <2>2 DEF LinkInv
<1>6. CASE ShutdownPublishes
  <2>1. UNCHANGED <<link, state_ts, late_offlines>>
    BY <1>6 DEF ShutdownPublishes
  <2>2. CASE link.open /\ HandOut(Offline(now'), inbox)
    <3>1. \A i \in DOMAIN retained' : ~retained'[i].online
      BY <2>2, RetainedOffline
    <3> QED
      BY <2>1, <3>1 DEF LinkInv, OnlineHasWill
  <2>3. CASE HandOutNothing(inbox) /\ (link.open => phase' = "idle")
    BY <2>1, <2>3 DEF LinkInv, OnlineHasWill, HandOutNothing
  <2> QED
    BY <1>6, <2>2, <2>3 DEF ShutdownPublishes, Post
<1>7. CASE ShutdownDisconnects
  <2>1. /\ phase = "leaving" /\ phase' = "idle"
        /\ UNCHANGED <<state_ts, late_offlines, retained>>
        /\ link' = link \/ ~link'.open
    BY <1>7 DEF ShutdownDisconnects, HandOutNothing, PrimaryTypeOK
  <2>2. link.open => \A i \in DOMAIN retained : ~retained[i].online
    BY <2>1 DEF LinkInv
  <2> QED
    BY <2>1, <2>2 DEF LinkInv, OnlineHasWill
<1>8. CASE PublishWill
  <2>1. UNCHANGED <<link, state_ts, phase>>
    BY <1>8 DEF PublishWill
  <2>2. \A i \in DOMAIN retained' : ~retained'[i].online
    BY <1>8, RetainedOffline DEF PublishWill
  <2> QED
    BY <2>1, <2>2 DEF LinkInv, OnlineHasWill
<1>9. CASE LinkLost
  <2>1. ~link'.open /\ retained' = retained
    BY <1>9 DEF LinkLost, HandOutNothing, PrimaryTypeOK
  <2>2. OnlineHasWill'
    BY <1>9, <2>1, WillStaysDue DEF LinkLost
  <2> QED
    BY <2>1, <2>2 DEF LinkInv
<1>10. CASE HostCrash
  <2>1. ~link'.open /\ retained' = retained
    BY <1>10, NoLinkType DEF HostCrash, HandOutNothing
  <2>2. OnlineHasWill'
    BY <1>10, <2>1, WillStaysDue DEF HostCrash
  <2> QED
    BY <2>1, <2>2 DEF LinkInv
<1>11. CASE UNCHANGED primaryVars
  BY <1>11 DEF primaryVars, LinkInv, OnlineHasWill
<1> QED
  BY <1>1, <1>2, <1>3, <1>4, <1>5, <1>6, <1>7, <1>8, <1>9, <1>10, <1>11
  DEF PrimaryNext

\* A host that dies is never left online, however its wills, starts, shutdowns
\* and repairs interleave, if start is not called on a live connection
\* (publish_state_birth, shutdown).
THEOREM OnlineHasWillHolds ==
  ASSUME ~StartWhileOpen
  PROVE  PrimarySpec => []OnlineHasWill
<1>1. PrimaryInit => LinkInv /\ OnlineHasWill
  BY PrimaryInitInv
<1>2. PrimaryInv /\ [PrimaryNext]_primaryVars => LinkInv' /\ OnlineHasWill'
  BY PrimaryInvStep
<1>3. PrimaryTypeOK /\ LinkInv /\ OnlineHasWill => PrimaryInv
  BY DEF PrimaryInv
<1> QED
  BY <1>1, <1>2, <1>3, PrimaryTypeCorrect, PTL DEF PrimarySpec

-----------------------------------------------------------------------------
(* The host reasserts its STATE. *)

\* The queue after the host has taken its first message.
LEMMA LastOfTail ==
  ASSUME NEW box \in Seq(StatePayload), box # << >>
  PROVE  /\ Tail(box) \in Seq(StatePayload)
         /\ Len(box) = 1 => box[Len(box)] = Head(box)
         /\ Len(box) # 1 => /\ Tail(box) # << >>
                            /\ Tail(box)[Len(Tail(box))] = box[Len(box)]
<1>1. /\ Head(box) = box[1]
      /\ Tail(box) \in Seq(StatePayload)
      /\ Len(Tail(box)) = Len(box) - 1
      /\ \A i \in 1 .. Len(Tail(box)) : Tail(box)[i] = box[i + 1]
  BY HeadTailProperties
<1>2. Len(box) \in Nat \ {0}
  OBVIOUS
<1>3. ASSUME Len(box) # 1
      PROVE  /\ Tail(box) # << >>
             /\ Tail(box)[Len(Tail(box))] = box[Len(box)]
  <2>1. Len(Tail(box)) \in 1 .. Len(Tail(box)) /\ Len(Tail(box)) + 1 = Len(box)
    BY <1>1, <1>2, <1>3
  <2>2. Tail(box)[Len(Tail(box))] = box[Len(box)]
    BY <1>1, <2>1
  <2>3. Tail(box) # << >>
    <3>1. Len(Tail(box)) # 0
      BY <1>1, <1>2, <1>3
    <3> QED
      BY <3>1, EmptyQueue, Zenon
  <2> QED
    BY <2>2, <2>3
<1> QED
  BY <1>1, <1>2, <1>3

\* What the broker hands out becomes the last message to a host that listens.
LEMMA LastHandedOut ==
  ASSUME NEW m \in StatePayload, NEW box \in Seq(StatePayload), subscribed,
         HandOut(m, box)
  PROVE  /\ Len(retained') = 1 /\ retained'[1] = m
         /\ inbox' # << >> /\ inbox'[Len(inbox')] = m
<1>1. retained' = <<m>> /\ inbox' = Append(box, m)
  BY DEF HandOut
<1>2. Len(<<m>>) = 1 /\ <<m>>[1] = m
  OBVIOUS
<1>3. /\ Append(box, m) # << >>
      /\ Append(box, m)[Len(Append(box, m))] = m
  OBVIOUS
<1> QED
  BY <1>1, <1>2, <1>3

\* Every step preserves RepairInv, from which Reasserted follows.
LEMMA RepairStep ==
  ASSUME PrimaryTypeOK, RepairInv, [PrimaryNext]_primaryVars
  PROVE  RepairInv'
<1>1. CASE StartRefused
  BY <1>1 DEF StartRefused, MayStart, RepairInv, Started
<1>2. CASE StartConnects
  BY <1>2 DEF StartConnects, RepairInv, Started
<1>3. CASE StartSubscribes
  <2>1. CASE phase' = "subscribed" /\ subscribed' = link.open /\ link' = link
    BY <2>1 DEF RepairInv, Started
  <2>2. CASE phase' = "idle" /\ failed'
    BY <2>2 DEF RepairInv, Started
  <2> QED
    BY <1>3, <2>1, <2>2 DEF StartSubscribes, SubscribesToState
<1>4. CASE StartAnnounces
  <2> SUFFICES ASSUME Started' PROVE RepairInv'
    BY <1>4 DEF StartAnnounces, RepairInv
  <2>1. subscribed /\ subscribed' /\ link.open /\ state_ts' = state_ts
    BY <1>4 DEF StartAnnounces, RepairInv, Started
  <2>2. HandOut(Online(state_ts), inbox)
    BY <1>4, <2>1 DEF StartAnnounces, Started, Post, BirthTs
  <2>3. Online(state_ts) \in StatePayload /\ Online(state_ts).online
    BY PayloadType, PrimaryHostAssumption DEF PrimaryTypeOK, Online
  <2>4. Len(retained') = 1 /\ retained'[1] = Online(state_ts)
    BY <2>1, <2>2, <2>3, LastHandedOut DEF PrimaryTypeOK
  <2>5. phase' = "idle"
    BY <1>4 DEF StartAnnounces
  <2> QED
    BY <2>1, <2>3, <2>4, <2>5 DEF RepairInv, Online
<1>5. CASE HandleOwnState
  <2> SUFFICES ASSUME Started' PROVE RepairInv'
    BY <1>5 DEF HandleOwnState, RepairInv
  <2>1. /\ phase = "idle" /\ phase' = "idle" /\ inbox # << >>
        /\ UNCHANGED <<state_ts, link, subscribed>>
    BY <1>5 DEF HandleOwnState
  <2>2. Started /\ subscribed /\ link.open /\ ~failed'
    BY <1>5, <2>1 DEF HandleOwnState, RepairInv, Started
  <2>3. CASE HandOut(Online(state_ts), Tail(inbox))
    <3>1. Online(state_ts) \in StatePayload /\ Online(state_ts).online
      BY PayloadType, PrimaryHostAssumption DEF PrimaryTypeOK, Online
    <3>2. Len(retained') = 1 /\ retained'[1] = Online(state_ts)
      BY <2>1, <2>2, <2>3, <3>1, LastHandedOut, LastOfTail DEF PrimaryTypeOK
    <3> QED
      BY <2>1, <2>2, <3>1, <3>2 DEF RepairInv, Online
  <2>4. CASE Head(inbox).online /\ HandOutNothing(Tail(inbox))
    <3>1. inbox' = Tail(inbox) /\ retained' = retained
      BY <2>4 DEF HandOutNothing
    <3>2. ~retained[1].online => Len(inbox) # 1
      BY <2>1, <2>2, <2>4, LastOfTail DEF RepairInv, PrimaryTypeOK
    <3>3. ~retained[1].online =>
            inbox' # << >> /\ inbox'[Len(inbox')] = retained[1]
      BY <2>1, <2>2, <3>1, <3>2, LastOfTail DEF RepairInv, PrimaryTypeOK
    <3> QED
      BY <2>1, <2>2, <3>1, <3>3 DEF RepairInv, Online
  <2> QED
    BY <1>5, <2>2, <2>3, <2>4 DEF HandleOwnState, NeedsRepair, Post, BirthTs
<1>6. CASE ShutdownPublishes
  <2>1. phase' = "leaving" \/ (phase' = "idle" /\ failed')
    BY <1>6 DEF ShutdownPublishes
  <2> QED
    BY <2>1 DEF RepairInv, Started
<1>7. CASE ShutdownDisconnects
  <2>1. phase' = "idle" /\ (~link'.open \/ failed')
    BY <1>7 DEF ShutdownDisconnects, PrimaryTypeOK
  <2> QED
    BY <2>1 DEF RepairInv, Started
<1>8. CASE PublishWill
  <2>1. PICK ts \in late_offlines : HandOut(Offline(ts), inbox)
    BY <1>8 DEF PublishWill
  <2>2. UNCHANGED <<state_ts, phase, link, subscribed, failed>>
    BY <1>8 DEF PublishWill
  <2>3. Offline(ts) \in StatePayload /\ ~Offline(ts).online
    BY PayloadType, PrimaryHostAssumption DEF PrimaryTypeOK, Offline
  <2>4. ASSUME Started'
        PROVE  /\ subscribed'
               /\ Len(retained') = 1 /\ retained'[1] = Offline(ts)
               /\ inbox' # << >> /\ inbox'[Len(inbox')] = Offline(ts)
    <3>1. subscribed
      BY <2>2, <2>4 DEF RepairInv, Started
    <3> QED
      BY <2>1, <2>2, <2>3, <3>1, LastHandedOut DEF PrimaryTypeOK
  <2> QED
    BY <2>2, <2>3, <2>4 DEF RepairInv
<1>9. CASE LinkLost
  <2>1. ~link'.open
    BY <1>9 DEF LinkLost, PrimaryTypeOK
  <2> QED
    BY <2>1 DEF RepairInv, Started
<1>10. CASE HostCrash
  <2>1. ~link'.open
    BY <1>10, NoLinkType DEF HostCrash
  <2> QED
    BY <2>1 DEF RepairInv, Started
<1>11. CASE UNCHANGED primaryVars
  BY <1>11 DEF primaryVars, RepairInv, Started
<1> QED
  BY <1>1, <1>2, <1>3, <1>4, <1>5, <1>6, <1>7, <1>8, <1>9, <1>10, <1>11
  DEF PrimaryNext

\* A host that is up, and has seen what the broker handed out, is retained as
\* online: no late will is the last word (handle_incoming's repair).
THEOREM ReassertedHolds == PrimarySpec => []Reasserted
<1>1. PrimaryInit => RepairInv
  BY PrimaryInitInv
<1>2. PrimaryTypeOK /\ RepairInv /\ [PrimaryNext]_primaryVars => RepairInv'
  BY RepairStep
<1>3. PrimaryTypeOK /\ RepairInv => Reasserted
  <2> SUFFICES ASSUME PrimaryTypeOK, RepairInv, Started, inbox = << >>
               PROVE  retained = <<Online(state_ts)>>
    BY DEF Reasserted
  <2>1. Len(retained) = 1 /\ retained[1] = Online(state_ts)
    BY DEF RepairInv
  <2> QED
    BY <2>1 DEF PrimaryTypeOK
<1> QED
  BY <1>1, <1>2, <1>3, PrimaryTypeCorrect, PTL DEF PrimarySpec
=============================================================================
