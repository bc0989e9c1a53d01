--------------------------- MODULE EdgeNode_proofs ---------------------------
(***************************************************************************)
(* Theorems about EdgeNode, for every device list, data source, modulus    *)
(* and set of configurations.                                              *)
(***************************************************************************)
EXTENDS EdgeNode, TLAPS, WellFoundedInduction
-----------------------------------------------------------------------------
(* Strengthenings that make the properties inductive. *)

\* A live connection is the one bd_seq was loaded for, and the store is one
\* ahead of it.
SessionInv ==
    session.open => session.will = bd_seq /\ store = NextDeath(bd_seq)

DevicesAnnounced == \A d \in born_devices : announced[d] # None

\* While births are published, those done so far are known to the broker; and
\* when the application has seen no error, so is everything it may report on.
AnnouncedInv ==
    /\ birth # None =>
          /\ birth.at = 0 => born_devices = {}
          /\ session.open =>
                DevicesAnnounced /\ (birth.at > 0 => announced[None] # None)
    /\ lifecycle_ok /\ session.open =>
          /\ state = "Online" => announced[None] # None
          /\ state # "WaitingForPrimaryHost" => DevicesAnnounced

\* Every name is bound to nothing, or to a place it has in `names', counted
\* from `first'.
Numbered(names, first) ==
    \A i \in DOMAIN names :
        \/ aliases[names[i]] = None
        \/ \E j \in DOMAIN names :
              names[j] = names[i] /\ aliases[names[i]] = first + j - 1

\* No metric name is used by two scopes.
NamesApart ==
    /\ \A d \in Devices, i \in DOMAIN NodeMetrics :
          \A j \in DOMAIN DeviceMetrics[d] : NodeMetrics[i] # DeviceMetrics[d][j]
    /\ \A d, e \in Devices : d # e =>
          \A i \in DOMAIN DeviceMetrics[d], j \in DOMAIN DeviceMetrics[e] :
              DeviceMetrics[d][i] # DeviceMetrics[e][j]

\* The device's birth, if the broker has it, lists its metrics under the aliases
\* the registry holds.
BornAsNumbered(d) ==
    announced[d] # None =>
        \E first \in 0 .. next_alias :
            /\ announced[d] = Aliased(DeviceMetrics[d], first)
            /\ Numbered(DeviceMetrics[d], first)

\* Node metrics are numbered from 0 by every birth sequence, so a node birth the
\* broker kept from before a failed one still names them right; device metrics
\* are not, and agree for the devices born since.
AliasInv ==
    /\ config.use_aliases => (birth # None /\ birth.at = 0 => next_alias = 0)
    /\ ~config.use_aliases => aliases = Unbound
    /\ Numbered(NodeMetrics, 0)
    /\ announced[None] \in {None, Aliased(NodeMetrics, 0)}
    /\ birth # None =>
          born_devices \subseteq {DeviceList[i] : i \in 1 .. birth.at - 1}
    /\ session.open => \A d \in born_devices : BornAsNumbered(d)
-----------------------------------------------------------------------------
\* A wrapping counter stays in range.
LEMMA WrapIncType ==
    ASSUME NEW mod \in Nat \ {0}, NEW n \in 0 .. mod - 1
    PROVE  WrapInc(n, mod) \in 0 .. mod - 1
BY DEF WrapInc

\* ... and always moves: the counter has at least two values.
LEMMA WrapIncMoves ==
    ASSUME NEW mod \in Nat \ {0, 1}, NEW n \in 0 .. mod - 1
    PROVE  WrapInc(n, mod) # n
BY DEF WrapInc

LEMMA SeqIncType == \A n \in Seqs : WrapInc(n, SeqMod) \in Seqs
BY WrapIncType, SparkplugAssumption DEF Seqs

LEMMA ZeroType == 0 \in Seqs /\ 0 \in BdSeqs
BY SparkplugAssumption DEF Seqs, BdSeqs

\* What an engine fresh from EdgeNode::new holds.
LEMMA FreshType ==
    /\ Unbound \in [Names -> Nat \cup {None}]
    /\ NothingAnnounced \in [Scopes -> Seq(Metric) \cup {None}]
    /\ NoSession \in [open : BOOLEAN, will : BdSeqs \cup {None}]
    /\ << >> \in Seq(Message)
BY DEF Unbound, NothingAnnounced, NoSession

LEMMA NextDeathType == \A bd \in BdSeqs : NextDeath(bd) \in BdSeqs /\ NextDeath(bd) # bd
BY WrapIncType, WrapIncMoves, SparkplugAssumption DEF BdSeqs, NextDeath

\* What assign_aliases adds to a birth payload are well formed metrics.
LEMMA AliasedType ==
    ASSUME NEW names \in Seq(Names), NEW first \in Nat
    PROVE  Aliased(names, first) \in Seq(Metric)
<1>1. \A i \in 1 .. Len(names) :
          [name |-> names[i],
           alias |-> IF config.use_aliases THEN first + i - 1 ELSE None,
           value |-> names[i],
           typed |-> TRUE] \in Metric
  BY DEF Metric
<1>2. DOMAIN names = 1 .. Len(names)
  OBVIOUS
<1>3. Aliased(names, first) \in [1 .. Len(names) -> Metric]
  BY <1>1, <1>2 DEF Aliased
<1> QED
  BY <1>3

\* Binding a list of names leaves the registry well formed.
LEMMA BindType ==
    ASSUME NEW names \in Seq(Names), NEW first \in Nat,
           aliases \in [Names -> Nat \cup {None}]
    PROVE  Bind(names, first) \in [Names -> Nat \cup {None}]
<1> SUFFICES ASSUME NEW n \in Names, \E i \in DOMAIN names : LastNamed(names, n, i)
             PROVE  first - 1 + (CHOOSE i \in DOMAIN names : LastNamed(names, n, i)) \in Nat
  BY DEF Bind
<1>1. (CHOOSE i \in DOMAIN names : LastNamed(names, n, i)) \in DOMAIN names
  OBVIOUS
<1> QED
  BY <1>1
-----------------------------------------------------------------------------
(* What the helpers do to the variables they set, given TypeOK. *)

LEMMA SendType ==
    ASSUME TypeOK, NEW m \in Message, Send(m)
    PROVE  /\ announced' \in [Scopes -> Seq(Metric) \cup {None}]
           /\ out' \in Seq(Message)
<1>1. Announce(m) \in [Scopes -> Seq(Metric) \cup {None}]
  BY DEF TypeOK, Announce, NothingAnnounced, Message
<1> QED
  BY <1>1 DEF TypeOK, Send

LEMMA QuietType ==
    ASSUME TypeOK, Quiet
    PROVE  /\ announced' \in [Scopes -> Seq(Metric) \cup {None}]
           /\ out' \in Seq(Message)
BY DEF TypeOK, Quiet

LEMMA AssignAliasesType ==
    ASSUME TypeOK, NEW names \in Seq(Names), AssignAliases(names)
    PROVE  /\ aliases' \in [Names -> Nat \cup {None}]
           /\ next_alias' \in Nat
<1>1. Bind(names, next_alias) \in [Names -> Nat \cup {None}]
  BY BindType DEF TypeOK
<1>2. next_alias + Len(names) \in Nat
  BY DEF TypeOK
<1> QED
  BY <1>1, <1>2 DEF AssignAliases, TypeOK

LEMMA StartBirthsType ==
    ASSUME TypeOK, NEW by \in Caller, StartBirths(by)
    PROVE  /\ seq' \in Seqs
           /\ aliases' \in [Names -> Nat \cup {None}]
           /\ next_alias' \in Nat
           /\ born_devices' \subseteq Devices
           /\ birth' \in BirthProgress \cup {None}
BY SparkplugAssumption
DEF TypeOK, StartBirths, Unbound, BornAtStart, BirthProgress, Seqs

LEMMA TakeBdSeqType ==
    ASSUME TypeOK, TakeBdSeq
    PROVE  bd_seq' \in BdSeqs /\ store' \in BdSeqs
BY NextDeathType DEF TypeOK, TakeBdSeq

LEMMA OpenType ==
    ASSUME TypeOK, bd_seq' \in BdSeqs, Open
    PROVE  /\ session' \in [open : BOOLEAN, will : BdSeqs \cup {None}]
           /\ announced' \in [Scopes -> Seq(Metric) \cup {None}]
           /\ out' \in Seq(Message)
BY DEF TypeOK, Open, NothingAnnounced

LEMMA BirthStepType ==
    ASSUME TypeOK, ~Idle, BirthPublished \/ BirthFailed
    PROVE  /\ birth' \in BirthProgress \cup {None}
           /\ state' \in EdgeState
           /\ debouncing' \in BOOLEAN
           /\ lifecycle_ok' \in BOOLEAN
<1>1. birth \in BirthProgress /\ Len(DeviceList) \in Nat
  BY SparkplugAssumption DEF TypeOK, Idle
<1>2. ASSUME birth.at < Len(DeviceList)
      PROVE  [birth EXCEPT !.at = @ + 1] \in BirthProgress
  BY <1>1, <1>2 DEF BirthProgress
<1> QED
  BY <1>1, <1>2
  DEF TypeOK, BirthPublished, BirthFailed, BirthsDone, EdgeState

LEMMA DataMetricType ==
    ASSUME TypeOK, NEW n \in Names
    PROVE  DataMetric(n) \in Metric
BY DEF TypeOK, DataMetric, Metric

LEMMA SequencedType ==
    ASSUME NEW type \in MessageType, NEW s \in Scopes, NEW n \in Seqs,
           NEW metrics \in Seq(Metric)
    PROVE  Sequenced(type, s, n, metrics) \in Message
BY DEF Sequenced, Message

LEMMA DeathType ==
    ASSUME TypeOK
    PROVE  NodeDeath(bd_seq) \in Message
BY DEF TypeOK, NodeDeath, Message, MessageType, Scopes

LEMMA DisconnectType ==
    ASSUME TypeOK, DisconnectOk \/ DisconnectFails
    PROVE  /\ announced' \in [Scopes -> Seq(Metric) \cup {None}]
           /\ out' \in Seq(Message)
           /\ session' \in [open : BOOLEAN, will : BdSeqs \cup {None}]
           /\ state' \in EdgeState
           /\ lifecycle_ok' \in BOOLEAN
<1>1. /\ announced' \in [Scopes -> Seq(Metric) \cup {None}]
      /\ out' \in Seq(Message)
  <2>1. CASE SendDeath
    BY <2>1, DeathType, SendType DEF SendDeath
  <2>2. CASE Quiet
    BY <2>2, QuietType
  <2> QED
    BY <2>1, <2>2 DEF DisconnectOk, DisconnectFails
<1> QED
  BY <1>1 DEF TypeOK, DisconnectOk, DisconnectFails, EdgeState

-----------------------------------------------------------------------------

\* Every step keeps every variable within its type (edge.rs, EdgeNode).
LEMMA TypeOKStep == TypeOK /\ [Next]_vars => TypeOK'
<1> SUFFICES ASSUME TypeOK, [Next]_vars
             PROVE  TypeOK'
  OBVIOUS
<1> USE SparkplugAssumption, EdgeNodeAssumption
<1>1. CASE ConnectStoreFails
  BY <1>1, QuietType DEF TypeOK, ConnectStoreFails
<1>2. CASE ConnectRefused
  BY <1>2, QuietType, TakeBdSeqType DEF TypeOK, ConnectRefused
<1>3. CASE ConnectSubscribeFails
  BY <1>3, TakeBdSeqType, OpenType DEF TypeOK, ConnectSubscribeFails
<1>4. CASE ConnectAndWait
  BY <1>4, TakeBdSeqType, OpenType DEF TypeOK, ConnectAndWait, EdgeState
<1>5. CASE ConnectAndBirth
  BY <1>5, TakeBdSeqType, OpenType, StartBirthsType DEF TypeOK, ConnectAndBirth, Caller
<1>6. CASE Disconnect
  BY <1>6, DisconnectType DEF TypeOK, Disconnect
<1>7. CASE PublishNodeBirth
  <2>1. /\ NodeBirth(seq, BirthBdSeq, Aliased(NodeMetrics, next_alias)) \in Message
        /\ seq' \in Seqs
    BY <1>7, AliasedType, SeqIncType
    DEF TypeOK, PublishNodeBirth, NodeBirth, BirthBdSeq, Message, MessageType, Scopes
  <2>2. /\ announced' \in [Scopes -> Seq(Metric) \cup {None}]
        /\ out' \in Seq(Message)
    BY <1>7, <2>1, SendType, QuietType DEF PublishNodeBirth
  <2> QED
    BY <1>7, <2>1, <2>2, BirthStepType, AssignAliasesType DEF TypeOK, PublishNodeBirth
<1>8. CASE PublishDeviceBirth
  <2> DEFINE d == DeviceList[birth.at]
             m == Sequenced("DBIRTH", d, seq, Aliased(DeviceMetrics[d], next_alias))
  <2>1. birth \in BirthProgress /\ birth.at \in 1 .. Len(DeviceList)
    BY <1>8 DEF TypeOK, PublishDeviceBirth, Idle, BirthProgress
  <2>2. d \in Devices
    BY <2>1 DEF Devices
  <2>3. DeviceMetrics[d] \in Seq(Names) /\ Aliased(DeviceMetrics[d], next_alias) \in Seq(Metric)
    BY <2>2, AliasedType DEF TypeOK
  <2>4. m \in Message /\ seq' \in Seqs
    BY <1>8, <2>2, <2>3, SequencedType, SeqIncType
    DEF TypeOK, PublishDeviceBirth, MessageType, Scopes
  <2> HIDE DEF d, m
  <2>5. PublishDeviceBirth =>
          /\ AssignAliases(DeviceMetrics[d])
          /\ \/ Send(m) /\ born_devices' = born_devices \cup {d} /\ BirthPublished
             \/ Quiet /\ BirthFailed /\ UNCHANGED born_devices
    BY DEF PublishDeviceBirth, d, m
  <2>6. /\ announced' \in [Scopes -> Seq(Metric) \cup {None}]
        /\ out' \in Seq(Message)
    BY <1>8, <2>4, <2>5, SendType, QuietType
  <2>7. aliases' \in [Names -> Nat \cup {None}] /\ next_alias' \in Nat
    BY <1>8, <2>3, <2>5, AssignAliasesType
  <2>8. born_devices' \subseteq Devices
    BY <1>8, <2>2, <2>5 DEF TypeOK
  <2> QED
    BY <1>8, <2>4, <2>5, <2>6, <2>7, <2>8, BirthStepType DEF TypeOK, PublishDeviceBirth
<1>9. CASE PublishNodeData
  <2>1. PICK i \in DOMAIN NodeMetrics :
          \/ Send(Sequenced("NDATA", None, seq, <<DataMetric(NodeMetrics[i])>>))
          \/ Quiet
    BY <1>9 DEF PublishNodeData
  <2>2. <<DataMetric(NodeMetrics[i])>> \in Seq(Metric)
    BY <2>1, DataMetricType
  <2>3. Sequenced("NDATA", None, seq, <<DataMetric(NodeMetrics[i])>>) \in Message
    BY <2>2, SequencedType DEF TypeOK, MessageType, Scopes
  <2> QED
    BY <1>9, <2>1, <2>3, SendType, QuietType, SeqIncType DEF TypeOK, PublishNodeData
<1>10. ASSUME NEW d \in Devices, PublishDeviceData(d) PROVE TypeOK'
  <2>1. PICK i \in DOMAIN DeviceMetrics[d] :
          \/ Send(Sequenced("DDATA", d, seq, <<DataMetric(DeviceMetrics[d][i])>>))
          \/ Quiet
    BY <1>10 DEF PublishDeviceData
  <2>2. <<DataMetric(DeviceMetrics[d][i])>> \in Seq(Metric)
    BY <2>1, DataMetricType
  <2>3. Sequenced("DDATA", d, seq, <<DataMetric(DeviceMetrics[d][i])>>) \in Message
    BY <2>2, SequencedType DEF TypeOK, MessageType, Scopes
  <2> QED
    BY <1>10, <2>1, <2>3, SendType, QuietType, SeqIncType DEF TypeOK, PublishDeviceData
<1>11. ASSUME NEW d \in Devices, PublishDeviceDeath(d) PROVE TypeOK'
  <2>1. << >> \in Seq(Metric) /\ d \in Scopes /\ "DDEATH" \in MessageType
    BY <1>11 DEF MessageType, Scopes
  <2>2. Sequenced("DDEATH", d, seq, << >>) \in Message
    BY <2>1, SequencedType DEF TypeOK
  <2> QED
    BY <1>11, <2>2, SendType, QuietType, SeqIncType DEF TypeOK, PublishDeviceDeath
<1>12. CASE CallPublishBirthSequence
  BY <1>12, StartBirthsType, QuietType DEF TypeOK, CallPublishBirthSequence, Caller
<1>13. CASE HandleRebirth
  BY <1>13, StartBirthsType, QuietType DEF TypeOK, HandleRebirth, Caller
<1>14. ASSUME NEW ts \in Timestamps, HandleHostOnline(ts) PROVE TypeOK'
  BY <1>14, StartBirthsType, QuietType DEF TypeOK, HandleHostOnline, Caller
<1>15. ASSUME NEW ts \in Timestamps, HandleHostOffline(ts) PROVE TypeOK'
  BY <1>15, DisconnectType, QuietType DEF TypeOK, HandleHostOffline
<1>16. CASE ConnectionLost
  BY <1>16, QuietType DEF TypeOK, ConnectionLost, fields
<1>17. CASE Crash
  BY <1>17, QuietType, ZeroType, FreshType DEF TypeOK, Crash, EdgeState
<1>18. CASE DebounceElapses
  BY <1>18, QuietType DEF TypeOK, DebounceElapses
<1>19. CASE UNCHANGED vars
  BY <1>19 DEF TypeOK, vars
<1> QED
  BY <1>1, <1>2, <1>3, <1>4, <1>5, <1>6, <1>7, <1>8, <1>9, <1>10, <1>11, <1>12,
     <1>13, <1>14, <1>15, <1>16, <1>17, <1>18, <1>19
  DEF Next, Connect, Publish, Environment

LEMMA InitTypeOK == Init => TypeOK
<1> SUFFICES ASSUME Init PROVE TypeOK
  OBVIOUS
<1>1. /\ announced \in [Scopes -> Seq(Metric) \cup {None}]
      /\ aliases \in [Names -> Nat \cup {None}]
      /\ out \in Seq(Message)
      /\ session \in [open : BOOLEAN, will : BdSeqs \cup {None}]
  BY FreshType DEF Init
<1> QED
  BY <1>1, ZeroType DEF Init, TypeOK, EdgeState

\* The engine's fields and everything it publishes are well typed in every
\* reachable state (edge.rs, EdgeNode).
THEOREM TypeCorrect == Spec => []TypeOK
BY InitTypeOK, TypeOKStep, PTL DEF Spec

-----------------------------------------------------------------------------
(* bdSeq: the will, the births and the deaths of one connection agree, and *)
(* the next connection's differ.                                           *)

LEMMA SessionInvStep ==
    ASSUME ~ReconnectWhileOpen
    PROVE  TypeOK /\ SessionInv /\ [Next]_vars => SessionInv'
<1> SUFFICES ASSUME TypeOK, SessionInv, [Next]_vars, session'.open
             PROVE  session'.will = bd_seq' /\ store' = NextDeath(bd_seq')
  BY DEF SessionInv
<1> USE DEF SessionInv
<1> session \in [open : BOOLEAN, will : BdSeqs \cup {None}]
  BY DEF TypeOK
<1>1. ASSUME UNCHANGED <<session, bd_seq, store>>
      PROVE  session'.will = bd_seq' /\ store' = NextDeath(bd_seq')
  BY <1>1
<1>2. ASSUME TakeBdSeq, Open
      PROVE  session'.will = bd_seq' /\ store' = NextDeath(bd_seq')
  BY <1>2 DEF TakeBdSeq, Open
<1>3. CASE Connect
  <2>1. ~session.open
    BY <1>3 DEF Connect, ConnectStoreFails, ConnectRefused, ConnectSubscribeFails,
                ConnectAndWait, ConnectAndBirth, MayConnect
  <2>2. ~ConnectStoreFails /\ ~ConnectRefused
    BY <2>1 DEF ConnectStoreFails, ConnectRefused
  <2> QED
    BY <1>2, <1>3, <2>2 DEF Connect, ConnectSubscribeFails, ConnectAndWait, ConnectAndBirth
<1>4. CASE Disconnect
  BY <1>1, <1>4 DEF Disconnect, DisconnectOk, DisconnectFails
<1>5. CASE Publish
  BY <1>1, <1>5 DEF Publish, PublishNodeBirth, PublishDeviceBirth, PublishNodeData,
                   PublishDeviceData, PublishDeviceDeath
<1>6. CASE CallPublishBirthSequence \/ HandleRebirth
  BY <1>1, <1>6 DEF CallPublishBirthSequence, HandleRebirth
<1>7. ASSUME NEW ts \in Timestamps, HandleHostOnline(ts) \/ HandleHostOffline(ts)
      PROVE  session'.will = bd_seq' /\ store' = NextDeath(bd_seq')
  BY <1>1, <1>7 DEF HandleHostOnline, HandleHostOffline, DisconnectOk, DisconnectFails
<1>8. CASE Environment
  BY <1>1, <1>8 DEF Environment, ConnectionLost, Crash, NoSession, DebounceElapses, fields
<1>9. CASE UNCHANGED vars
  BY <1>1, <1>9 DEF vars
<1> QED
  BY <1>3, <1>4, <1>5, <1>6, <1>7, <1>8, <1>9 DEF Next

\* What a step hands to the broker as an NBIRTH or NDEATH carries bd_seq, and
\* it does so on a live connection.
LEMMA HandedBdSeq ==
    ASSUME TypeOK, Next,
           NEW m \in Handed("NBIRTH")' \cup Handed("NDEATH")'
    PROVE  session.open /\ session'.will = session.will /\ m.bdSeq = bd_seq
<1> session \in [open : BOOLEAN, will : BdSeqs \cup {None}]
  BY DEF TypeOK
<1>1. ASSUME NEW n, Send(n), n.type \in {"NBIRTH", "NDEATH"} => n.bdSeq = bd_seq
      PROVE  session.open /\ m.bdSeq = bd_seq
  BY <1>1 DEF Send, Handed
<1>2. ~Quiet
  BY DEF Quiet, Handed
<1>3. CASE Connect
  BY <1>2, <1>3 DEF Connect, ConnectStoreFails, ConnectRefused, ConnectSubscribeFails,
                    ConnectAndWait, ConnectAndBirth, Open, Handed
<1>4. ASSUME SendDeath
      PROVE  session.open /\ m.bdSeq = bd_seq
  BY <1>1, <1>4 DEF SendDeath, NodeDeath
<1>5. CASE Disconnect
  BY <1>2, <1>4, <1>5 DEF Disconnect, DisconnectOk, DisconnectFails
<1>6. CASE PublishNodeBirth
  <2> DEFINE n == NodeBirth(seq, bd_seq, Aliased(NodeMetrics, next_alias))
  <2>1. Send(n) /\ session' = session
    BY <1>2, <1>6 DEF PublishNodeBirth, BirthBdSeq
  <2>2. n.bdSeq = bd_seq
    BY DEF NodeBirth
  <2> HIDE DEF n
  <2> QED
    BY <1>1, <2>1, <2>2
<1>7. ASSUME NEW t \in {"DBIRTH", "NDATA", "DDATA", "DDEATH"}, NEW s, NEW ms,
             Send(Sequenced(t, s, seq, ms))
      PROVE  FALSE
  BY <1>7 DEF Send, Handed, Sequenced
<1>8. CASE PublishDeviceBirth
  BY <1>2, <1>7, <1>8 DEF PublishDeviceBirth
<1>9. CASE PublishNodeData
  BY <1>2, <1>7, <1>9 DEF PublishNodeData
<1>10. ASSUME NEW d \in Devices, PublishDeviceData(d) \/ PublishDeviceDeath(d)
       PROVE  FALSE
  BY <1>2, <1>7, <1>10 DEF PublishDeviceData, PublishDeviceDeath
<1>11. CASE CallPublishBirthSequence \/ HandleRebirth
  BY <1>2, <1>11 DEF CallPublishBirthSequence, HandleRebirth
<1>12. ASSUME NEW ts \in Timestamps, HandleHostOnline(ts) \/ HandleHostOffline(ts)
       PROVE  session.open /\ session'.will = session.will /\ m.bdSeq = bd_seq
  BY <1>2, <1>4, <1>12 DEF HandleHostOnline, HandleHostOffline, DisconnectOk, DisconnectFails
<1>13. CASE Environment
  BY <1>2, <1>13 DEF Environment, ConnectionLost, Crash, DebounceElapses
<1> QED
  BY <1>3, <1>5, <1>6, <1>8, <1>9, <1>10, <1>11, <1>12, <1>13 DEF Next, Publish

LEMMA SessionBdSeqStep ==
    ASSUME TypeOK, SessionInv, SessionBdSeq, [Next]_vars
    PROVE  SessionBdSeq'
<1>1. CASE Next
  BY <1>1, HandedBdSeq DEF SessionInv, SessionBdSeq
<1>2. CASE UNCHANGED vars
  BY <1>2 DEF vars, SessionBdSeq, Handed
<1> QED
  BY <1>1, <1>2

\* A connection's births and deaths carry its will's bdSeq, in every reachable
\* state, if connect is called only on a connection that is gone (connect,
\* publish_birth_sequence, disconnect).
THEOREM SessionBdSeqHolds ==
    ASSUME ~ReconnectWhileOpen
    PROVE  Spec => []SessionBdSeq
<1>1. Init => TypeOK /\ SessionInv /\ SessionBdSeq
  BY InitTypeOK DEF Init, NoSession, SessionInv, SessionBdSeq, Handed
<1> QED
  BY <1>1, TypeOKStep, SessionInvStep, SessionBdSeqStep, PTL DEF Spec

LEMMA WillDiffers == TypeOK /\ SessionInv => RestartWillDiffers
BY NextDeathType DEF TypeOK, SessionInv, RestartWillDiffers

\* The bdSeq the next connect would take differs from the live connection's
\* will (connect stores the next value before it connects).
THEOREM RestartWillDiffersHolds ==
    ASSUME ~ReconnectWhileOpen
    PROVE  Spec => []RestartWillDiffers
<1>1. Init => TypeOK /\ SessionInv
  BY InitTypeOK DEF Init, NoSession, SessionInv
<1> QED
  BY <1>1, WillDiffers, TypeOKStep, SessionInvStep, PTL DEF Spec
-----------------------------------------------------------------------------
(* Data only after its birth. *)

\* A birth sequence starts with nothing announced by it, and promises nothing.
LEMMA StartKeepsAnnouncedInv ==
    ASSUME TypeOK, AnnouncedInv, NEW by \in Caller, StartBirths(by), Quiet,
           session' = session, state' = state, lifecycle_ok' = lifecycle_ok
    PROVE  AnnouncedInv'
BY DEF TypeOK, AnnouncedInv, DevicesAnnounced, StartBirths, BornAtStart, Quiet

\* What a message changes in the broker's record of births.
LEMMA SendAnnounces ==
    ASSUME NEW m, Send(m)
    PROVE  announced' = IF session.open THEN Announce(m) ELSE announced
BY DEF Send

LEMMA DisconnectKeepsAnnouncedInv ==
    ASSUME TypeOK, AnnouncedInv, Idle, DisconnectOk \/ DisconnectFails,
           UNCHANGED <<birth, born_devices>>
    PROVE  AnnouncedInv'
BY DEF TypeOK, AnnouncedInv, DevicesAnnounced, DisconnectOk, DisconnectFails, Idle

LEMMA AnnouncedInvStep == TypeOK /\ AnnouncedInv /\ [Next]_vars => AnnouncedInv'
<1> SUFFICES ASSUME TypeOK, AnnouncedInv, [Next]_vars
             PROVE  AnnouncedInv'
  OBVIOUS
<1>t. /\ session \in [open : BOOLEAN, will : BdSeqs \cup {None}]
      /\ announced \in [Scopes -> Seq(Metric) \cup {None}]
      /\ born_devices \subseteq Devices
      /\ birth \in BirthProgress \cup {None}
  BY DEF TypeOK
<1>s. None \notin Seq(Metric)
  BY SparkplugAssumption
<1>1. ASSUME UNCHANGED <<birth, born_devices, session, state, announced>>,
             lifecycle_ok' => lifecycle_ok
      PROVE  AnnouncedInv'
  BY <1>1 DEF AnnouncedInv, DevicesAnnounced
<1>2. CASE Connect
  <2>1. CASE ConnectStoreFails \/ ConnectRefused
    BY <1>1, <2>1 DEF ConnectStoreFails, ConnectRefused, Quiet
  <2>2. CASE ConnectSubscribeFails
    BY <2>2 DEF ConnectSubscribeFails, MayConnect, Idle, AnnouncedInv, DevicesAnnounced
  <2>3. CASE ConnectAndWait
    BY <2>3 DEF ConnectAndWait, MayConnect, Idle, AnnouncedInv, DevicesAnnounced
  <2>4. CASE ConnectAndBirth
    BY <2>4 DEF ConnectAndBirth, StartBirths, BornAtStart, AnnouncedInv, DevicesAnnounced
  <2> QED
    BY <1>2, <2>1, <2>2, <2>3, <2>4 DEF Connect
<1>3. CASE Disconnect
  BY <1>3, DisconnectKeepsAnnouncedInv DEF Disconnect
<1>4. CASE PublishNodeBirth
  <2> DEFINE m == NodeBirth(seq, BirthBdSeq, Aliased(NodeMetrics, next_alias))
  <2>1. m.type = "NBIRTH" /\ m.metrics \in Seq(Metric)
    BY AliasedType, EdgeNodeAssumption DEF TypeOK, NodeBirth
  <2>2. birth # None /\ birth.at = 0 /\ born_devices = {} /\ born_devices' = {}
    BY <1>4 DEF PublishNodeBirth, Idle, AnnouncedInv
  <2>3. CASE Quiet /\ BirthFailed
    BY <1>4, <2>2, <2>3 DEF PublishNodeBirth, Quiet, BirthFailed, AnnouncedInv, DevicesAnnounced
  <2>4. CASE Send(m) /\ BirthPublished
    <3>1. session.open => announced'[None] # None
      BY <1>s, <1>t, <2>1, <2>4, SendAnnounces DEF Announce, NothingAnnounced, Scopes
    <3>2. birth' = None \/ birth'.at > 0
      BY <1>t, <2>2, <2>4 DEF BirthPublished, BirthsDone, BirthProgress
    <3> QED
      BY <1>4, <2>2, <2>4, <3>1, <3>2
      DEF PublishNodeBirth, BirthPublished, BirthsDone, AnnouncedInv, DevicesAnnounced
  <2> QED
    BY <1>4, <2>3, <2>4 DEF PublishNodeBirth
<1>5. CASE PublishDeviceBirth
  <2> DEFINE d == DeviceList[birth.at]
             m == Sequenced("DBIRTH", d, seq, Aliased(DeviceMetrics[d], next_alias))
  <2>1. birth # None /\ birth.at \in 1 .. Len(DeviceList)
    BY <1>5, <1>t, SparkplugAssumption DEF PublishDeviceBirth, Idle, BirthProgress
  <2>2. d \in Devices
    BY <2>1, SparkplugAssumption DEF Devices
  <2>3. m.type = "DBIRTH" /\ m.device = d /\ m.metrics \in Seq(Metric)
    BY <2>2, AliasedType, EdgeNodeAssumption DEF TypeOK, Sequenced
  <2> HIDE DEF d, m
  <2>4. PublishDeviceBirth =>
          /\ session' = session
          /\ \/ Send(m) /\ born_devices' = born_devices \cup {d} /\ BirthPublished
             \/ Quiet /\ BirthFailed /\ UNCHANGED born_devices
    BY DEF PublishDeviceBirth, d, m
  <2>5. CASE Quiet /\ BirthFailed /\ UNCHANGED born_devices
    BY <1>5, <2>4, <2>5 DEF Quiet, BirthFailed, AnnouncedInv, DevicesAnnounced
  <2>6. CASE Send(m) /\ born_devices' = born_devices \cup {d} /\ BirthPublished
    <3>1. session.open => announced' = [announced EXCEPT ![d] = m.metrics]
      BY <2>3, <2>6, SendAnnounces DEF Announce
    <3>2. session.open => DevicesAnnounced' /\ announced'[None] # None
      BY <1>s, <1>t, <2>1, <2>2, <2>3, <2>6, <3>1, SparkplugAssumption
      DEF AnnouncedInv, DevicesAnnounced, Scopes
    <3>3. birth' = None \/ birth'.at > 0
      BY <1>t, <2>1, <2>6 DEF BirthPublished, BirthsDone, BirthProgress
    <3>4. session' = session
      BY <1>5, <2>4
    <3> QED
      BY <2>1, <2>6, <3>2, <3>3, <3>4 DEF BirthPublished, BirthsDone, AnnouncedInv
  <2> QED
    BY <1>5, <2>4, <2>5, <2>6
<1>6. CASE PublishNodeData
  <2>1. ASSUME NEW k, Send(Sequenced("NDATA", None, seq, k))
        PROVE  announced' = announced
    BY <2>1, SendAnnounces DEF Announce, Sequenced
  <2>2. announced' = announced
    BY <1>6, <2>1 DEF PublishNodeData, Quiet
  <2> QED
    BY <1>1, <1>6, <2>2 DEF PublishNodeData
<1>7. ASSUME NEW d \in Devices, PublishDeviceData(d)
      PROVE  AnnouncedInv'
  <2>1. ASSUME NEW k, Send(Sequenced("DDATA", d, seq, k))
        PROVE  announced' = announced
    BY <2>1, SendAnnounces DEF Announce, Sequenced
  <2>2. announced' = announced
    BY <1>7, <2>1 DEF PublishDeviceData, Quiet
  <2> QED
    BY <1>1, <1>7, <2>2 DEF PublishDeviceData
<1>8. ASSUME NEW d \in Devices, PublishDeviceDeath(d)
      PROVE  AnnouncedInv'
  <2> DEFINE m == Sequenced("DDEATH", d, seq, << >>)
  <2>1. CASE Quiet /\ UNCHANGED born_devices
    BY <1>1, <1>8, <2>1 DEF PublishDeviceDeath, Quiet
  <2>2. CASE Send(m) /\ born_devices' = born_devices \ {d}
    <3>1. session.open => announced' = [announced EXCEPT ![d] = None]
      BY <2>2, SendAnnounces DEF Announce, Sequenced
    <3>2. ASSUME session.open, DevicesAnnounced PROVE DevicesAnnounced'
      BY <1>t, <2>2, <3>1, <3>2 DEF DevicesAnnounced, Scopes
    <3>3. session.open => announced'[None] = announced[None]
      BY <1>t, <3>1, SparkplugAssumption DEF Scopes
    <3> QED
      BY <1>8, <2>2, <3>2, <3>3 DEF PublishDeviceDeath, AnnouncedInv, Idle
  <2> QED
    BY <1>8, <2>1, <2>2 DEF PublishDeviceDeath
<1>9. CASE CallPublishBirthSequence \/ HandleRebirth
  BY <1>9, StartKeepsAnnouncedInv DEF CallPublishBirthSequence, HandleRebirth, Caller
<1>10. ASSUME NEW ts \in Timestamps, HandleHostOnline(ts)
       PROVE  AnnouncedInv'
  BY <1>1, <1>10, StartKeepsAnnouncedInv DEF HandleHostOnline, Caller, Quiet
<1>11. ASSUME NEW ts \in Timestamps, HandleHostOffline(ts)
       PROVE  AnnouncedInv'
  BY <1>1, <1>11, DisconnectKeepsAnnouncedInv DEF HandleHostOffline, Quiet
<1>12. CASE Environment
  <2>1. CASE ConnectionLost
    BY <1>t, <2>1 DEF ConnectionLost, fields, AnnouncedInv, DevicesAnnounced
  <2>2. CASE Crash
    BY <2>2 DEF Crash, AnnouncedInv, DevicesAnnounced
  <2>3. CASE DebounceElapses
    BY <1>1, <2>3 DEF DebounceElapses, Quiet
  <2> QED
    BY <1>12, <2>1, <2>2, <2>3 DEF Environment
<1>13. CASE UNCHANGED vars
  BY <1>1, <1>13 DEF vars
<1> QED
  BY <1>2, <1>3, <1>4, <1>5, <1>6, <1>7, <1>8, <1>9, <1>10, <1>11, <1>12, <1>13
  DEF Next, Publish

\* What a step hands to the broker as data was published on a live connection
\* by an idle engine, about the node or about a device that counts as born, and
\* reports one metric of it under the registry's alias.
LEMMA HandedData ==
    ASSUME TypeOK, Next, NEW t \in {"NDATA", "DDATA"}, NEW m \in Handed(t)'
    PROVE  /\ session.open
           /\ UNCHANGED <<announced, state, lifecycle_ok, config, aliases>>
           /\ t = "NDATA" =>
                 /\ state = "Online" /\ m.device = None
                 /\ \E i \in DOMAIN NodeMetrics :
                       m.metrics = <<DataMetric(NodeMetrics[i])>>
           /\ t = "DDATA" =>
                 /\ m.device \in born_devices
                 /\ \E i \in DOMAIN DeviceMetrics[m.device] :
                       m.metrics = <<DataMetric(DeviceMetrics[m.device][i])>>
<1> DEFINE Goal == /\ session.open
                   /\ UNCHANGED <<announced, state, lifecycle_ok, config, aliases>>
                   /\ t = "NDATA" =>
                         /\ state = "Online" /\ m.device = None
                         /\ \E i \in DOMAIN NodeMetrics :
                               m.metrics = <<DataMetric(NodeMetrics[i])>>
                   /\ t = "DDATA" =>
                         /\ m.device \in born_devices
                         /\ \E i \in DOMAIN DeviceMetrics[m.device] :
                               m.metrics = <<DataMetric(DeviceMetrics[m.device][i])>>
<1>1. ~Quiet
  BY DEF Quiet, Handed
<1>2. ASSUME NEW n, Send(n)
      PROVE  session.open /\ m = n /\ n.type = t
  BY <1>2 DEF Send, Handed
<1>3. ~Connect
  BY <1>1 DEF Connect, ConnectStoreFails, ConnectRefused, ConnectSubscribeFails,
              ConnectAndWait, ConnectAndBirth, Open, Handed
<1>4. ~SendDeath
  BY <1>2 DEF SendDeath, NodeDeath
<1>5. ~Disconnect
  BY <1>1, <1>4 DEF Disconnect, DisconnectOk, DisconnectFails
<1>6. ~PublishNodeBirth
  <2> DEFINE n == NodeBirth(seq, BirthBdSeq, Aliased(NodeMetrics, next_alias))
  <2>1. n.type = "NBIRTH"
    BY DEF NodeBirth
  <2> HIDE DEF n
  <2>2. ~Send(n)
    BY <1>2, <2>1
  <2> QED
    BY <1>1, <2>2 DEF PublishNodeBirth, n
<1>7. ASSUME NEW u, NEW s, NEW ms, Send(Sequenced(u, s, seq, ms))
      PROVE  session.open /\ u = t /\ m.device = s /\ m.metrics = ms
  BY <1>2, <1>7 DEF Sequenced
<1>8. ~PublishDeviceBirth
  BY <1>1, <1>7 DEF PublishDeviceBirth
<1>9. ASSUME PublishNodeData PROVE Goal
  <2>1. PICK i \in DOMAIN NodeMetrics :
            Send(Sequenced("NDATA", None, seq, <<DataMetric(NodeMetrics[i])>>))
    BY <1>1, <1>9 DEF PublishNodeData
  <2>2. announced' = announced
    BY <2>1, SendAnnounces DEF Announce, Sequenced
  <2>3. /\ session.open /\ t = "NDATA" /\ m.device = None
        /\ m.metrics = <<DataMetric(NodeMetrics[i])>>
    BY <1>7, <2>1
  <2>4. state = "Online" /\ UNCHANGED <<state, lifecycle_ok, config, aliases>>
    BY <1>9 DEF PublishNodeData, NodeDataAllowed
  <2> QED
    BY <2>2, <2>3, <2>4
<1>10. ASSUME NEW d \in Devices, PublishDeviceData(d) PROVE Goal
  <2>1. PICK i \in DOMAIN DeviceMetrics[d] :
            Send(Sequenced("DDATA", d, seq, <<DataMetric(DeviceMetrics[d][i])>>))
    BY <1>1, <1>10 DEF PublishDeviceData
  <2>2. announced' = announced
    BY <2>1, SendAnnounces DEF Announce, Sequenced
  <2>3. /\ session.open /\ t = "DDATA" /\ m.device = d
        /\ m.metrics = <<DataMetric(DeviceMetrics[d][i])>>
    BY <1>7, <2>1
  <2>4. d \in born_devices /\ UNCHANGED <<state, lifecycle_ok, config, aliases>>
    BY <1>10 DEF PublishDeviceData
  <2> QED
    BY <2>2, <2>3, <2>4
<1>11. ASSUME NEW d \in Devices, PublishDeviceDeath(d) PROVE FALSE
  BY <1>1, <1>7, <1>11 DEF PublishDeviceDeath
<1>12. ~CallPublishBirthSequence /\ ~HandleRebirth
  BY <1>1 DEF CallPublishBirthSequence, HandleRebirth
<1>13. ASSUME NEW ts \in Timestamps, HandleHostOnline(ts) \/ HandleHostOffline(ts)
       PROVE  FALSE
  BY <1>1, <1>4, <1>13 DEF HandleHostOnline, HandleHostOffline, DisconnectOk, DisconnectFails
<1>14. ~Environment
  BY <1>1 DEF Environment, ConnectionLost, Crash, DebounceElapses
<1> QED
  BY <1>3, <1>5, <1>6, <1>8, <1>9, <1>10, <1>11, <1>12, <1>13, <1>14 DEF Next, Publish

LEMMA DataAnnouncedStep ==
    ASSUME TypeOK, AnnouncedInv, DataAnnounced, [Next]_vars
    PROVE  DataAnnounced'
<1>1. CASE Next
  <2>1. ASSUME lifecycle_ok', NEW m \in Handed("NDATA")'
        PROVE  announced'[None] # None
    BY <1>1, <2>1, HandedData DEF AnnouncedInv
  <2>2. ASSUME lifecycle_ok', NEW m \in Handed("DDATA")'
        PROVE  announced'[m.device] # None \/ state' = "WaitingForPrimaryHost"
    BY <1>1, <2>2, HandedData DEF AnnouncedInv, DevicesAnnounced
  <2> QED
    BY <2>1, <2>2 DEF DataAnnounced
<1>2. CASE UNCHANGED vars
  BY <1>2 DEF vars, DataAnnounced, Handed
<1> QED
  BY <1>1, <1>2

\* As long as connect and disconnect return Ok, no data precedes the birth it
\* depends on (publish_node_data, publish_device_data).
THEOREM DataAnnouncedHolds == Spec => []DataAnnounced
<1>1. Init => AnnouncedInv /\ DataAnnounced
  BY DEF Init, AnnouncedInv, DataAnnounced
<1> QED
  BY <1>1, InitTypeOK, TypeOKStep, AnnouncedInvStep, DataAnnouncedStep, PTL DEF Spec
-----------------------------------------------------------------------------
(* Aliases.  The registry, the births the broker has and the data agree on *)
(* the numbering, whatever births failed in between.                       *)

\* A name that a list holds has a last place in it.
LEMMA HasLastNamed ==
    ASSUME NEW names \in Seq(Names), NEW i \in DOMAIN names
    PROVE  \E j \in DOMAIN names : LastNamed(names, names[i], j)
<1> DEFINE L == Len(names)
           Places == {j \in 1 .. L : names[j] = names[i]}
           T == {L - j : j \in Places}
<1>1. L \in Nat /\ DOMAIN names = 1 .. L /\ i \in Places
  OBVIOUS
<1>2. T \subseteq Nat /\ T # {}
  BY <1>1
<1> HIDE DEF T
<1>3. PICK x \in T : \A y \in T : ~(<<y, x>> \in OpToRel(<, Nat))
  BY <1>2, WFMin, NatLessThanWellFounded, Zenon
<1>4. \A y \in T : ~(<<y, x>> \in {ss \in Nat \X Nat : ss[1] < ss[2]})
  BY <1>3, Zenon DEF OpToRel
<1>5. \A y \in T : ~(y < x)
  BY <1>2, <1>4
<1>6. PICK j \in Places : x = L - j
  BY DEF T
<1>7. \A k \in Places : L - k \in T
  BY DEF T
<1>8. \A k \in Places : k <= j
  BY <1>1, <1>5, <1>6, <1>7
<1> QED
  BY <1>1, <1>6, <1>8 DEF LastNamed

\* Binding a list numbers its names from the first alias on ...
LEMMA BindNumbers ==
    ASSUME TypeOK, NEW names \in Seq(Names), NEW first \in Nat, first = next_alias,
           config.use_aliases, AssignAliases(names)
    PROVE  Numbered(names, first)'
<1>1. aliases' = Bind(names, first)
  BY DEF AssignAliases
<1> SUFFICES ASSUME NEW i \in DOMAIN names
             PROVE  \E j \in DOMAIN names :
                        names[j] = names[i] /\ aliases'[names[i]] = first + j - 1
  BY DEF Numbered
<1> DEFINE n == names[i]
           last == CHOOSE j \in DOMAIN names : LastNamed(names, n, j)
<1>2. n \in Names /\ DOMAIN names = 1 .. Len(names) /\ Len(names) \in Nat
  OBVIOUS
<1>3. \E j \in DOMAIN names : LastNamed(names, n, j)
  BY HasLastNamed
<1>4. last \in DOMAIN names /\ LastNamed(names, n, last)
  BY <1>3
<1>5. aliases'[n] = first - 1 + last
  BY <1>1, <1>2, <1>3 DEF Bind
<1> HIDE DEF last
<1>6. names[last] = n /\ first - 1 + last = first + last - 1
  BY <1>2, <1>4 DEF LastNamed
<1> QED
  BY <1>4, <1>5, <1>6

\* ... and does not touch the names of a list it has none in common with.
LEMMA BindKeepsNumbered ==
    ASSUME NEW names \in Seq(Names), NEW others \in Seq(Names), NEW first \in Nat,
           AssignAliases(others), Numbered(names, first),
           config.use_aliases =>
               \A i \in DOMAIN names, j \in DOMAIN others : names[i] # others[j]
    PROVE  Numbered(names, first)'
<1>1. CASE ~config.use_aliases
  BY <1>1 DEF AssignAliases, Numbered
<1>2. CASE config.use_aliases
  <2>1. ASSUME NEW i \in DOMAIN names
        PROVE  aliases'[names[i]] = aliases[names[i]]
    <3>1. names[i] \in Names /\ aliases' = Bind(others, next_alias)
      BY <1>2 DEF AssignAliases
    <3>2. ~ \E j \in DOMAIN others : LastNamed(others, names[i], j)
      BY <1>2 DEF LastNamed
    <3> QED
      BY <3>1, <3>2 DEF Bind
  <2> QED
    BY <2>1 DEF Numbered
<1> QED
  BY <1>1, <1>2

\* The key of a data metric is found in any birth that lists the metric under
\* the alias the registry holds for it.
LEMMA NumberedResolves ==
    ASSUME TypeOK, NEW names \in Seq(Names), NEW first \in Nat,
           Numbered(names, first), NEW i \in DOMAIN names
    PROVE  Resolves(DataMetric(names[i]), Aliased(names, first))
<1> DEFINE n == names[i]
           k == DataMetric(n)
           metrics == Aliased(names, first)
<1>1. /\ DOMAIN metrics = DOMAIN names
      /\ \A j \in DOMAIN names :
            /\ metrics[j].name = names[j]
            /\ metrics[j].alias = IF config.use_aliases THEN first + j - 1 ELSE None
  BY DEF Aliased
<1>2. DOMAIN names = 1 .. Len(names) /\ Len(names) \in Nat /\ None \notin Nat
  BY SparkplugAssumption
<1> HIDE DEF metrics
<1>3. CASE config.use_aliases /\ aliases[n] # None
  <2>1. k.name = None /\ k.alias = aliases[n] /\ k.value = n
    BY <1>3 DEF DataMetric
  <2>2. PICK j \in DOMAIN names : names[j] = n /\ aliases[n] = first + j - 1
    BY <1>3 DEF Numbered
  <2> HIDE DEF k
  <2>3. metrics[j].name = k.value /\ k.alias = metrics[j].alias
    BY <1>1, <1>3, <2>1, <2>2
  <2>4. ASSUME NEW l \in DOMAIN metrics, metrics[l].alias = k.alias
        PROVE  metrics[l].name = k.value
    <3>1. first + l - 1 = first + j - 1
      BY <1>1, <1>3, <2>1, <2>2, <2>4
    <3>2. l = j
      BY <1>1, <1>2, <2>2, <3>1
    <3> QED
      BY <1>1, <2>1, <2>2, <3>2
  <2>5. Resolves(k, metrics)
    BY <1>1, <2>2, <2>3, <2>4 DEF Resolves
  <2> QED
    BY <2>5 DEF k, metrics
<1>4. CASE ~(config.use_aliases /\ aliases[n] # None)
  <2>1. k.name = n /\ k.alias = None /\ k.value = n
    BY <1>4 DEF DataMetric
  <2> HIDE DEF k
  <2>2. Resolves(k, metrics)
    BY <1>1, <2>1 DEF Resolves
  <2> QED
    BY <2>2 DEF k, metrics
<1> QED
  BY <1>3, <1>4

\* What a birth lists does not depend on the first alias when aliases are off.
LEMMA AliasedUnnumbered ==
    ASSUME ~config.use_aliases, NEW names, NEW first, NEW other
    PROVE  Aliased(names, first) = Aliased(names, other)
BY DEF Aliased

\* A step that binds no alias and starts no birth keeps the numbering.
LEMMA FrameKeepsAliasInv ==
    ASSUME AliasInv, UNCHANGED <<config, aliases, next_alias, birth>>,
           born_devices' \subseteq born_devices,
           \A s \in Scopes : announced'[s] \in {None, announced[s]},
           session'.open => session.open \/ announced' = NothingAnnounced,
           born_devices \subseteq Devices
    PROVE  AliasInv'
<1>1. Numbered(NodeMetrics, 0)' /\ Aliased(NodeMetrics, 0)' = Aliased(NodeMetrics, 0)
  BY DEF AliasInv, Numbered, Aliased
<1>2. announced'[None] \in {None, Aliased(NodeMetrics, 0)}
  BY DEF AliasInv, Scopes
<1>3. ASSUME session'.open, NEW d \in born_devices', announced'[d] # None
      PROVE  \E first \in 0 .. next_alias' :
                 /\ announced'[d] = Aliased(DeviceMetrics[d], first)'
                 /\ Numbered(DeviceMetrics[d], first)'
  <2>1. d \in born_devices /\ d \in Devices /\ d \in Scopes
    BY <1>3 DEF Scopes
  <2>2. session.open /\ announced'[d] = announced[d]
    BY <1>3, <2>1 DEF NothingAnnounced
  <2>3. PICK first \in 0 .. next_alias :
            /\ announced[d] = Aliased(DeviceMetrics[d], first)
            /\ Numbered(DeviceMetrics[d], first)
    BY <1>3, <2>1, <2>2 DEF AliasInv, BornAsNumbered
  <2>4. Numbered(DeviceMetrics[d], first)'
    BY <2>3 DEF Numbered
  <2>5. Aliased(DeviceMetrics[d], first)' = Aliased(DeviceMetrics[d], first)
    BY DEF Aliased
  <2> QED
    BY <2>2, <2>3, <2>4, <2>5
<1> QED
  BY <1>1, <1>2, <1>3 DEF AliasInv, BornAsNumbered, Unbound

\* A birth sequence starts with nothing bound, or with aliases off.
LEMMA StartKeepsAliasInv ==
    ASSUME TypeOK, AliasInv, NEW by \in Caller, StartBirths(by), config' = config,
           announced'[None] \in {None, announced[None]}
    PROVE  AliasInv'
<1>1. Numbered(NodeMetrics, 0)'
  <2>1. CASE config.use_aliases
    BY <2>1, EdgeNodeAssumption DEF StartBirths, Unbound, Numbered
  <2>2. CASE ~config.use_aliases
    BY <2>2 DEF StartBirths, AliasInv, Numbered
  <2> QED
    BY <2>1, <2>2
<1>2. Aliased(NodeMetrics, 0)' = Aliased(NodeMetrics, 0)
  BY DEF Aliased
<1>3. born_devices' = {} /\ birth' = [at |-> 0, by |-> by]
  BY DEF StartBirths, BornAtStart
<1>4. IF config.use_aliases THEN next_alias' = 0 ELSE aliases' = Unbound
  BY DEF StartBirths, AliasInv
<1> QED
  BY <1>1, <1>2, <1>3, <1>4 DEF AliasInv, Unbound

\* Publishing or failing to publish the NBIRTH keeps the numbering.
LEMMA NodeBirthKeepsAliasInv ==
    ASSUME TypeOK, AnnouncedInv, AliasInv, PublishNodeBirth
    PROVE  AliasInv'
<1> DEFINE m == NodeBirth(seq, BirthBdSeq, Aliased(NodeMetrics, next_alias))
<1>1. /\ birth # None /\ birth.at = 0 /\ born_devices = {} /\ born_devices' = {}
      /\ config' = config /\ next_alias \in Nat /\ AssignAliases(NodeMetrics)
      /\ (Send(m) /\ BirthPublished) \/ (Quiet /\ BirthFailed)
  BY DEF TypeOK, PublishNodeBirth, Idle, AnnouncedInv
<1>2. Aliased(NodeMetrics, next_alias) = Aliased(NodeMetrics, 0)
  BY <1>1, AliasedUnnumbered DEF AliasInv
<1>3. Aliased(NodeMetrics, 0)' = Aliased(NodeMetrics, 0)
  BY <1>1 DEF Aliased
<1>4. Numbered(NodeMetrics, 0)'
  <2>1. CASE config.use_aliases
    <3>1. next_alias = 0 /\ 0 \in Nat
      BY <1>1, <2>1 DEF AliasInv
    <3> QED
      BY <1>1, <2>1, <3>1, BindNumbers, EdgeNodeAssumption
  <2>2. CASE ~config.use_aliases
    BY <1>1, <2>2 DEF AssignAliases, AliasInv, Numbered
  <2> QED
    BY <2>1, <2>2
<1>5. ~config.use_aliases => aliases' = Unbound
  BY <1>1 DEF AssignAliases, AliasInv
<1>6. announced'[None] \in {None, Aliased(NodeMetrics, 0)}
  <2>1. CASE Send(m)
    <3>1. m.type = "NBIRTH" /\ m.metrics = Aliased(NodeMetrics, 0)
      BY <1>2 DEF NodeBirth
    <3> HIDE DEF m
    <3>2. Announce(m)[None] = m.metrics
      BY <3>1 DEF Announce, NothingAnnounced, Scopes
    <3> QED
      BY <2>1, <3>1, <3>2, SendAnnounces DEF AliasInv
  <2>2. CASE Quiet
    BY <2>2 DEF Quiet, AliasInv
  <2> QED
    BY <1>1, <2>1, <2>2
<1>7. birth' = None \/ birth'.at > 0
  <2>1. birth \in BirthProgress
    BY <1>1 DEF TypeOK
  <2> QED
    BY <1>1, <2>1 DEF BirthPublished, BirthsDone, BirthFailed, BirthProgress
<1> QED
  BY <1>1, <1>3, <1>4, <1>5, <1>6, <1>7 DEF AliasInv, Unbound

\* A step on a device whose names are its own disturbs no other device's birth.
LEMMA OtherBirthsKeep ==
    ASSUME TypeOK, config.use_aliases => NamesApart, config' = config,
           NEW d \in Devices, AssignAliases(DeviceMetrics[d]),
           NEW e \in Devices, e # d, announced'[e] = announced[e], BornAsNumbered(e)
    PROVE  BornAsNumbered(e)'
<1> SUFFICES ASSUME announced'[e] # None
             PROVE  \E first \in 0 .. next_alias' :
                        /\ announced'[e] = Aliased(DeviceMetrics[e], first)'
                        /\ Numbered(DeviceMetrics[e], first)'
  BY DEF BornAsNumbered
<1>1. PICK first \in 0 .. next_alias :
          /\ announced[e] = Aliased(DeviceMetrics[e], first)
          /\ Numbered(DeviceMetrics[e], first)
  BY DEF BornAsNumbered
<1>2. first \in Nat /\ first \in 0 .. next_alias'
  <2>1. Len(DeviceMetrics[d]) \in Nat /\ next_alias \in Nat
    BY EdgeNodeAssumption DEF TypeOK
  <2> QED
    BY <1>1, <2>1 DEF AssignAliases
<1>3. /\ DeviceMetrics[e] \in Seq(Names) /\ DeviceMetrics[d] \in Seq(Names)
      /\ config.use_aliases =>
            \A i \in DOMAIN DeviceMetrics[e], j \in DOMAIN DeviceMetrics[d] :
                DeviceMetrics[e][i] # DeviceMetrics[d][j]
  BY EdgeNodeAssumption DEF NamesApart
<1>4. Numbered(DeviceMetrics[e], first)'
  BY <1>1, <1>2, <1>3, BindKeepsNumbered
<1>5. Aliased(DeviceMetrics[e], first)' = Aliased(DeviceMetrics[e], first)
  BY DEF Aliased
<1> QED
  BY <1>1, <1>2, <1>4, <1>5

\* Publishing or failing to publish a DBIRTH keeps the numbering.
LEMMA DeviceBirthKeepsAliasInv ==
    ASSUME TypeOK, AliasInv, config.use_aliases => NamesApart, PublishDeviceBirth,
           NEW d, d = DeviceList[birth.at]
    PROVE  AliasInv'
<1> DEFINE names == DeviceMetrics[d]
           m == Sequenced("DBIRTH", d, seq, Aliased(names, next_alias))
<1>1. birth # None /\ birth \in BirthProgress /\ birth.at \in 1 .. Len(DeviceList)
  BY SparkplugAssumption DEF TypeOK, PublishDeviceBirth, Idle, BirthProgress
<1>2. d \in Devices /\ d \in Scopes /\ d # None
  BY <1>1, SparkplugAssumption DEF Devices, Scopes
<1>3. names \in Seq(Names) /\ next_alias \in Nat /\ Len(names) \in Nat
  BY <1>2, EdgeNodeAssumption DEF TypeOK
<1>4. m.type = "DBIRTH" /\ m.device = d /\ m.metrics = Aliased(names, next_alias)
  BY DEF Sequenced
<1>5. born_devices \subseteq {DeviceList[i] : i \in 1 .. birth.at - 1} /\ born_devices \subseteq Devices
  BY <1>1 DEF AliasInv, TypeOK
<1>6. d \notin born_devices
  BY <1>1, <1>5, SparkplugAssumption
<1> HIDE DEF m
<1>7. /\ AssignAliases(names) /\ config' = config /\ session' = session
      /\ \/ Send(m) /\ born_devices' = born_devices \cup {d} /\ BirthPublished
         \/ Quiet /\ BirthFailed /\ UNCHANGED born_devices
  BY DEF PublishDeviceBirth, m
<1> HIDE DEF names
<1>8. Numbered(NodeMetrics, 0)' /\ Aliased(NodeMetrics, 0)' = Aliased(NodeMetrics, 0)
  <2>1. config.use_aliases =>
            \A i \in DOMAIN NodeMetrics, j \in DOMAIN names : NodeMetrics[i] # names[j]
    BY <1>2 DEF NamesApart, names
  <2>2. Numbered(NodeMetrics, 0)'
    BY <1>3, <1>7, <2>1, BindKeepsNumbered, EdgeNodeAssumption DEF AliasInv
  <2> QED
    BY <1>7, <2>2 DEF Aliased
<1>9. \A e \in Scopes \ {d} : announced'[e] = announced[e]
  <2>1. CASE Send(m)
    BY <1>4, <2>1, SendAnnounces DEF Announce, TypeOK
  <2>2. CASE Quiet
    BY <2>2 DEF Quiet
  <2> QED
    BY <1>7, <2>1, <2>2
<1>10. announced'[None] \in {None, Aliased(NodeMetrics, 0)'}
  BY <1>2, <1>8, <1>9 DEF AliasInv, Scopes
<1>11. ASSUME session'.open, NEW e \in born_devices'
       PROVE  BornAsNumbered(e)'
  <2>1. CASE e \in born_devices
    <3>1. e # d /\ e \in Devices /\ e \in Scopes
      BY <1>5, <1>6, <2>1 DEF Scopes
    <3>2. BornAsNumbered(e)
      BY <1>7, <1>11, <2>1 DEF AliasInv
    <3>3. AssignAliases(DeviceMetrics[d])
      BY <1>7 DEF names
    <3> QED
      BY <1>2, <1>7, <1>9, <3>1, <3>2, <3>3, OtherBirthsKeep
  <2>2. CASE e \notin born_devices
    <3>1. e = d /\ Send(m)
      BY <1>7, <1>11, <2>2
    <3>2. announced'[d] = Aliased(names, next_alias)
      BY <1>2, <1>4, <1>7, <1>11, <3>1, SendAnnounces DEF Announce, TypeOK
    <3>3. PICK first \in Nat : first = next_alias
      BY <1>3
    <3>4. Numbered(names, first)' /\ first \in 0 .. next_alias'
      <4>1. CASE config.use_aliases
        <5>1. Numbered(names, first)'
          BY <1>3, <1>7, <3>3, <4>1, BindNumbers
        <5>2. next_alias' = first + Len(names)
          BY <1>7, <3>3, <4>1 DEF AssignAliases
        <5> QED
          BY <1>3, <5>1, <5>2
      <4>2. CASE ~config.use_aliases
        <5>1. \A n \in Names : aliases'[n] = None
          BY <1>7, <4>2 DEF AliasInv, AssignAliases, Unbound
        <5> QED
          BY <1>3, <1>7, <3>3, <4>2, <5>1 DEF Numbered, AssignAliases
      <4> QED
        BY <4>1, <4>2
    <3>5. Aliased(names, first)' = Aliased(names, first)
      BY <1>7 DEF Aliased
    <3> QED
      BY <3>1, <3>2, <3>3, <3>4, <3>5 DEF BornAsNumbered, names
  <2> QED
    BY <2>1, <2>2
<1>12. birth' # None => born_devices' \subseteq {DeviceList[i] : i \in 1 .. birth'.at - 1} /\ birth'.at > 0
  <2>1. CASE birth' # None
    <3>1. birth' = [birth EXCEPT !.at = @ + 1] /\ born_devices' = born_devices \cup {d}
      BY <1>7, <2>1 DEF BirthPublished, BirthsDone, BirthFailed
    <3>2. birth'.at = birth.at + 1
      BY <1>1, <3>1 DEF BirthProgress
    <3> QED
      BY <1>1, <1>5, <3>1, <3>2
  <2> QED
    BY <2>1
<1>13. ~config.use_aliases => aliases' = Unbound
  BY <1>7 DEF AssignAliases, AliasInv
<1> QED
  BY <1>7, <1>8, <1>10, <1>11, <1>12, <1>13 DEF AliasInv, Unbound

\* Every step keeps the numbering, if no metric name is used by two scopes or
\* aliases are off.
LEMMA AliasInvStep ==
    ASSUME \A c \in Configs : c.use_aliases => NamesApart
    PROVE  TypeOK /\ AnnouncedInv /\ AliasInv /\ [Next]_vars => AliasInv'
<1> SUFFICES ASSUME TypeOK, AnnouncedInv, AliasInv, [Next]_vars
             PROVE  AliasInv'
  OBVIOUS
<1>t. /\ session \in [open : BOOLEAN, will : BdSeqs \cup {None}]
      /\ announced \in [Scopes -> Seq(Metric) \cup {None}]
      /\ born_devices \subseteq Devices
      /\ config.use_aliases => NamesApart
  BY DEF TypeOK
<1>o. NothingAnnounced \in [Scopes -> {None}]
  BY DEF NothingAnnounced
<1>1. ASSUME UNCHANGED <<config, aliases, next_alias, birth, announced>>,
             born_devices' \subseteq born_devices, session'.open => session.open
      PROVE  AliasInv'
  BY <1>1, <1>t, FrameKeepsAliasInv
<1>2. ASSUME UNCHANGED <<config, aliases, next_alias, birth, born_devices>>,
             announced' = NothingAnnounced
      PROVE  AliasInv'
  BY <1>2, <1>t, <1>o, FrameKeepsAliasInv
<1>3. CASE Connect
  <2>1. CASE ConnectStoreFails \/ ConnectRefused
    BY <1>1, <2>1 DEF ConnectStoreFails, ConnectRefused, Quiet
  <2>2. CASE ConnectSubscribeFails \/ ConnectAndWait
    BY <1>2, <2>2 DEF ConnectSubscribeFails, ConnectAndWait, Open
  <2>3. CASE ConnectAndBirth
    <3>1. announced'[None] = None
      BY <1>o, <2>3 DEF ConnectAndBirth, Open, Scopes
    <3> QED
      BY <2>3, <3>1, StartKeepsAliasInv DEF ConnectAndBirth, Caller
  <2> QED
    BY <1>3, <2>1, <2>2, <2>3 DEF Connect
<1>4. ASSUME SendDeath
      PROVE  announced' \in {NothingAnnounced, announced}
  BY <1>4, SendAnnounces DEF SendDeath, Announce, NodeDeath
<1>5. ASSUME DisconnectOk \/ DisconnectFails,
             UNCHANGED <<config, aliases, next_alias, birth, born_devices>>
      PROVE  AliasInv'
  <2>1. session'.open => session.open
    BY <1>t, <1>5 DEF DisconnectOk, DisconnectFails
  <2>2. announced' \in {NothingAnnounced, announced}
    BY <1>4, <1>5 DEF DisconnectOk, DisconnectFails, Quiet
  <2> QED
    BY <1>1, <1>2, <1>5, <2>1, <2>2
<1>6. CASE Disconnect
  BY <1>5, <1>6 DEF Disconnect
<1>7. CASE PublishNodeBirth
  BY <1>7, NodeBirthKeepsAliasInv
<1>8. CASE PublishDeviceBirth
  <2>1. PICK d : d = DeviceList[birth.at]
    OBVIOUS
  <2> QED
    BY <1>8, <1>t, <2>1, DeviceBirthKeepsAliasInv
<1>9. ASSUME NEW t \in {"NDATA", "DDATA"}, NEW s, NEW ms, Send(Sequenced(t, s, seq, ms))
      PROVE  announced' = announced
  BY <1>9, SendAnnounces DEF Announce, Sequenced
<1>10. CASE PublishNodeData
  <2>1. announced' = announced
    BY <1>9, <1>10 DEF PublishNodeData, Quiet
  <2> QED
    BY <1>1, <1>10, <2>1 DEF PublishNodeData
<1>11. ASSUME NEW d \in Devices, PublishDeviceData(d)
       PROVE  AliasInv'
  <2>1. announced' = announced
    BY <1>9, <1>11 DEF PublishDeviceData, Quiet
  <2> QED
    BY <1>1, <1>11, <2>1 DEF PublishDeviceData
<1>12. ASSUME NEW d \in Devices, PublishDeviceDeath(d)
       PROVE  AliasInv'
  <2> DEFINE m == Sequenced("DDEATH", d, seq, << >>)
  <2>1. /\ UNCHANGED <<config, aliases, next_alias, birth, session>>
        /\ born_devices' \subseteq born_devices
        /\ Send(m) \/ Quiet
    BY <1>12 DEF PublishDeviceDeath
  <2>2. \A s \in Scopes : announced'[s] \in {None, announced[s]}
    <3>1. CASE Send(m)
      BY <1>t, <3>1, SendAnnounces DEF Announce, Sequenced
    <3>2. CASE Quiet
      BY <3>2 DEF Quiet
    <3> QED
      BY <2>1, <3>1, <3>2
  <2> QED
    BY <1>t, <2>1, <2>2, FrameKeepsAliasInv
<1>13. ASSUME NEW by \in Caller, StartBirths(by), Quiet, config' = config
       PROVE  AliasInv'
  BY <1>13, StartKeepsAliasInv DEF Quiet
<1>14. CASE CallPublishBirthSequence \/ HandleRebirth
  BY <1>13, <1>14 DEF CallPublishBirthSequence, HandleRebirth, Caller
<1>15. ASSUME NEW ts \in Timestamps, HandleHostOnline(ts)
       PROVE  AliasInv'
  BY <1>1, <1>13, <1>15 DEF HandleHostOnline, Quiet, Caller
<1>16. ASSUME NEW ts \in Timestamps, HandleHostOffline(ts)
       PROVE  AliasInv'
  BY <1>1, <1>5, <1>16 DEF HandleHostOffline, Quiet
<1>17. CASE Environment
  <2>1. CASE ConnectionLost
    BY <1>1, <1>t, <2>1 DEF ConnectionLost, fields, Quiet
  <2>2. CASE Crash
    <3>1. Numbered(NodeMetrics, 0)' /\ aliases' = Unbound
      BY <2>2, EdgeNodeAssumption DEF Crash, Numbered, Unbound
    <3>2. announced'[None] \in {None, Aliased(NodeMetrics, 0)'}
      BY <2>2 DEF Crash, Quiet, AliasInv, Aliased
    <3> QED
      BY <2>2, <3>1, <3>2 DEF Crash, AliasInv, Unbound
  <2>3. CASE DebounceElapses
    BY <1>1, <2>3 DEF DebounceElapses, Quiet
  <2> QED
    BY <1>17, <2>1, <2>2, <2>3 DEF Environment
<1>18. CASE UNCHANGED vars
  BY <1>1, <1>18 DEF vars
<1> QED
  BY <1>3, <1>6, <1>7, <1>8, <1>10, <1>11, <1>12, <1>14, <1>15, <1>16, <1>17, <1>18
  DEF Next, Publish

LEMMA DataResolvableStep ==
    ASSUME TypeOK, AliasInv, DataResolvable, [Next]_vars
    PROVE  DataResolvable'
<1>1. CASE UNCHANGED vars
  BY <1>1 DEF vars, DataResolvable, Handed
<1>2. CASE Next
  <2>1. ASSUME NEW m \in Handed("NDATA")', announced'[m.device] # None,
               NEW i \in DOMAIN m.metrics
        PROVE  Resolves(m.metrics[i], announced'[m.device])
    <3>1. /\ announced' = announced /\ m.device = None
          /\ \E j \in DOMAIN NodeMetrics : m.metrics = <<DataMetric(NodeMetrics[j])>>
      BY <1>2, <2>1, HandedData
    <3>2. PICK j \in DOMAIN NodeMetrics : m.metrics = <<DataMetric(NodeMetrics[j])>>
      BY <3>1
    <3>3. m.metrics[i] = DataMetric(NodeMetrics[j])
      BY <2>1, <3>2
    <3>4. announced[None] = Aliased(NodeMetrics, 0) /\ Numbered(NodeMetrics, 0)
      BY <2>1, <3>1 DEF AliasInv
    <3>5. Resolves(DataMetric(NodeMetrics[j]), Aliased(NodeMetrics, 0))
      BY <3>2, <3>4, NumberedResolves, EdgeNodeAssumption
    <3> QED
      BY <3>1, <3>3, <3>4, <3>5
  <2>2. ASSUME NEW m \in Handed("DDATA")', announced'[m.device] # None,
               NEW i \in DOMAIN m.metrics
        PROVE  Resolves(m.metrics[i], announced'[m.device])
    <3> DEFINE names == DeviceMetrics[m.device]
    <3>1. /\ announced' = announced /\ session.open /\ m.device \in born_devices
          /\ \E j \in DOMAIN names : m.metrics = <<DataMetric(names[j])>>
      BY <1>2, <2>2, HandedData
    <3>2. PICK j \in DOMAIN names : m.metrics = <<DataMetric(names[j])>>
      BY <3>1
    <3>3. m.metrics[i] = DataMetric(names[j])
      BY <2>2, <3>2
    <3>4. PICK first \in 0 .. next_alias :
              announced[m.device] = Aliased(names, first) /\ Numbered(names, first)
      BY <2>2, <3>1 DEF AliasInv, BornAsNumbered
    <3>5. names \in Seq(Names) /\ first \in Nat
      BY <3>1, EdgeNodeAssumption DEF TypeOK
    <3> HIDE DEF names
    <3>6. Resolves(DataMetric(names[j]), Aliased(names, first))
      BY <3>2, <3>4, <3>5, NumberedResolves
    <3> QED
      BY <3>1, <3>3, <3>4, <3>6
  <2> QED
    BY <2>1, <2>2 DEF DataResolvable
<1> QED
  BY <1>1, <1>2

LEMMA AliasInvInit == Init => AliasInv
<1> SUFFICES ASSUME Init PROVE AliasInv
  OBVIOUS
<1>1. Numbered(NodeMetrics, 0)
  BY EdgeNodeAssumption DEF Init, Numbered, Unbound
<1> QED
  BY <1>1 DEF Init, AliasInv, NothingAnnounced, Scopes

\* Every data metric's key, name or alias, leads back to the metric it was read
\* from in the last birth the broker has of its scope, across failed birth
\* sequences, rebirths and device deaths, if no metric name is used by two
\* scopes or aliases are off (assign_aliases, to_data_metrics).
THEOREM DataResolvableHolds ==
    ASSUME \A c \in Configs : c.use_aliases => NamesApart
    PROVE  Spec => []DataResolvable
<1> DEFINE Inv == TypeOK /\ AnnouncedInv /\ AliasInv
<1>1. Init => Inv /\ DataResolvable
  BY InitTypeOK, AliasInvInit DEF Init, AnnouncedInv, DataResolvable, Handed
<1>2. Inv /\ [Next]_vars => Inv'
  BY TypeOKStep, AnnouncedInvStep, AliasInvStep
<1>3. Inv /\ DataResolvable /\ [Next]_vars => DataResolvable'
  BY DataResolvableStep
<1> QED
  BY <1>1, <1>2, <1>3, PTL DEF Spec
-----------------------------------------------------------------------------
(* The engine among others: modules that join it with a host, a broker or  *)
(* a transport let it wait while those act.                                *)

EngineWaits == Quiet /\ UNCHANGED <<config, fields, birth, store, session, lifecycle_ok>>

JoinedSpec == Init /\ [][Next \/ EngineWaits]_vars

\* Waiting keeps everything the engine knows, and hands nothing to the broker.
LEMMA WaitingKeeps ==
    ASSUME TypeOK, EngineWaits
    PROVE  /\ TypeOK'
           /\ SessionInv => SessionInv'
           /\ AnnouncedInv => AnnouncedInv'
           /\ AliasInv => AliasInv'
           /\ SessionBdSeq' /\ DataAnnounced' /\ DataResolvable'
<1>1. TypeOK'
  BY QuietType DEF EngineWaits, TypeOK, fields
<1>2. (SessionInv => SessionInv') /\ (AnnouncedInv => AnnouncedInv')
  BY DEF EngineWaits, fields, Quiet, SessionInv, AnnouncedInv, DevicesAnnounced
<1>3. AliasInv => AliasInv'
  <2>1. UNCHANGED <<config, aliases, next_alias, birth, born_devices, announced, session>>
    BY DEF EngineWaits, Quiet, fields
  <2>2. born_devices \subseteq Devices
    BY DEF TypeOK
  <2> QED
    BY <2>1, <2>2, FrameKeepsAliasInv
<1>4. \A t : Handed(t)' = {}
  BY DEF EngineWaits, Quiet, Handed
<1>5. SessionBdSeq' /\ DataAnnounced' /\ DataResolvable'
  BY <1>4 DEF SessionBdSeq, DataAnnounced, DataResolvable
<1> QED
  BY <1>1, <1>2, <1>3, <1>5

\* The bdSeqs agree among others too (connect, publish_birth_sequence,
\* disconnect): the births and deaths carry the live connection's, and the next
\* connection's differs from it.
THEOREM JoinedKeepsBdSeq ==
    ASSUME ~ReconnectWhileOpen
    PROVE  JoinedSpec => [](SessionBdSeq /\ RestartWillDiffers)
<1> DEFINE Inv == TypeOK /\ SessionInv /\ SessionBdSeq
<1>1. Init => Inv
  BY InitTypeOK DEF Init, NoSession, SessionInv, SessionBdSeq, Handed
<1>2. Inv /\ [Next \/ EngineWaits]_vars => Inv'
  BY TypeOKStep, SessionInvStep, SessionBdSeqStep, WaitingKeeps
<1>3. Inv => SessionBdSeq /\ RestartWillDiffers
  BY WillDiffers
<1> QED
  BY <1>1, <1>2, <1>3, PTL DEF JoinedSpec

\* Data follows its birth among others too (publish_node_data,
\* publish_device_data).
THEOREM JoinedKeepsAnnounced == JoinedSpec => []DataAnnounced
<1> DEFINE Inv == TypeOK /\ AnnouncedInv /\ DataAnnounced
<1>1. Init => Inv
  BY InitTypeOK DEF Init, AnnouncedInv, DataAnnounced
<1>2. Inv /\ [Next \/ EngineWaits]_vars => Inv'
  BY TypeOKStep, AnnouncedInvStep, DataAnnouncedStep, WaitingKeeps
<1> QED
  BY <1>1, <1>2, PTL DEF JoinedSpec

\* And its keys lead back to that birth (assign_aliases, to_data_metrics).
THEOREM JoinedKeepsResolvable ==
    ASSUME \A c \in Configs : c.use_aliases => NamesApart
    PROVE  JoinedSpec => []DataResolvable
<1> DEFINE Inv == TypeOK /\ AnnouncedInv /\ AliasInv /\ DataResolvable
<1>1. Init => Inv
  BY InitTypeOK, AliasInvInit DEF Init, AnnouncedInv, DataResolvable, Handed
<1>2. Inv /\ [Next \/ EngineWaits]_vars => Inv'
  BY TypeOKStep, AnnouncedInvStep, AliasInvStep, DataResolvableStep, WaitingKeeps
<1> QED
  BY <1>1, <1>2, PTL DEF JoinedSpec
=============================================================================
