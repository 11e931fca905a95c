--------------------------- MODULE AgentRunsProofs ---------------------------
(***************************************************************************)
(* Theorems about AgentRuns, for every set of requests, devices and keys:   *)
(* idempotency keys are exclusive, the conversations implement              *)
(* ConversationLog, a request is answered once, and a model is told what    *)
(* its device has already been answered.                                    *)
(***************************************************************************)
EXTENDS AgentRuns, SequenceTheorems, TLAPS

\* s is a past state of the growing sequence t.
Past(s, t) == \E n \in 0 .. Len(t) : s = SubSeq(t, 1, n)

Unrecorded == {"new", "claim", "refuse", "resolve", "prepare", "stream", "user"}
Recording == {"user", "saveUser", "assistant", "saveAssistant"}

KeyType ==
  /\ device \in [Requests -> Tokens] /\ key \in [Requests -> Keys]
  /\ pc \in [Requests -> PC]

TalkType ==
  /\ history \in [Devices -> Seq(Turns)] /\ disk \in [Devices -> Seq(Turns)]
  /\ copy \in [Requests -> Seq(Turns)]

\* A run in flight holds its key.
KeysHeld == \A r \in Requests : pc[r] \in InFlight => DedupKey(r) \in active

\* Only runs of a device record, and the turns of a run appear in the history
\* as its control state says.
Recorded ==
  \A r \in Requests :
    /\ pc[r] \in Recording => device[r] \in Devices
    /\ pc[r] \in Unrecorded =>
         \A d \in Devices : \A turn \in Range(history[d]) : turn[2] # r
    /\ pc[r] \in {"saveUser", "assistant"} =>
         /\ <<"user", r>> \in Range(history[device[r]])
         /\ <<"assistant", r>> \notin Range(history[device[r]])

\* The file and every clone still to be saved are past states of the history.
Durable ==
  /\ \A d \in Devices : Past(disk[d], history[d])
  /\ \A r \in Requests :
       pc[r] \in {"saveUser", "saveAssistant"} => Past(copy[r], history[device[r]])

KeyInv == KeyType /\ KeysHeld /\ OneRunPerKey /\ OnlyPanicsLeakKeys
TalkInv == KeyType /\ TalkType /\ Recorded /\ Durable
-----------------------------------------------------------------------------
(* Sequences.                                                              *)

LEMMA PastReflexive == ASSUME NEW S, NEW t \in Seq(S) PROVE Past(t, t)
  <1>1. Len(t) \in Nat /\ t = SubSeq(t, 1, Len(t))
    BY SubSeqFull
  <1>2. Len(t) \in 0 .. Len(t)
    BY <1>1
  <1> QED
    BY <1>1, <1>2, Zenon DEF Past

\* A past state stays one when a turn is added.
LEMMA PastAppend ==
  ASSUME NEW S, NEW t \in Seq(S), NEW e \in S, NEW s, Past(s, t)
  PROVE  Past(s, Append(t, e))
  <1>1. PICK n \in 0 .. Len(t) : s = SubSeq(t, 1, n)
    BY DEF Past
  <1>2. n \in 0 .. Len(Append(t, e)) /\ SubSeq(Append(t, e), 1, n) = SubSeq(t, 1, n)
    OBVIOUS
  <1> QED
    BY <1>1, <1>2 DEF Past

\* A past state holds no element of its own.
LEMMA PastRange ==
  ASSUME NEW S, NEW t \in Seq(S), NEW s, Past(s, t)
  PROVE  Range(s) \subseteq Range(t)
  <1>1. PICK n \in 0 .. Len(t) : s = SubSeq(t, 1, n)
    BY DEF Past
  <1>2. \A i \in DOMAIN s : i \in DOMAIN t /\ s[i] = t[i]
    BY <1>1
  <1> QED
    BY <1>2 DEF Range

LEMMA AppendRange ==
  ASSUME NEW S, NEW t \in Seq(S), NEW e \in S
  PROVE  Range(Append(t, e)) = Range(t) \cup {e}
  <1>1. DOMAIN Append(t, e) = DOMAIN t \cup {Len(t) + 1}
    OBVIOUS
  <1>2. Append(t, e)[Len(t) + 1] = e /\ \A i \in DOMAIN t : Append(t, e)[i] = t[i]
    OBVIOUS
  <1> QED
    BY <1>1, <1>2 DEF Range
-----------------------------------------------------------------------------
(* Idempotency keys.                                                       *)

LEMMA KeyTypeStep == KeyType /\ [Next]_vars => KeyType'
  <1> SUFFICES ASSUME KeyType, [Next]_vars PROVE KeyType'
    OBVIOUS
  <1> USE DEF KeyType, Goto, PC, InFlight, inputs
  <1>1. ASSUME NEW r \in Requests, Reject(r) \/ Disconnect(r) PROVE KeyType'
    BY <1>1 DEF Reject, Disconnect
  <1>2. ASSUME NEW r \in Requests, Handler(r) PROVE KeyType'
    BY <1>2 DEF Handler, Accept, Claim, Resolve, NoModel, Refuse, Prepare
  <1>3. ASSUME NEW r \in Requests, Stream(r) PROVE KeyType'
    BY <1>3 DEF Stream, Done, StripPanics, StreamFails, EmitError, RecordUser, SaveUser,
                RecordAssistant, SaveAssistant, Reply, Release
  <1>4. CASE Crash
    BY <1>4 DEF Crash
  <1>5. CASE UNCHANGED vars
    BY <1>5 DEF vars
  <1> QED
    BY <1>1, <1>2, <1>3, <1>4, <1>5 DEF Next

\* Only Claim makes a run hold a key; only the ends of a run give its key up.
LEMMA KeyStep == KeyInv /\ [Next]_vars => KeysHeld' /\ OneRunPerKey'
  <1> SUFFICES ASSUME KeyInv, [Next]_vars PROVE KeysHeld' /\ OneRunPerKey'
    OBVIOUS
  <1> USE DEF KeyInv, KeyType, KeysHeld, OneRunPerKey, SameKey, DedupKey, Goto, inputs
  <1>1. ASSUME NEW r \in Requests, Claim(r) PROVE KeysHeld' /\ OneRunPerKey'
    BY <1>1 DEF Claim, InFlight
  <1>2. ASSUME NEW r \in Requests, NoModel(r) PROVE KeysHeld' /\ OneRunPerKey'
    BY <1>2 DEF NoModel, Free, InFlight
  <1>3. ASSUME NEW r \in Requests, Release(r) PROVE KeysHeld' /\ OneRunPerKey'
    BY <1>3 DEF Release, Free, InFlight
  <1>4. ASSUME NEW r \in Requests, Reject(r) \/ Accept(r) \/ Refuse(r)
        PROVE  KeysHeld' /\ OneRunPerKey'
    BY <1>4 DEF Reject, Accept, Refuse, InFlight
  <1>5. ASSUME NEW r \in Requests, Resolve(r) \/ Prepare(r)
        PROVE  KeysHeld' /\ OneRunPerKey'
    BY <1>5 DEF Resolve, Prepare, InFlight
  <1>6. ASSUME NEW r \in Requests, Done(r) \/ StripPanics(r) \/ StreamFails(r) \/ EmitError(r)
        PROVE  KeysHeld' /\ OneRunPerKey'
    BY <1>6 DEF Done, StripPanics, StreamFails, EmitError, InFlight
  <1>7. ASSUME NEW r \in Requests, RecordUser(r) \/ SaveUser(r)
        PROVE  KeysHeld' /\ OneRunPerKey'
    BY <1>7 DEF RecordUser, SaveUser, InFlight
  <1>8. ASSUME NEW r \in Requests, RecordAssistant(r) \/ SaveAssistant(r) \/ Reply(r)
        PROVE  KeysHeld' /\ OneRunPerKey'
    BY <1>8 DEF RecordAssistant, SaveAssistant, Reply, InFlight
  <1>9. CASE Crash
    BY <1>9 DEF Crash, InFlight
  <1>10. CASE UNCHANGED <<inputs, pc, active>>
    BY <1>10
  <1> QED
    BY <1>1, <1>2, <1>3, <1>4, <1>5, <1>6, <1>7, <1>8, <1>9, <1>10
    DEF Next, Handler, Stream, Disconnect, vars

\* A claimed key keeps a holder: the run that ends takes its key with it.
LEMMA LeakStep == KeyInv /\ [Next]_vars => OnlyPanicsLeakKeys'
  <1> SUFFICES ASSUME KeyInv, [Next]_vars PROVE OnlyPanicsLeakKeys'
    OBVIOUS
  <1> USE DEF KeyInv, KeyType, OnlyPanicsLeakKeys, DedupKey, Goto, inputs
  <1>1. ASSUME NEW r \in Requests, Claim(r) PROVE OnlyPanicsLeakKeys'
    BY <1>1 DEF Claim, InFlight
  <1>2. ASSUME NEW r \in Requests, NoModel(r) PROVE OnlyPanicsLeakKeys'
    BY <1>2 DEF NoModel, Free, InFlight
  <1>3. ASSUME NEW r \in Requests, Release(r) PROVE OnlyPanicsLeakKeys'
    BY <1>3 DEF Release, Free, InFlight
  <1>4. ASSUME NEW r \in Requests, Reject(r) \/ Accept(r) \/ Refuse(r)
        PROVE  OnlyPanicsLeakKeys'
    BY <1>4 DEF Reject, Accept, Refuse, InFlight
  <1>5. ASSUME NEW r \in Requests, Resolve(r) \/ Prepare(r)
        PROVE  OnlyPanicsLeakKeys'
    BY <1>5 DEF Resolve, Prepare, InFlight
  <1>6. ASSUME NEW r \in Requests, Done(r) \/ StripPanics(r) \/ StreamFails(r) \/ EmitError(r)
        PROVE  OnlyPanicsLeakKeys'
    BY <1>6 DEF Done, StripPanics, StreamFails, EmitError, InFlight
  <1>7. ASSUME NEW r \in Requests, RecordUser(r) \/ SaveUser(r)
        PROVE  OnlyPanicsLeakKeys'
    BY <1>7 DEF RecordUser, SaveUser, InFlight
  <1>8. ASSUME NEW r \in Requests, RecordAssistant(r) \/ SaveAssistant(r) \/ Reply(r)
        PROVE  OnlyPanicsLeakKeys'
    BY <1>8 DEF RecordAssistant, SaveAssistant, Reply, InFlight
  <1>9. CASE Crash
    BY <1>9 DEF Crash, InFlight
  <1>10. CASE UNCHANGED <<inputs, pc, active>>
    BY <1>10
  <1> QED
    BY <1>1, <1>2, <1>3, <1>4, <1>5, <1>6, <1>7, <1>8, <1>9, <1>10
    DEF Next, Handler, Stream, Disconnect, vars

LEMMA KeyInductive == Spec => []KeyInv
  <1>1. Init => KeyInv
    BY DEF Init, KeyInv, KeyType, KeysHeld, OneRunPerKey, OnlyPanicsLeakKeys, PC, InFlight
  <1>2. KeyInv /\ [Next]_vars => KeyInv'
    BY KeyTypeStep, KeyStep, LeakStep DEF KeyInv
  <1> QED
    BY <1>1, <1>2, PTL DEF Spec

\* Two requests of one device with one idempotency key never run at once,
\* whatever else the gateway runs, and whether it crashes or not.
THEOREM KeysAreExclusive == Spec => []OneRunPerKey
  <1>1. KeyInv => OneRunPerKey
    BY DEF KeyInv
  <1> QED
    BY KeyInductive, <1>1, PTL

\* A claimed key belongs to a run in flight or to one that panicked: every
\* other way out of a run frees its key.
THEOREM KeysAreFreed == Spec => []OnlyPanicsLeakKeys
  <1>1. KeyInv => OnlyPanicsLeakKeys
    BY DEF KeyInv
  <1> QED
    BY KeyInductive, <1>1, PTL

\* No request is turned away as a duplicate of another device's run, nor of a
\* run that has ended.
THEOREM DuplicatesAreReal == Spec => DuplicateHasARun
  <1>1. ASSUME KeyInv, [Next]_vars, NEW r \in Requests, pc[r] # "duplicate",
               pc'[r] = "duplicate"
        PROVE  \E q \in Requests \ {r} : SameKey(q, r) /\ pc[q] \in InFlight \cup {"panicked"}
    <2>1. Claim(r) /\ DedupKey(r) \in active
      BY <1>1 DEF KeyInv, KeyType, Goto, Next, Handler, Stream, vars, Reject, Accept, Claim,
                  Resolve, NoModel, Refuse, Prepare, Done, StripPanics, StreamFails, EmitError,
                  RecordUser, SaveUser, RecordAssistant, SaveAssistant, Reply, Release,
                  Disconnect, Crash
    <2>2. PICK q \in Requests : DedupKey(q) = DedupKey(r) /\ pc[q] \in InFlight \cup {"panicked"}
      BY <1>1, <2>1 DEF KeyInv, OnlyPanicsLeakKeys
    <2>3. q # r
      BY <2>1, <2>2 DEF Claim, InFlight
    <2> QED
      BY <2>2, <2>3 DEF DedupKey, SameKey
  <1>2. KeyInv /\ [Next]_vars =>
          [\A r \in Requests :
             pc[r] # "duplicate" /\ pc'[r] = "duplicate" =>
               \E q \in Requests \ {r} :
                 SameKey(q, r) /\ pc[q] \in InFlight \cup {"panicked"}]_vars
    BY <1>1
  <1> QED
    BY KeyInductive, <1>2, PTL DEF Spec, DuplicateHasARun
-----------------------------------------------------------------------------
(* Conversations.                                                          *)

\* A recorded turn is the last of the history and of the clone.
LEMMA RecordEffect ==
  ASSUME TalkType, KeyType, NEW r \in Requests, NEW role \in {"user", "assistant"},
         device[r] \in Devices, Record(r, role)
  PROVE  /\ <<role, r>> \in Turns
         /\ history[device[r]] \in Seq(Turns)
         /\ history'[device[r]] = Append(history[device[r]], <<role, r>>)
         /\ \A d \in Devices : d # device[r] => history'[d] = history[d]
         /\ Range(history'[device[r]]) = Range(history[device[r]]) \cup {<<role, r>>}
  <1>1. <<role, r>> \in Turns
    BY DEF Turns
  <1>2. history[device[r]] \in Seq(Turns)
    BY DEF TalkType
  <1>3. /\ history'[device[r]] = Append(history[device[r]], <<role, r>>)
        /\ \A d \in Devices : d # device[r] => history'[d] = history[d]
    BY DEF TalkType, Record, WithTurn
  <1>4. Range(history'[device[r]]) = Range(history[device[r]]) \cup {<<role, r>>}
    BY <1>1, <1>2, <1>3, AppendRange
  <1> QED
    BY <1>1, <1>2, <1>3, <1>4

\* Only the four recording steps, and a crash, touch the conversations.
LEMMA TalkUnchanged ==
  ASSUME [Next]_vars
  PROVE  \/ UNCHANGED talk
         \/ \E r \in Requests :
              RecordUser(r) \/ SaveUser(r) \/ RecordAssistant(r) \/ SaveAssistant(r)
         \/ Crash
  BY DEF Next, Handler, Stream, vars, Reject, Accept, Claim, Resolve, NoModel, Refuse,
         Prepare, Done, StripPanics, StreamFails, EmitError, Reply, Release, Disconnect

LEMMA TalkTypeStep == TalkInv /\ [Next]_vars => TalkType'
  <1> SUFFICES ASSUME TalkInv, [Next]_vars PROVE TalkType'
    OBVIOUS
  <1> USE DEF TalkInv, KeyType, TalkType
  <1>1. ASSUME NEW r \in Requests, NEW role \in {"user", "assistant"},
               device[r] \in Devices, Record(r, role)
        PROVE  TalkType'
    <2>1. <<role, r>> \in Turns /\ history[device[r]] \in Seq(Turns)
      BY <1>1, RecordEffect
    <2>2. Append(history[device[r]], <<role, r>>) \in Seq(Turns)
      BY <2>1
    <2> QED
      BY <1>1, <2>2 DEF Record, WithTurn
  <1>2. ASSUME NEW r \in Requests, Save(r) PROVE TalkType'
    BY <1>2 DEF Save
  <1>3. CASE Crash
    BY <1>3 DEF Crash
  <1>4. CASE UNCHANGED talk
    BY <1>4 DEF talk
  <1>5. ASSUME NEW r \in Requests, RecordUser(r) \/ RecordAssistant(r) PROVE TalkType'
    <2>1. device[r] \in Devices
      BY <1>5 DEF RecordUser, RecordAssistant, Recorded, Recording
    <2> QED
      BY <1>1, <1>5, <2>1 DEF RecordUser, RecordAssistant
  <1> QED
    BY <1>2, <1>3, <1>4, <1>5, TalkUnchanged DEF SaveUser, SaveAssistant

\* What Recorded says of one request.
RecordedAt(r) ==
  /\ pc[r] \in Recording => device[r] \in Devices
  /\ pc[r] \in Unrecorded =>
       \A d \in Devices : \A turn \in Range(history[d]) : turn[2] # r
  /\ pc[r] \in {"saveUser", "assistant"} =>
       /\ <<"user", r>> \in Range(history[device[r]])
       /\ <<"assistant", r>> \notin Range(history[device[r]])

\* Recording a turn of one run leaves what holds of the others.
LEMMA RecordOther ==
  ASSUME TalkInv, NEW r \in Requests, NEW role \in {"user", "assistant"},
         device[r] \in Devices, Record(r, role), UNCHANGED inputs,
         NEW q \in Requests, q # r, pc'[q] = pc[q]
  PROVE  RecordedAt(q)'
  <1>1. ASSUME NEW d \in Devices
        PROVE  \/ history'[d] = history[d]
               \/ d = device[r] /\ Range(history'[d]) = Range(history[d]) \cup {<<role, r>>}
    BY RecordEffect DEF TalkInv
  <1>2. RecordedAt(q)
    BY DEF TalkInv, Recorded, RecordedAt
  <1>3. device' = device
    BY DEF inputs
  <1>4. <<role, r>>[2] # q /\ <<role, r>> # <<"assistant", q>>
    OBVIOUS
  <1>5. pc[q] \in Recording => device[q] \in Devices
    BY <1>2 DEF RecordedAt
  <1>6. ASSUME pc[q] \in Unrecorded, NEW d \in Devices, NEW turn \in Range(history'[d])
        PROVE  turn[2] # q
    <2>1. \A t \in Range(history[d]) : t[2] # q
      BY <1>2, <1>6 DEF RecordedAt
    <2> QED
      BY <1>1, <1>4, <1>6, <2>1
  <1>7. ASSUME pc[q] \in {"saveUser", "assistant"}
        PROVE  /\ <<"user", q>> \in Range(history'[device[q]])
               /\ <<"assistant", q>> \notin Range(history'[device[q]])
    <2>1. device[q] \in Devices
      BY <1>5, <1>7 DEF Recording
    <2>2. /\ <<"user", q>> \in Range(history[device[q]])
          /\ <<"assistant", q>> \notin Range(history[device[q]])
      BY <1>2, <1>7 DEF RecordedAt
    <2> QED
      BY <1>1, <1>4, <2>1, <2>2
  <1> QED
    BY <1>3, <1>5, <1>6, <1>7 DEF RecordedAt

LEMMA RecordedStep == TalkInv /\ [Next]_vars => Recorded'
  <1> SUFFICES ASSUME TalkInv, [Next]_vars, NEW q \in Requests PROVE RecordedAt(q)'
    BY DEF Recorded, RecordedAt
  <1>a. RecordedAt(q)
    BY DEF TalkInv, Recorded, RecordedAt
  <1> USE DEF TalkInv, KeyType, Goto, inputs
  <1>1. ASSUME NEW r \in Requests, RecordUser(r) PROVE RecordedAt(q)'
    <2>1. device[r] \in Devices /\ Record(r, "user") /\ UNCHANGED inputs
      BY <1>1 DEF RecordUser, Recorded, Recording
    <2>2. CASE q # r
      <3>1. pc'[q] = pc[q]
        BY <1>1, <2>2 DEF RecordUser
      <3> QED
        BY <2>1, <2>2, <3>1, RecordOther
    <2>3. CASE q = r
      <3>1. pc'[q] = "saveUser"
        BY <1>1, <2>3 DEF RecordUser
      <3>2. \A turn \in Range(history[device[q]]) : turn[2] # q
        BY <1>1, <1>a, <2>1, <2>3 DEF RecordUser, RecordedAt, Unrecorded
      <3>3. Range(history'[device[q]]) = Range(history[device[q]]) \cup {<<"user", q>>}
        BY <2>1, <2>3, RecordEffect
      <3>4. <<"assistant", q>> \notin Range(history[device[q]])
        BY <3>2
      <3> QED
        BY <2>1, <2>3, <3>1, <3>3, <3>4 DEF RecordedAt, Unrecorded
    <2> QED
      BY <2>2, <2>3
  <1>2. ASSUME NEW r \in Requests, RecordAssistant(r) PROVE RecordedAt(q)'
    <2>1. device[r] \in Devices /\ Record(r, "assistant") /\ UNCHANGED inputs
      BY <1>2 DEF RecordAssistant, Recorded, Recording
    <2>2. CASE q # r
      <3>1. pc'[q] = pc[q]
        BY <1>2, <2>2 DEF RecordAssistant
      <3> QED
        BY <2>1, <2>2, <3>1, RecordOther
    <2>3. CASE q = r
      <3>1. pc'[q] = "saveAssistant"
        BY <1>2, <2>3 DEF RecordAssistant
      <3> QED
        BY <2>1, <2>3, <3>1 DEF RecordedAt, Unrecorded
    <2> QED
      BY <2>2, <2>3
  <1>3. ASSUME NEW r \in Requests, SaveUser(r) \/ SaveAssistant(r) PROVE RecordedAt(q)'
    BY <1>3, <1>a DEF SaveUser, SaveAssistant, Save, RecordedAt, Unrecorded, Recording
  <1>4. CASE Crash
    <2>1. pc'[q] \in {"new", "lost"} /\ (pc'[q] = "new" => pc[q] = "new")
      BY <1>4 DEF Crash
    <2>2. \A d \in Devices : Range(history'[d]) \subseteq Range(history[d])
      BY <1>4, PastRange DEF Crash, Durable, TalkType
    <2> QED
      BY <1>a, <2>1, <2>2 DEF RecordedAt, Unrecorded, Recording
  <1>5. CASE UNCHANGED history
    <2>1. ASSUME NEW r \in Requests, Done(r) PROVE RecordedAt(q)'
      BY <1>5, <1>a, <2>1 DEF Done, RecordedAt, Unrecorded, Recording, Tokens
    <2>2. ASSUME NEW r \in Requests, Reject(r) \/ Accept(r) \/ Claim(r) \/ Resolve(r)
          PROVE  RecordedAt(q)'
      BY <1>5, <1>a, <2>2 DEF Reject, Accept, Claim, Resolve, RecordedAt, Unrecorded, Recording
    <2>3. ASSUME NEW r \in Requests, NoModel(r) \/ Refuse(r) \/ Prepare(r) \/ StripPanics(r)
          PROVE  RecordedAt(q)'
      BY <1>5, <1>a, <2>3 DEF NoModel, Refuse, Prepare, StripPanics, RecordedAt, Unrecorded,
                              Recording
    <2>4. ASSUME NEW r \in Requests, StreamFails(r) \/ EmitError(r) \/ Reply(r) \/ Release(r)
          PROVE  RecordedAt(q)'
      BY <1>5, <1>a, <2>4 DEF StreamFails, EmitError, Reply, Release, RecordedAt, Unrecorded,
                              Recording
    <2>5. CASE UNCHANGED <<inputs, pc>>
      BY <1>5, <1>a, <2>5 DEF RecordedAt
    <2> QED
      BY <1>1, <1>2, <1>3, <1>4, <2>1, <2>2, <2>3, <2>4, <2>5
      DEF Next, Handler, Stream, Disconnect, vars
  <1> QED
    BY <1>1, <1>2, <1>3, <1>4, <1>5, TalkUnchanged DEF talk

\* Past states of the history survive a recording.
LEMMA DurableRecord ==
  ASSUME TalkInv, NEW r \in Requests, NEW role \in {"user", "assistant"},
         device[r] \in Devices, Record(r, role), UNCHANGED inputs,
         \A q \in Requests \ {r} : pc'[q] = pc[q]
  PROVE  Durable'
  <1>1. ASSUME NEW d \in Devices, NEW s, Past(s, history[d]) PROVE Past(s, history'[d])
    <2>1. /\ <<role, r>> \in Turns /\ history[device[r]] \in Seq(Turns)
          /\ history'[device[r]] = Append(history[device[r]], <<role, r>>)
          /\ d # device[r] => history'[d] = history[d]
      BY RecordEffect DEF TalkInv
    <2> QED
      BY <1>1, <2>1, PastAppend
  <1>2. \A d \in Devices : Past(disk'[d], history'[d])
    BY <1>1 DEF TalkInv, Durable, Record
  <1>3. Past(copy'[r], history'[device[r]])
    <2>1. copy'[r] = history'[device[r]]
      BY DEF TalkInv, TalkType, Record, WithTurn
    <2>2. history'[device[r]] \in Seq(Turns)
      <3>1. /\ <<role, r>> \in Turns /\ history[device[r]] \in Seq(Turns)
            /\ history'[device[r]] = Append(history[device[r]], <<role, r>>)
        BY RecordEffect DEF TalkInv
      <3> QED
        BY <3>1
    <2> QED
      BY <2>1, <2>2, PastReflexive
  <1>4. ASSUME NEW q \in Requests, q # r, pc'[q] \in {"saveUser", "saveAssistant"}
        PROVE  Past(copy'[q], history'[device[q]])
    <2>1. pc[q] \in {"saveUser", "saveAssistant"}
      BY <1>4
    <2>2. device[q] \in Devices /\ Past(copy[q], history[device[q]])
      BY <2>1 DEF TalkInv, Recorded, Recording, Durable
    <2>3. copy'[q] = copy[q]
      BY <1>4 DEF TalkInv, TalkType, Record
    <2> QED
      BY <1>1, <2>2, <2>3
  <1> QED
    BY <1>2, <1>3, <1>4 DEF Durable, inputs

LEMMA DurableStep == TalkInv /\ [Next]_vars => Durable'
  <1> SUFFICES ASSUME TalkInv, [Next]_vars PROVE Durable'
    OBVIOUS
  <1>1. ASSUME NEW r \in Requests, RecordUser(r) PROVE Durable'
    <2>1. /\ device[r] \in Devices /\ Record(r, "user") /\ UNCHANGED inputs
          /\ \A q \in Requests \ {r} : pc'[q] = pc[q]
      BY <1>1 DEF TalkInv, KeyType, Recorded, Recording, RecordUser, Goto
    <2> QED
      BY <2>1, DurableRecord
  <1>2. ASSUME NEW r \in Requests, RecordAssistant(r) PROVE Durable'
    <2>1. /\ device[r] \in Devices /\ Record(r, "assistant") /\ UNCHANGED inputs
          /\ \A q \in Requests \ {r} : pc'[q] = pc[q]
      BY <1>2 DEF TalkInv, KeyType, Recorded, Recording, RecordAssistant, Goto
    <2> QED
      BY <2>1, DurableRecord
  <1>3. ASSUME NEW r \in Requests, SaveUser(r) \/ SaveAssistant(r) PROVE Durable'
    <2>1. pc[r] \in {"saveUser", "saveAssistant"} /\ Save(r) /\ UNCHANGED inputs
      BY <1>3 DEF SaveUser, SaveAssistant
    <2>2. device[r] \in Devices /\ Past(copy[r], history[device[r]])
      BY <2>1 DEF TalkInv, Recorded, Recording, Durable
    <2>3. \A d \in Devices : Past(disk'[d], history'[d])
      BY <2>1, <2>2 DEF TalkInv, TalkType, Durable, Save
    <2>4. \A q \in Requests :
            pc'[q] \in {"saveUser", "saveAssistant"} => pc[q] \in {"saveUser", "saveAssistant"}
      BY <1>3 DEF TalkInv, KeyType, SaveUser, SaveAssistant, Goto
    <2> QED
      BY <2>1, <2>3, <2>4 DEF TalkInv, Durable, Save, inputs
  <1>4. CASE Crash
    <2>1. \A q \in Requests : pc'[q] \in {"new", "lost"}
      BY <1>4 DEF Crash
    <2>2. \A d \in Devices : Past(disk'[d], history'[d])
      BY <1>4, PastReflexive DEF Crash, TalkInv, TalkType
    <2> QED
      BY <2>1, <2>2 DEF Durable
  <1>5. CASE UNCHANGED <<talk, inputs>> /\ \A q \in Requests :
          pc'[q] \in {"saveUser", "saveAssistant"} => pc'[q] = pc[q]
    BY <1>5 DEF TalkInv, Durable, talk, inputs
  <1>6. ASSUME NEW r \in Requests, Handler(r) \/ Reject(r) \/ Disconnect(r) PROVE Durable'
    BY <1>5, <1>6 DEF TalkInv, KeyType, Goto, Handler, Accept, Claim, Resolve, NoModel, Refuse,
                      Prepare, Reject, Disconnect
  <1>7. ASSUME NEW r \in Requests, Done(r) \/ StripPanics(r) \/ StreamFails(r) PROVE Durable'
    BY <1>5, <1>7 DEF TalkInv, KeyType, Goto, Done, StripPanics, StreamFails
  <1>8. ASSUME NEW r \in Requests, EmitError(r) \/ Reply(r) \/ Release(r) PROVE Durable'
    BY <1>5, <1>8 DEF TalkInv, KeyType, Goto, EmitError, Reply, Release
  <1>9. CASE UNCHANGED vars
    BY <1>5, <1>9 DEF vars
  <1> QED
    BY <1>1, <1>2, <1>3, <1>4, <1>6, <1>7, <1>8, <1>9 DEF Next, Stream

LEMMA LoadedType == Loaded \subseteq Seq(Turns)
  <1> SUFFICES ASSUME NEW h \in Loaded PROVE h \in Seq(Turns)
    OBVIOUS
  <1>1. CASE h = << >>
    BY <1>1
  <1>2. ASSUME NEW e \in Earlier
        PROVE  <<"user", e>> \in Turns /\ <<"assistant", e>> \in Turns
    BY DEF Turns
  <1>3. ASSUME NEW e \in Earlier, h = <<<<"user", e>>>> PROVE h \in Seq(Turns)
    <2>1. ASSUME NEW t \in Turns PROVE <<t>> \in Seq(Turns)
      OBVIOUS
    <2> QED
      BY <1>2, <1>3, <2>1
  <1>4. ASSUME NEW e \in Earlier, h = <<<<"user", e>>, <<"assistant", e>>>>
        PROVE  h \in Seq(Turns)
    BY <1>2, <1>4
  <1> QED
    BY <1>1, <1>3, <1>4 DEF Loaded

LEMMA TalkInductive == Spec => []TalkInv
  <1>1. ASSUME Init PROVE TalkInv
    <2>1. KeyType
      BY <1>1 DEF Init, KeyType, PC
    <2>2. Loaded \subseteq Seq(Turns)
      BY LoadedType
    <2>3. /\ history \in [Devices -> Seq(Turns)] /\ disk = history
          /\ copy \in [Requests -> Seq(Turns)]
      BY <1>1, <2>2 DEF Init
    <2>4. Recorded
      <3>1. \A d \in Devices : \A turn \in Range(history[d]) : turn[2] \in Earlier
        BY <1>1 DEF Init, Loaded, Range
      <3> QED
        BY <1>1, <3>1, RunAssumption DEF Init, Recorded, Recording
    <2>5. Durable
      BY <1>1, <2>3, PastReflexive DEF Init, Durable
    <2> QED
      BY <2>1, <2>3, <2>4, <2>5 DEF TalkInv, TalkType
  <1>2. TalkInv /\ [Next]_vars => TalkInv'
    BY KeyTypeStep, TalkTypeStep, RecordedStep, DurableStep DEF TalkInv
  <1> QED
    BY <1>1, <1>2, PTL DEF Spec

\* Every step of the gateway is a step of the abstract log, or none of its.
LEMMA ConversationStep == TalkInv /\ [Next]_vars => [Conversation!Next]_(Conversation!vars)
  <1> SUFFICES ASSUME TalkInv, [Next]_vars PROVE [Conversation!Next]_(Conversation!vars)
    OBVIOUS
  <1> USE DEF Conversation!Next, Conversation!vars
  <1>1. ASSUME NEW r \in Requests, RecordUser(r) PROVE Conversation!Next
    <2>1. device[r] \in Devices /\ Record(r, "user")
      BY <1>1 DEF TalkInv, Recorded, Recording, RecordUser
    <2>2. <<"user", r>> \notin Range(history[device[r]])
      BY <1>1, <2>1 DEF TalkInv, Recorded, Unrecorded, RecordUser
    <2>3. Conversation!Ask(device[r], r)
      BY <2>1, <2>2 DEF Conversation!Ask, Conversation!Says, Record, WithTurn, Range,
                          Conversation!Range
    <2> QED
      BY <2>1, <2>3
  <1>2. ASSUME NEW r \in Requests, RecordAssistant(r) PROVE Conversation!Next
    <2>1. device[r] \in Devices /\ Record(r, "assistant")
      BY <1>2 DEF TalkInv, Recorded, Recording, RecordAssistant
    <2>2. /\ <<"user", r>> \in Range(history[device[r]])
          /\ <<"assistant", r>> \notin Range(history[device[r]])
      BY <1>2 DEF TalkInv, Recorded, RecordAssistant
    <2>3. Conversation!Answer(device[r], r)
      BY <2>1, <2>2 DEF Conversation!Answer, Conversation!Says, Record, WithTurn, Range,
                          Conversation!Range
    <2> QED
      BY <2>1, <2>3
  <1>3. ASSUME NEW r \in Requests, SaveUser(r) \/ SaveAssistant(r)
        PROVE  Conversation!Next \/ UNCHANGED <<history, disk>>
    <2>1. pc[r] \in {"saveUser", "saveAssistant"} /\ Save(r)
      BY <1>3 DEF SaveUser, SaveAssistant
    <2>2. device[r] \in Devices /\ Past(copy[r], history[device[r]])
      BY <2>1 DEF TalkInv, Recorded, Recording, Durable
    <2>3. CASE disk' = [disk EXCEPT ![device[r]] = copy[r]]
      <3>1. Conversation!Persist(device[r])
        BY <2>1, <2>2, <2>3 DEF Past, Save, Conversation!Persist
      <3> QED
        BY <2>2, <3>1
    <2> QED
      BY <2>1, <2>3 DEF Save
  <1>4. CASE Crash
    BY <1>4 DEF Crash, Conversation!Restart
  <1>5. CASE UNCHANGED talk
    BY <1>5 DEF talk
  <1> QED
    BY <1>1, <1>2, <1>3, <1>4, <1>5, TalkUnchanged

\* The conversations implement the abstract log: whatever runs interleave,
\* whatever saves fail or overtake one another, and wherever the gateway
\* crashes, turns are only added, each once and an answer after its question,
\* and the file is a past state of the conversation.
THEOREM ConversationsAreLogs == Spec => ConversationSpec
  <1>1. ASSUME Init PROVE Conversation!Init
    <2>1. Loaded \subseteq Seq(Turns)
      BY LoadedType
    <2> QED
      BY <1>1, <2>1 DEF Init, Turns, Conversation!Init, Conversation!Turns
  <1> QED
    BY <1>1, TalkInductive, ConversationStep, PTL DEF Spec, ConversationSpec, Conversation!Spec

-----------------------------------------------------------------------------
(* Answers.                                                                *)

Responses == {<< >>, <<"error">>, <<"accepted">>, <<"accepted", "ok">>, <<"accepted", "error">>}

\* Control states between the acknowledgement and the final `res`.
Owing == {"claim", "refuse", "resolve", "prepare", "stream", "error", "user", "saveUser",
          "assistant", "saveAssistant", "reply"}

Response(r) ==
  /\ res[r] \in Responses
  /\ pc[r] = "new" => res[r] = << >>
  /\ pc[r] \in Owing => res[r] = <<"accepted">>

ResponseInv ==
  /\ DOMAIN pc = Requests /\ DOMAIN res = Requests
  /\ \A r \in Requests : Response(r)

LEMMA ResponseInit == Init => ResponseInv
BY DEF Init, ResponseInv, Response, Responses, Owing

\* A request goes on and is sent a `res`, or none, as its control state says.
LEMMA ResponseMove ==
  ASSUME ResponseInv, NEW r \in Requests, NEW s, Goto(r, s), Response(r)',
         \/ UNCHANGED res
         \/ \E status : Respond(r, status)
  PROVE  ResponseInv'
<1>1. \A q \in Requests \ {r} : pc'[q] = pc[q] /\ res'[q] = res[q]
  BY DEF ResponseInv, Goto, Respond
<1>2. DOMAIN pc' = Requests /\ DOMAIN res' = Requests
  BY DEF ResponseInv, Goto, Respond
<1>3. \A q \in Requests \ {r} : Response(q)'
  BY <1>1 DEF ResponseInv, Response
<1> QED BY <1>2, <1>3 DEF ResponseInv

LEMMA ResponseStep == ResponseInv /\ [Next]_vars => ResponseInv'
<1> SUFFICES ASSUME ResponseInv, [Next]_vars PROVE ResponseInv'
  OBVIOUS
<1>a. DOMAIN pc = Requests /\ DOMAIN res = Requests /\ \A r \in Requests : Response(r)
  BY DEF ResponseInv
<1>1. ASSUME NEW r \in Requests, Reject(r) PROVE ResponseInv'
  <2>1. pc'[r] = "done" /\ res[r] = << >>
    BY <1>a, <1>1 DEF Reject, Goto, Response
  <2>2. res'[r] = << >> \/ res'[r] = <<"error">>
    BY <1>a, <1>1, <2>1 DEF Reject, Respond
  <2>3. Response(r)'
    BY <2>1, <2>2 DEF Response, Responses, Owing
  <2> QED BY <1>1, <2>3, ResponseMove DEF Reject
<1>2. ASSUME NEW r \in Requests, Accept(r) PROVE ResponseInv'
  <2> DEFINE s == IF r \in gone THEN "lost" ELSE "claim"
  <2>1. pc'[r] = s /\ res[r] = << >>
    BY <1>a, <1>2 DEF Accept, Goto, Response
  <2>2. res'[r] = IF r \in gone THEN << >> ELSE <<"accepted">>
    BY <1>a, <1>2, <2>1 DEF Accept, Respond
  <2>3. Response(r)'
    BY <2>1, <2>2 DEF Response, Responses, Owing
  <2>4. Goto(r, s) /\ Respond(r, "accepted")
    BY <1>2 DEF Accept
  <2> HIDE DEF s
  <2> QED BY <2>3, <2>4, ResponseMove
<1>3. ASSUME NEW r \in Requests, Refuse(r) \/ EmitError(r) \/ Reply(r) PROVE ResponseInv'
  <2>1. PICK s, status : /\ pc[r] \in Owing /\ Goto(r, s) /\ Respond(r, status)
                         /\ s = "done" \/ s = "release"
                         /\ status = "error" \/ status = "ok"
    BY <1>3 DEF Refuse, EmitError, Reply, Owing
  <2>2. pc'[r] = s /\ res[r] = <<"accepted">>
    BY <1>a, <2>1 DEF Goto, Response
  <2>3. res'[r] = res[r] \/ res'[r] = Append(res[r], status)
    BY <1>a, <2>1 DEF Respond
  <2>4. \/ res'[r] = <<"accepted">> \/ res'[r] = <<"accepted", "error">>
        \/ res'[r] = <<"accepted", "ok">>
    BY <2>1, <2>2, <2>3
  <2>5. Response(r)'
    BY <2>1, <2>2, <2>4 DEF Response, Responses, Owing
  <2> QED BY <2>1, <2>5, ResponseMove
<1>4. ASSUME NEW r \in Requests, \/ Claim(r) \/ Resolve(r) \/ NoModel(r) \/ Prepare(r) \/ Done(r)
                                \/ StripPanics(r) \/ StreamFails(r) \/ RecordUser(r)
                                \/ SaveUser(r) \/ RecordAssistant(r) \/ SaveAssistant(r)
                                \/ Release(r)
      PROVE  ResponseInv'
  <2>1. PICK s : /\ Goto(r, s) /\ s # "new" /\ UNCHANGED res
                 /\ s \in Owing => pc[r] \in Owing
    BY <1>4 DEF Claim, Resolve, NoModel, Prepare, Done, StripPanics, StreamFails, RecordUser,
                SaveUser, RecordAssistant, SaveAssistant, Release, Owing
  <2>2. pc'[r] = s /\ res'[r] = res[r] /\ Response(r)
    BY <1>a, <2>1 DEF Goto
  <2>3. Response(r)' BY <2>1, <2>2 DEF Response
  <2> QED BY <2>1, <2>3, ResponseMove
<1>5. ASSUME NEW r \in Requests, Disconnect(r) PROVE ResponseInv'
  BY <1>5 DEF Disconnect, ResponseInv, Response
<1>6. CASE Crash
  BY <1>6 DEF Crash, ResponseInv, Response, Owing
<1>7. CASE UNCHANGED vars
  BY <1>7 DEF vars, ResponseInv, Response
<1> QED BY <1>1, <1>2, <1>3, <1>4, <1>5, <1>6, <1>7 DEF Next, Handler, Stream

\* A request is sent at most one final `res`, and only after it has been
\* acknowledged unless it is refused outright (agent/runner.rs).
THEOREM AnsweredOnce == Spec => []OneTerminalRes
<1>1. ResponseInv => OneTerminalRes
  BY DEF ResponseInv, Response, Responses, OneTerminalRes
<1> QED BY <1>1, ResponseInit, ResponseStep, PTL DEF Spec
-----------------------------------------------------------------------------
(* Type correctness.                                                       *)

Statuses == {"accepted", "ok", "error"}

RestType ==
  /\ gone \subseteq Requests
  /\ res \in [Requests -> Seq(Statuses)]
  /\ active \subseteq Tokens \X Keys
  /\ prompt \in [Requests -> Seq(Turns)]
  /\ crashes \in 0 .. MaxCrashes
  /\ known \in [Requests -> SUBSET Requests]

\* Whole pairs are dropped, never the last message, and none but for the budget.
LEMMA Dropped ==
  ASSUME NEW n \in Nat, n > 0
  PROVE  /\ DroppedPairs(n) \in Nat /\ 2 * DroppedPairs(n) < n
         /\ DroppedPairs(n) > 0 => n - 2 * DroppedPairs(n) >= Budget - 1
<1>1. Budget \in Nat /\ Budget > 0
  BY RunAssumption
<1> DEFINE needed == IF n <= Budget THEN 0 ELSE (n - Budget + 1) \div 2
<1> DEFINE most == (n - 1) \div 2
<1>2. most \in Nat /\ 2 * most < n
  OBVIOUS
<1>3. needed \in Nat /\ (needed > 0 => n - 2 * needed >= Budget - 1)
  BY <1>1
<1>4. DroppedPairs(n) = IF needed <= most THEN needed ELSE most
  BY DEF DroppedPairs
<1> HIDE DEF needed, most
<1> DEFINE k == DroppedPairs(n)
<1>5. k \in Nat /\ k <= needed /\ k <= most
  BY <1>2, <1>3, <1>4
<1> HIDE DEF k
<1>6. 2 * k < n
  BY <1>2, <1>5
<1>7. k > 0 => n - 2 * k >= Budget - 1
  BY <1>1, <1>3, <1>5
<1> QED BY <1>5, <1>6, <1>7 DEF k

LEMMA TrimmedIsTail ==
  ASSUME NEW m \in Seq(Turns), Len(m) > 0, NEW k, k = 2 * DroppedPairs(Len(m))
  PROVE  /\ k \in Nat /\ k < Len(m) /\ (k > 0 => Len(m) - k >= Budget - 1)
         /\ Trimmed(m) \in Seq(Turns) /\ Len(Trimmed(m)) = Len(m) - k
         /\ \A j \in 1 .. Len(m) - k : Trimmed(m)[j] = m[k + j]
<1>1. Len(m) \in Nat
  OBVIOUS
<1>2. k \in Nat /\ k < Len(m) /\ (k > 0 => Len(m) - k >= Budget - 1)
  BY <1>1, Dropped
<1>3. Trimmed(m) = SubSeq(m, k + 1, Len(m))
  BY DEF Trimmed
<1>4. /\ SubSeq(m, k + 1, Len(m)) \in Seq(Turns) /\ Len(SubSeq(m, k + 1, Len(m))) = Len(m) - k
      /\ \A j \in 1 .. Len(m) - k : SubSeq(m, k + 1, Len(m))[j] = m[k + j]
  BY <1>1, <1>2
<1> QED BY <1>2, <1>3, <1>4

LEMMA HistoryType ==
  ASSUME KeyType, TalkType, NEW r \in Requests
  PROVE  /\ History(r) \in Seq(Turns) /\ <<"user", r>> \in Turns
         /\ device[r] # None => device[r] \in Devices /\ History(r) = history[device[r]]
BY DEF KeyType, TalkType, Tokens, History, Turns

LEMMA PromptType ==
  ASSUME KeyType, TalkType, NEW r \in Requests
  PROVE  Trimmed(Append(History(r), <<"user", r>>)) \in Seq(Turns)
<1> DEFINE h == History(r)
<1> DEFINE m == Append(h, <<"user", r>>)
<1>1. h \in Seq(Turns) /\ <<"user", r>> \in Turns
  BY HistoryType
<1> HIDE DEF h
<1>2. m \in Seq(Turns) /\ Len(m) > 0
  BY <1>1
<1> HIDE DEF m
<1>3. Trimmed(m) \in Seq(Turns)
  BY <1>2, TrimmedIsTail
<1> QED BY <1>3 DEF m, h

LEMMA RestInit == Init => RestType
BY RunAssumption DEF Init, RestType

LEMMA RestStep == KeyType /\ TalkType /\ RestType /\ [Next]_vars => RestType'
<1> SUFFICES ASSUME KeyType, TalkType, RestType, [Next]_vars PROVE RestType'
  OBVIOUS
<1>a. ASSUME NEW r \in Requests, NEW status \in Statuses, Respond(r, status)
      PROVE  res' \in [Requests -> Seq(Statuses)]
  <2>1. res \in [Requests -> Seq(Statuses)] /\ Append(res[r], status) \in Seq(Statuses)
    BY DEF RestType
  <2> QED BY <1>a, <2>1 DEF Respond
<1>b. ASSUME NEW r \in Requests PROVE DedupKey(r) \in Tokens \X Keys
  BY DEF KeyType, DedupKey
<1>c. {"accepted", "ok", "error"} = Statuses
  BY DEF Statuses
<1>1. ASSUME NEW r \in Requests, Reject(r) \/ Accept(r) \/ Refuse(r) \/ EmitError(r) \/ Reply(r)
      PROVE  RestType'
  <2>1. res' \in [Requests -> Seq(Statuses)]
    BY <1>1, <1>a, <1>c DEF Reject, Accept, Refuse, EmitError, Reply
  <2>2. known' \in [Requests -> SUBSET Requests]
    BY <1>1 DEF Reject, Accept, Refuse, EmitError, Reply, RestType, Answered
  <2>3. UNCHANGED <<gone, active, prompt, crashes>>
    BY <1>1 DEF Reject, Accept, Refuse, EmitError, Reply
  <2> QED BY <2>1, <2>2, <2>3 DEF RestType
<1>2. ASSUME NEW r \in Requests, Claim(r) \/ NoModel(r) \/ Release(r) PROVE RestType'
  BY <1>2, <1>b DEF Claim, NoModel, Release, Free, RestType
<1>3. ASSUME NEW r \in Requests, Prepare(r) PROVE RestType'
  <2>1. prompt' = [prompt EXCEPT ![r] = Trimmed(Append(History(r), <<"user", r>>))]
    BY <1>3 DEF Prepare
  <2>2. prompt' \in [Requests -> Seq(Turns)]
    BY <2>1, PromptType DEF RestType
  <2> QED BY <1>3, <2>2 DEF Prepare, RestType
<1>4. ASSUME NEW r \in Requests, Disconnect(r) PROVE RestType'
  BY <1>4 DEF Disconnect, RestType
<1>5. CASE Crash
  <2>1. crashes' \in 0 .. MaxCrashes
    BY <1>5, RunAssumption DEF Crash, RestType
  <2>2. gone' \subseteq Requests /\ active' = {} /\ UNCHANGED <<res, prompt, known>>
    BY <1>5 DEF Crash
  <2> QED BY <2>1, <2>2 DEF RestType
<1>6. CASE UNCHANGED <<gone, res, active, prompt, crashes, known>>
  BY <1>6 DEF RestType
<1> QED BY <1>1, <1>2, <1>3, <1>4, <1>5, <1>6
        DEF Next, Handler, Stream, Resolve, Done, StripPanics, StreamFails, RecordUser,
            SaveUser, RecordAssistant, SaveAssistant, vars

LEMMA RestInductive == Spec => []RestType
<1>1. TalkInv => KeyType /\ TalkType
  BY DEF TalkInv
<1> QED BY <1>1, RestInit, RestStep, TalkInductive, PTL DEF Spec

\* Every variable keeps its type, for any requests, devices and budget: what a
\* model is sent are turns of the conversation.
THEOREM TypeCorrect == Spec => []TypeOK
<1>1. TalkInv /\ RestType => TypeOK
  BY DEF TalkInv, KeyType, TalkType, RestType, Statuses, TypeOK
<1> QED BY <1>1, TalkInductive, RestInductive, PTL
-----------------------------------------------------------------------------
(* What a prompt holds.                                                    *)

\* The turns of earlier requests come before those of this run of the gateway.
EarlierFirst(h) ==
  \A i, j \in 1 .. Len(h) : i < j /\ h[j][2] \in Earlier => h[i][2] \in Earlier

Exchange(q) == {<<"user", q>>, <<"assistant", q>>}

\* The exchange of a request is in the history of its device, if it has one.
Stored(q) == device[q] \in Devices => Exchange(q) \subseteq Range(history[device[q]])

\* The prompt of r is as PromptSeesAnswered has it, for the exchange of q.
Sees(p, q) ==
  \/ Exchange(q) \subseteq Range(p)
  \/ Len(p) >= Budget - 1 /\ \A turn \in Range(p) : turn[2] \notin Earlier

SeenAt(r) ==
  /\ pc[r] \in {"saveAssistant", "reply"} => Stored(r)
  /\ r \in Answered /\ pc[r] # "lost" => Stored(r)
  /\ pc[r] \in {"claim", "resolve", "prepare"} => \A q \in known[r] : Stored(q)
  /\ pc[r] = "new" => prompt[r] = << >>
  /\ \A q \in known[r] :
       prompt[r] # << >> /\ device[q] = device[r] /\ device[r] # None => Sees(prompt[r], q)

SeenInv ==
  /\ \A d \in Devices : EarlierFirst(history[d])
  /\ \A r \in Requests : SeenAt(r)

\* Of a history cut to the budget, an exchange is kept whole, or what is kept
\* fills the budget with turns that are none of an earlier run's.
LEMMA TailSees ==
  ASSUME NEW h \in Seq(Turns), EarlierFirst(h), NEW r \in Requests, NEW q \in Requests,
         Exchange(q) \subseteq Range(h)
  PROVE  Sees(Trimmed(Append(h, <<"user", r>>)), q)
<1> DEFINE m == Append(h, <<"user", r>>)
<1> DEFINE p == Trimmed(m)
<1> DEFINE k == 2 * DroppedPairs(Len(m))
<1>1. <<"user", r>> \in Turns /\ r \notin Earlier /\ q \notin Earlier
  BY RunAssumption DEF Turns
<1>2. /\ m \in Seq(Turns) /\ Len(h) \in Nat /\ Len(m) = Len(h) + 1
      /\ m[Len(h) + 1] = <<"user", r>> /\ \A i \in 1 .. Len(h) : m[i] = h[i]
  BY <1>1
<1> HIDE DEF m, k
<1>3. /\ k \in Nat /\ k < Len(m) /\ (k > 0 => Len(m) - k >= Budget - 1)
      /\ p \in Seq(Turns) /\ Len(p) = Len(m) - k
      /\ \A j \in 1 .. Len(m) - k : p[j] = m[k + j]
  BY <1>2, TrimmedIsTail DEF k
<1> HIDE DEF p
<1>4. ASSUME NEW i \in 1 .. Len(h), i > k PROVE h[i] \in Range(p)
  <2>1. i - k \in 1 .. Len(m) - k /\ k + (i - k) = i
    BY <1>2, <1>3, <1>4
  <2>2. p[i - k] = h[i] /\ i - k \in DOMAIN p
    BY <1>2, <1>3, <2>1
  <2> QED BY <2>2 DEF Range
<1>5. ASSUME NEW i \in 1 .. Len(h), i <= k, h[i][2] = q PROVE Sees(p, q)
  <2>1. Len(p) >= Budget - 1
    BY <1>3, <1>5
  <2>2. ASSUME NEW j \in 1 .. Len(m) - k PROVE m[k + j][2] \notin Earlier
    <3>1. CASE k + j = Len(h) + 1
      BY <1>1, <1>2, <3>1
    <3>2. CASE k + j # Len(h) + 1
      <4>1. k + j \in 1 .. Len(h) /\ i < k + j
        BY <1>2, <1>3, <1>5, <3>2
      <4>2. h[k + j][2] \notin Earlier
        BY <1>1, <1>5, <4>1 DEF EarlierFirst
      <4> QED BY <1>2, <4>1, <4>2
    <3> QED BY <3>1, <3>2
  <2>3. ASSUME NEW turn \in Range(p) PROVE turn[2] \notin Earlier
    <3>1. PICK j \in DOMAIN p : p[j] = turn
      BY DEF Range
    <3>2. j \in 1 .. Len(m) - k
      BY <1>3
    <3> QED BY <1>3, <2>2, <3>1, <3>2
  <2> QED BY <2>1, <2>3 DEF Sees
<1>6. ASSUME NEW t \in Exchange(q) PROVE t \in Range(p) \/ Sees(p, q)
  <2>1. PICK i \in 1 .. Len(h) : h[i] = t
    BY <1>6 DEF Range
  <2>2. t[2] = q
    BY <1>6 DEF Exchange
  <2>3. i > k \/ i <= k
    BY <1>3
  <2> QED BY <1>4, <1>5, <2>1, <2>2, <2>3
<1>7. Sees(p, q)
  BY <1>6 DEF Sees
<1> QED BY <1>7 DEF p, m

\* Only a crash takes turns out of the histories.
LEMMA HistoryGrows ==
  ASSUME TalkInv, [Next]_vars, ~Crash
  PROVE  /\ \A d \in Devices : Range(history[d]) \subseteq Range(history'[d])
         /\ device' = device
         /\ \A q \in Requests : Stored(q) => Stored(q)'
<1>1. device' = device
  BY DEF Next, Handler, Stream, vars, inputs, Reject, Accept, Claim, Resolve, NoModel, Refuse,
         Prepare, Done, StripPanics, StreamFails, EmitError, RecordUser, SaveUser,
         RecordAssistant, SaveAssistant, Reply, Release, Disconnect
<1>2. ASSUME NEW r \in Requests, NEW role \in {"user", "assistant"}, device[r] \in Devices,
             Record(r, role), NEW d \in Devices
      PROVE  Range(history[d]) \subseteq Range(history'[d])
  BY <1>2, RecordEffect DEF TalkInv
<1>3. ASSUME NEW r \in Requests, RecordUser(r) \/ RecordAssistant(r), NEW d \in Devices
      PROVE  Range(history[d]) \subseteq Range(history'[d])
  <2>1. device[r] \in Devices
    BY <1>3 DEF TalkInv, RecordUser, RecordAssistant, Recorded, Recording
  <2> QED BY <1>2, <1>3, <2>1 DEF RecordUser, RecordAssistant
<1>4. \A d \in Devices : Range(history[d]) \subseteq Range(history'[d])
  BY <1>3, TalkUnchanged DEF talk, SaveUser, SaveAssistant, Save
<1> QED BY <1>1, <1>4 DEF Stored

LEMMA EarlierStep ==
  ASSUME TalkInv, [Next]_vars, NEW d \in Devices, EarlierFirst(history[d])
  PROVE  EarlierFirst(history'[d])
<1>1. ASSUME NEW r \in Requests, NEW role \in {"user", "assistant"}, device[r] \in Devices,
             Record(r, role)
      PROVE  EarlierFirst(history'[d])
  <2>1. CASE d # device[r]
    BY <1>1, <2>1, RecordEffect DEF TalkInv
  <2>2. CASE d = device[r]
    <3> DEFINE h == history[d]
    <3>1. h \in Seq(Turns) /\ <<role, r>> \in Turns /\ history'[d] = Append(h, <<role, r>>)
      BY <1>1, <2>2, RecordEffect DEF TalkInv
    <3>2. r \notin Earlier
      BY RunAssumption
    <3>3. EarlierFirst(h)
      OBVIOUS
    <3> HIDE DEF h
    <3>4. EarlierFirst(Append(h, <<role, r>>))
      BY <3>1, <3>2, <3>3 DEF EarlierFirst
    <3> QED BY <3>1, <3>4
  <2> QED BY <2>1, <2>2
<1>2. ASSUME NEW r \in Requests, RecordUser(r) \/ RecordAssistant(r)
      PROVE  EarlierFirst(history'[d])
  <2>1. device[r] \in Devices
    BY <1>2 DEF TalkInv, RecordUser, RecordAssistant, Recorded, Recording
  <2> QED BY <1>1, <1>2, <2>1 DEF RecordUser, RecordAssistant
<1>3. CASE Crash
  <2> DEFINE h == history[d]
  <2> DEFINE s == disk[d]
  <2>1. h \in Seq(Turns) /\ Past(s, h) /\ history'[d] = s /\ EarlierFirst(h)
    BY <1>3 DEF Crash, TalkInv, TalkType, Durable
  <2> HIDE DEF h, s
  <2>2. PICK n \in 0 .. Len(h) : s = SubSeq(h, 1, n)
    BY <2>1 DEF Past
  <2>3. Len(s) = n /\ \A i \in 1 .. n : i \in 1 .. Len(h) /\ s[i] = h[i]
    BY <2>1, <2>2
  <2>4. EarlierFirst(s)
    BY <2>1, <2>3 DEF EarlierFirst
  <2> QED BY <2>1, <2>4
<1>4. CASE UNCHANGED history
  BY <1>4
<1> QED BY <1>2, <1>3, <1>4, TalkUnchanged DEF talk, SaveUser, SaveAssistant, Save

SeenPre == TalkInv /\ RestType /\ ResponseInv /\ SeenInv

\* What another's step leaves, and a step of r that neither ends in nor adds to
\* what SeenAt speaks of.
LEMMA SeenKept ==
  ASSUME SeenPre, [Next]_vars, ~Crash, NEW r \in Requests,
         prompt'[r] = prompt[r], known'[r] = known[r],
         r \in Answered' => r \in Answered \/ Stored(r),
         pc'[r] \in {"saveAssistant", "reply"} => Stored(r)',
         pc'[r] # "lost" => pc[r] # "lost",
         pc'[r] \in {"claim", "resolve", "prepare"} => pc[r] \in {"claim", "resolve", "prepare"},
         pc'[r] = "new" => pc[r] = "new"
  PROVE  SeenAt(r)'
<1>1. SeenAt(r) /\ r \in Requests /\ known[r] \subseteq Requests
  BY DEF SeenPre, SeenInv, RestType
<1>2. /\ device' = device
      /\ \A q \in Requests : Stored(q) => Stored(q)'
  BY HistoryGrows DEF SeenPre
<1>4. r \in Answered' /\ pc'[r] # "lost" => Stored(r)'
  BY <1>1, <1>2 DEF SeenAt
<1>5. pc'[r] \in {"claim", "resolve", "prepare"} => \A q \in known'[r] : Stored(q)'
  BY <1>1, <1>2 DEF SeenAt
<1>6. pc'[r] = "new" => prompt'[r] = << >>
  BY <1>1 DEF SeenAt
<1>7. \A q \in known'[r] :
        prompt'[r] # << >> /\ device'[q] = device'[r] /\ device'[r] # None => Sees(prompt'[r], q)
  BY <1>1, <1>2 DEF SeenAt
<1> QED BY <1>4, <1>5, <1>6, <1>7 DEF SeenAt, Sees, Exchange

\* With its answer recorded, the exchange of a run is stored.
LEMMA RecordsAnswer ==
  ASSUME TalkInv, NEW r \in Requests, RecordAssistant(r)
  PROVE  Stored(r)'
<1>1. /\ device[r] \in Devices /\ <<"user", r>> \in Range(history[device[r]])
      /\ Record(r, "assistant") /\ device' = device
  BY DEF TalkInv, Recorded, Recording, RecordAssistant, inputs
<1>2. Range(history'[device[r]]) = Range(history[device[r]]) \cup {<<"assistant", r>>}
  BY <1>1, RecordEffect DEF TalkInv
<1> QED BY <1>1, <1>2 DEF Stored, Exchange

\* Only Accept fixes what a request may know, only Prepare its prompt.
LEMMA QuietStep ==
  ASSUME KeyType, RestType, [Next]_vars, ~Crash, NEW r \in Requests, ~Accept(r), ~Prepare(r)
  PROVE  /\ prompt'[r] = prompt[r] /\ known'[r] = known[r]
         /\ \/ pc'[r] = pc[r]
            \/ pc[r] = "new" /\ pc'[r] = "done"
            \/ pc[r] = "claim" /\ pc'[r] \in {"resolve", "duplicate"}
            \/ pc[r] = "resolve" /\ pc'[r] \in {"prepare", "refuse"}
            \/ Done(r) \/ RecordAssistant(r) \/ SaveAssistant(r)
            \/ pc'[r] \in PC \ {"new", "claim", "resolve", "prepare", "saveAssistant", "reply", "lost"}
               /\ pc[r] # "lost"
<1> USE DEF KeyType, RestType, Goto, PC, InFlight
<1>1. ASSUME NEW q \in Requests, Reject(q) \/ Handler(q) \/ Disconnect(q), q # r
      PROVE  prompt'[r] = prompt[r] /\ known'[r] = known[r] /\ pc'[r] = pc[r]
  BY <1>1 DEF Reject, Handler, Disconnect, Accept, Claim, Resolve, NoModel, Refuse, Prepare
<1>2. ASSUME NEW q \in Requests, Stream(q), q # r
      PROVE  prompt'[r] = prompt[r] /\ known'[r] = known[r] /\ pc'[r] = pc[r]
  BY <1>2 DEF Stream, Done, StripPanics, StreamFails, EmitError, RecordUser, SaveUser,
              RecordAssistant, SaveAssistant, Reply, Release
<1>3. CASE Reject(r) \/ Handler(r) \/ Disconnect(r)
  BY <1>3 DEF Reject, Handler, Disconnect, Claim, Resolve, NoModel, Refuse
<1>4. CASE Stream(r)
  <2>1. prompt' = prompt /\ known' = known
    BY <1>4 DEF Stream, Done, StripPanics, StreamFails, EmitError, RecordUser, SaveUser,
                RecordAssistant, SaveAssistant, Reply, Release
  <2>2. CASE StripPanics(r) \/ StreamFails(r) \/ EmitError(r)
    BY <2>1, <2>2 DEF StripPanics, StreamFails, EmitError
  <2>3. CASE RecordUser(r) \/ SaveUser(r) \/ Reply(r) \/ Release(r)
    BY <2>1, <2>3 DEF RecordUser, SaveUser, Reply, Release
  <2> QED BY <1>4, <2>1, <2>2, <2>3 DEF Stream
<1>5. CASE UNCHANGED vars
  BY <1>5 DEF vars
<1> QED BY <1>1, <1>2, <1>3, <1>4, <1>5 DEF Next

\* An answer is what Reply sends.
LEMMA AnsweredStep ==
  ASSUME ResponseInv, [Next]_vars, NEW r \in Requests, r \in Answered', r \notin Answered
  PROVE  Reply(r)
<1>1. ASSUME NEW q \in Requests, NEW status, status # "ok" \/ q # r, Respond(q, status)
      PROVE  r \notin Answered'
  <2>1. \A i \in DOMAIN res[r] : res[r][i] # "ok"
    BY DEF Answered
  <2>2. res'[r] = res[r] \/ (res'[r] = Append(res[r], status) /\ status # "ok")
    BY <1>1 DEF Respond, ResponseInv
  <2>3. res[r] \in Responses
    BY DEF ResponseInv, Response
  <2>4. \A i \in DOMAIN res'[r] : res'[r][i] # "ok"
    BY <2>1, <2>2, <2>3 DEF Responses
  <2> QED BY <2>4 DEF Answered
<1>2. UNCHANGED res => r \notin Answered'
  BY DEF Answered
<1>3. ASSUME NEW q \in Requests, Reject(q) \/ Accept(q) \/ Refuse(q) \/ EmitError(q)
      PROVE  FALSE
  BY <1>1, <1>3 DEF Reject, Accept, Refuse, EmitError
<1>4. ASSUME NEW q \in Requests, Reply(q), q # r PROVE FALSE
  BY <1>1, <1>4 DEF Reply
<1> QED BY <1>2, <1>3, <1>4 DEF Next, Handler, Stream, vars, Claim, Resolve, NoModel, Prepare,
        Done, StripPanics, StreamFails, RecordUser, SaveUser, RecordAssistant, SaveAssistant,
        Release, Disconnect, Crash

LEMMA AcceptSeen == ASSUME SeenPre, [Next]_vars, ~Crash, NEW r \in Requests, Accept(r)
                    PROVE  SeenAt(r)'
<1>1. SeenAt(r) /\ pc[r] = "new" /\ prompt[r] = << >>
  BY DEF SeenPre, SeenInv, SeenAt, Accept
<1>2. /\ pc'[r] \in {"claim", "lost"} /\ prompt'[r] = << >>
      /\ known'[r] = {q \in Answered : pc[q] # "lost"}
  BY <1>1 DEF Accept, Goto, SeenPre, TalkInv, KeyType, RestType
<1>3. r \notin Answered'
  <2>1. r \notin Answered
    BY <1>1 DEF SeenPre, ResponseInv, Response, Answered
  <2>2. ~Reply(r)
    BY <1>1 DEF Reply
  <2> QED BY <2>1, <2>2, AnsweredStep DEF SeenPre
<1>4. \A q \in known'[r] : q \in Requests /\ Stored(q)
  BY <1>2 DEF SeenPre, SeenInv, SeenAt, Answered
<1>5. \A q \in known'[r] : Stored(q)'
  BY <1>4, HistoryGrows DEF SeenPre
<1> QED BY <1>2, <1>3, <1>5 DEF SeenAt

LEMMA PrepareSeen == ASSUME SeenPre, [Next]_vars, ~Crash, NEW r \in Requests, Prepare(r)
                     PROVE  SeenAt(r)'
<1>1. SeenAt(r) /\ pc[r] = "prepare" /\ \A q \in known[r] : q \in Requests /\ Stored(q)
  BY DEF SeenPre, SeenInv, SeenAt, Prepare, RestType
<1>2. /\ pc'[r] = "stream" /\ prompt'[r] = Trimmed(Append(History(r), <<"user", r>>))
      /\ known'[r] = known[r] /\ device' = device
  BY DEF Prepare, Goto, SeenPre, TalkInv, KeyType, RestType, inputs
<1>3. r \notin Answered'
  <2>1. r \notin Answered
    BY <1>1 DEF SeenPre, ResponseInv, Response, Answered, Owing
  <2>2. ~Reply(r)
    BY <1>1 DEF Reply
  <2> QED BY <2>1, <2>2, AnsweredStep DEF SeenPre
<1>4. ASSUME NEW q \in known[r], device[q] = device[r], device[r] # None
      PROVE  Sees(Trimmed(Append(History(r), <<"user", r>>)), q)
  <2>1. device[r] \in Devices /\ History(r) = history[device[r]] /\ History(r) \in Seq(Turns)
    BY <1>4, HistoryType DEF SeenPre, TalkInv
  <2>2. Exchange(q) \subseteq Range(History(r)) /\ q \in Requests
    BY <1>1, <1>4, <2>1 DEF Stored
  <2>3. EarlierFirst(History(r))
    BY <2>1 DEF SeenPre, SeenInv
  <2> QED BY <2>1, <2>2, <2>3, TailSees
<1>5. \A q \in known'[r] :
        prompt'[r] # << >> /\ device'[q] = device'[r] /\ device'[r] # None => Sees(prompt'[r], q)
  BY <1>2, <1>4
<1> QED BY <1>2, <1>3, <1>5 DEF SeenAt, Sees, Exchange

LEMMA SeenStep == SeenPre /\ [Next]_vars => SeenInv'
<1> SUFFICES ASSUME SeenPre, [Next]_vars PROVE SeenInv'
  OBVIOUS
<1>1. \A d \in Devices : EarlierFirst(history'[d])
  BY EarlierStep DEF SeenPre, SeenInv
<1>2. ASSUME NEW r \in Requests, Crash PROVE SeenAt(r)'
  <2>1. SeenAt(r) /\ Response(r)
    BY DEF SeenPre, SeenInv, ResponseInv
  <2>2. /\ pc'[r] = IF pc[r] = "new" THEN "new" ELSE "lost"
        /\ UNCHANGED <<device, res, prompt, known>>
    BY <1>2 DEF Crash, inputs
  <2>3. pc[r] = "new" => r \notin Answered' /\ prompt[r] = << >>
    BY <2>1, <2>2 DEF Response, Answered, SeenAt
  <2>4. \A q \in known'[r] :
          prompt'[r] # << >> /\ device'[q] = device'[r] /\ device'[r] # None => Sees(prompt'[r], q)
    BY <2>1, <2>2 DEF SeenAt
  <2> QED BY <2>2, <2>3, <2>4 DEF SeenAt, Sees, Exchange
<1>3. ASSUME NEW r \in Requests, ~Crash, ~Accept(r), ~Prepare(r) PROVE SeenAt(r)'
  <2>1. SeenAt(r)
    BY DEF SeenPre, SeenInv
  <2>2. /\ prompt'[r] = prompt[r] /\ known'[r] = known[r]
        /\ \/ pc'[r] = pc[r]
           \/ pc[r] = "new" /\ pc'[r] = "done"
           \/ pc[r] = "claim" /\ pc'[r] \in {"resolve", "duplicate"}
           \/ pc[r] = "resolve" /\ pc'[r] \in {"prepare", "refuse"}
           \/ Done(r) \/ RecordAssistant(r) \/ SaveAssistant(r)
           \/ pc'[r] \in PC \ {"new", "claim", "resolve", "prepare", "saveAssistant", "reply", "lost"}
              /\ pc[r] # "lost"
    BY <1>3, QuietStep DEF SeenPre, TalkInv
  <2>3. Stored(r) => Stored(r)'
    BY <1>3, HistoryGrows DEF SeenPre
  <2>4. pc'[r] \in {"saveAssistant", "reply"} => Stored(r)'
    <3>1. CASE Done(r)
      <4>1. pc'[r] = IF device[r] = None THEN "reply" ELSE "user"
        BY <3>1 DEF Done, Goto, SeenPre, TalkInv, KeyType
      <4>2. device'[r] = device[r] /\ None \notin Devices
        BY <3>1, RunAssumption DEF Done, inputs
      <4> QED BY <4>1, <4>2 DEF Stored
    <3>2. CASE RecordAssistant(r)
      BY <3>2, RecordsAnswer DEF SeenPre
    <3>3. CASE SaveAssistant(r)
      BY <2>1, <2>3, <3>3 DEF SaveAssistant, SeenAt
    <3> QED BY <2>1, <2>2, <2>3, <3>1, <3>2, <3>3 DEF SeenAt
  <2>5. /\ pc'[r] # "lost" => pc[r] # "lost"
        /\ pc'[r] \in {"claim", "resolve", "prepare"} => pc[r] \in {"claim", "resolve", "prepare"}
        /\ pc'[r] = "new" => pc[r] = "new"
    <3>1. CASE Done(r) \/ RecordAssistant(r) \/ SaveAssistant(r)
      BY <3>1 DEF Done, RecordAssistant, SaveAssistant, Goto, SeenPre, TalkInv, KeyType
    <3> QED BY <2>2, <3>1
  <2>6. r \in Answered' => r \in Answered \/ Stored(r)
    <3>1. Reply(r) => Stored(r)
      BY <2>1 DEF Reply, SeenAt
    <3> QED BY <3>1, AnsweredStep DEF SeenPre
  <2> QED BY <1>3, <2>2, <2>4, <2>5, <2>6, SeenKept
<1> QED BY <1>1, <1>2, <1>3, AcceptSeen, PrepareSeen DEF SeenInv

\* A client that asks after an answer, with no crash in between, talks to a
\* model that knows it: the exchange is in the prompt, or the budget is full of
\* turns newer than any earlier run's (agent/runner.rs, agent/session.rs).
THEOREM PromptsKnowAnswers == Spec => []PromptSeesAnswered
<1>1. Init => SeenInv
  <2> SUFFICES ASSUME Init PROVE SeenInv
    OBVIOUS
  <2>1. ASSUME NEW d \in Devices PROVE EarlierFirst(history[d])
    <3>1. history[d] \in Loaded
      BY DEF Init
    <3> QED BY <3>1 DEF Loaded, EarlierFirst
  <2>2. ASSUME NEW r \in Requests PROVE SeenAt(r)
    BY <2>2 DEF Init, SeenAt, Answered
  <2> QED BY <2>1, <2>2 DEF SeenInv
<1>2. SeenInv => PromptSeesAnswered
  BY DEF SeenInv, SeenAt, Sees, Exchange, PromptSeesAnswered
<1> QED BY <1>1, <1>2, SeenStep, TalkInductive, RestInductive, ResponseInit, ResponseStep, PTL
        DEF Spec, SeenPre
=============================================================================
