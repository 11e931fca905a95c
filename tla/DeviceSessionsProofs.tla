------------------------ MODULE DeviceSessionsProofs ------------------------
(***************************************************************************)
(* Theorems about DeviceSessions, for every set of devices and connections  *)
(* and every capacity of the channel.                                       *)
(***************************************************************************)
EXTENDS DeviceSessions, TLAPS

\* A handshake about to register was authorised for a device; one about to
\* greet a device has registered it.
Handshakes ==
  \A c \in Conns :
    /\ pc[c] = "register" => claimed[c] \in Devices
    /\ pc[c] = "hello" /\ claimed[c] # None => <<claimed[c], c>> \in registry

\* Where a session of a device that is no longer active can stand while a
\* reload is under way: among those the reload has still to look up or to cut.
BeingCut(p) ==
  \/ reload.phase = "snapshot" /\ p[1] \in reload.cut
  \/ reload.phase = "disconnect" /\ p[2] \in targets

Accounted ==
  \A p \in registry :
    store[p[1]] = "active" \/ shutdown[p[2]] \/ p \in late \/ BeingCut(p)

\* Between the comparison and the swap the tokens to cut are exactly known.
CutIsKnown ==
  reload.phase = "swap" =>
    \A d \in Devices : store[d] = "active" /\ reload.new[d] # "active" => d \in reload.cut

IInv == TypeOK /\ Handshakes /\ SessionIsTracked /\ Accounted /\ CutIsKnown
-----------------------------------------------------------------------------
LEMMA InitEstablishes == Init => IInv
  <1> SUFFICES ASSUME Init PROVE IInv
    OBVIOUS
  <1> USE SessionAssumption DEF Init
  <1>1. TypeOK
    BY DEF TypeOK, StoreType, SessionType, ClientType, ChannelType, PC, Serving, Tokens, Status, Phases, Frames
  <1>2. Handshakes /\ SessionIsTracked /\ Accounted /\ CutIsKnown
    BY DEF Handshakes, SessionIsTracked, Accounted, CutIsKnown, BeingCut
  <1> QED
    BY <1>1, <1>2 DEF IInv
-----------------------------------------------------------------------------
(* Type correctness.                                                       *)

\* The channel stays a sequence of frames whatever is sent or offered.
LEMMA SendType ==
  ASSUME ChannelType, NEW c \in Conns, NEW frame \in Frames
  PROVE  /\ Send(c, frame) => queue' \in [Conns -> Seq(Frames)]
         /\ TrySend(c, frame) => queue' \in [Conns -> Seq(Frames)]
  <1>1. queue \in [Conns -> Seq(Frames)]
    BY DEF ChannelType
  <1>2. Append(queue[c], frame) \in Seq(Frames)
    BY <1>1
  <1>3. [queue EXCEPT ![c] = Append(@, frame)] \in [Conns -> Seq(Frames)]
    BY <1>1, <1>2
  <1> QED
    BY <1>1, <1>3 DEF Send, TrySend

LEMMA EndWriterType ==
  ASSUME ChannelType, NEW c \in Conns, EndWriter(c)
  PROVE  /\ queue' \in [Conns -> Seq(Frames)]
         /\ writer' \in [Conns -> {"running", "ended"}]
  <1>1. queue \in [Conns -> Seq(Frames)] /\ << >> \in Seq(Frames)
    BY DEF ChannelType
  <1> QED
    BY <1>1 DEF ChannelType, EndWriter

\* The device file, the store and the reload.
LEMMA StoreStep == TypeOK /\ [Next]_vars => StoreType'
  <1> SUFFICES ASSUME TypeOK, [Next]_vars PROVE StoreType'
    OBVIOUS
  <1> USE SessionAssumption DEF TypeOK, StoreType, Phases
  <1>1. ASSUME NEW d \in Devices, NEW s \in Status, Edit(d, s) PROVE StoreType'
    BY <1>1 DEF Edit
  <1>2. CASE ReloadRead
    BY <1>2 DEF ReloadRead, Cut, NewlyRevoked, Deleted
  <1>3. CASE ReloadSwap
    BY <1>3 DEF ReloadSwap
  <1>4. CASE ReloadSnapshot
    BY <1>4 DEF ReloadSnapshot, SessionsOf
  <1>5. ASSUME NEW c \in Conns, OfferClose(c) PROVE StoreType'
    BY <1>5 DEF OfferClose
  <1>6. CASE UNCHANGED storeVars
    BY <1>6 DEF storeVars
  <1> QED
    BY <1>1, <1>2, <1>3, <1>4, <1>5, <1>6
    DEF Next, Client, Session, Ticks, Runs, Writer, Reload, vars, Accept, Connect, Register,
        Hello, RefuseConnect, Expel, Request, Reply, SocketEnds, SeeShutdown, Finish,
        WriteFrame, WriterDrained, TickDue, TickSend, RunSend, RunEnds, ClientCloses,
        SignalShutdown

\* The registry and the control state of the connection tasks.
LEMMA SessionStep == TypeOK /\ Handshakes /\ [Next]_vars => SessionType'
  <1> SUFFICES ASSUME TypeOK, Handshakes, [Next]_vars PROVE SessionType'
    OBVIOUS
  <1> USE DEF TypeOK, SessionType, Goto, PC, Serving, Tokens, idVars
  <1>1. ASSUME NEW c \in Conns, NEW t \in Tokens, Connect(c, t) PROVE SessionType'
    <2>1. AfterVerdict[Verdict(c, t)] \in PC
      BY DEF Verdict, AfterVerdict
    <2> QED
      BY <1>1, <2>1 DEF Connect
  <1>2. ASSUME NEW c \in Conns, Register(c) PROVE SessionType'
    <2>1. <<claimed[c], c>> \in Devices \X Conns
      BY <1>2 DEF Register, Handshakes
    <2> QED
      BY <1>2, <2>1 DEF Register, Enroll
  <1>3. ASSUME NEW c \in Conns, Hello(c) PROVE SessionType'
    BY <1>3 DEF Hello
  <1>4. ASSUME NEW c \in Conns, RefuseConnect(c) PROVE SessionType'
    BY <1>4 DEF RefuseConnect
  <1>5. ASSUME NEW c \in Conns, Expel(c) \/ Accept(c) PROVE SessionType'
    BY <1>5 DEF Expel, Accept
  <1>6. ASSUME NEW c \in Conns, Request(c) \/ Reply(c) PROVE SessionType'
    BY <1>6 DEF Request, Reply
  <1>7. ASSUME NEW c \in Conns, SocketEnds(c) \/ SeeShutdown(c) PROVE SessionType'
    BY <1>7 DEF SocketEnds, SeeShutdown
  <1>8. ASSUME NEW c \in Conns, Finish(c) PROVE SessionType'
    BY <1>8 DEF Finish, Withdraw
  <1>9. ASSUME NEW c \in Conns, SignalShutdown(c) PROVE SessionType'
    BY <1>9 DEF SignalShutdown
  <1>10. CASE ReloadSwap
    BY <1>10 DEF ReloadSwap
  <1>11. CASE UNCHANGED <<registry, pc, idVars, shutdown, late>>
    BY <1>11
  <1> QED
    BY <1>1, <1>2, <1>3, <1>4, <1>5, <1>6, <1>7, <1>8, <1>9, <1>10, <1>11
    DEF Next, Client, Session, Ticks, Runs, Writer, Reload, vars, WriteFrame, WriterDrained,
        TickDue, TickSend, RunSend, RunEnds, ClientCloses, Edit, ReloadRead, ReloadSnapshot,
        OfferClose

\* What clients have done.
LEMMA ClientStep == TypeOK /\ [Next]_vars => ClientType'
  <1> SUFFICES ASSUME TypeOK, [Next]_vars PROVE ClientType'
    OBVIOUS
  <1> USE DEF TypeOK, ClientType, sentVars
  <1>1. ASSUME NEW c \in Conns, NEW t \in Tokens, Connect(c, t) PROVE ClientType'
    BY <1>1 DEF Connect
  <1>2. ASSUME NEW c \in Conns, Request(c) PROVE ClientType'
    BY <1>2 DEF Request
  <1>3. ASSUME NEW c \in Conns, ClientCloses(c) PROVE ClientType'
    BY <1>3 DEF ClientCloses
  <1>4. CASE UNCHANGED clientVars
    BY <1>4 DEF clientVars
  <1> QED
    BY <1>1, <1>2, <1>3, <1>4
    DEF Next, Client, Session, Ticks, Runs, Writer, Reload, vars, Accept, Register, Hello,
        RefuseConnect, Expel, Reply, SocketEnds, SeeShutdown, Finish, WriteFrame,
        WriterDrained, TickDue, TickSend, RunSend, RunEnds, Edit, ReloadRead, ReloadSwap,
        ReloadSnapshot, SignalShutdown, OfferClose

\* The channels and the tasks that hold a sender.
LEMMA ChannelStep == TypeOK /\ [Next]_vars => ChannelType'
  <1> SUFFICES ASSUME TypeOK, [Next]_vars PROVE ChannelType'
    OBVIOUS
  <1>a. "frame" \in Frames /\ "close" \in Frames
    BY DEF Frames
  <1> USE DEF TypeOK
  <1>1. ASSUME NEW c \in Conns, Accept(c) \/ RefuseConnect(c) \/ Expel(c) PROVE ChannelType'
    <2>1. queue' \in [Conns -> Seq(Frames)]
      BY <1>a, <1>1, SendType DEF Accept, RefuseConnect, Expel
    <2> QED
      BY <1>1, <2>1 DEF ChannelType, Accept, RefuseConnect, Expel, ticks
  <1>2. ASSUME NEW c \in Conns, Hello(c) PROVE ChannelType'
    <2>1. queue' \in [Conns -> Seq(Frames)]
      BY <1>a, <1>2, SendType DEF Hello
    <2>2. idle' \in [Conns -> Nat]
      BY <1>2 DEF ChannelType, Hello
    <2> QED
      BY <1>2, <2>1, <2>2 DEF ChannelType, Hello
  <1>3. ASSUME NEW c \in Conns, Reply(c) PROVE ChannelType'
    <2>1. queue' \in [Conns -> Seq(Frames)]
      BY <1>a, <1>3, SendType DEF Reply
    <2>2. runs' \in [Conns -> Nat]
      <3>1. CASE UNCHANGED runs
        BY <3>1 DEF ChannelType
      <3>2. CASE runs' = [runs EXCEPT ![c] = @ + 1]
        BY <3>2 DEF ChannelType
      <3> QED
        BY <1>3, <3>1, <3>2 DEF Reply
    <2> QED
      BY <1>3, <2>1, <2>2 DEF ChannelType, Reply, ticks
  <1>4. ASSUME NEW c \in Conns, TickDue(c) PROVE ChannelType'
    <2>1. idle' \in [Conns -> Nat] /\ due' \in [Conns -> Nat]
      BY <1>4 DEF ChannelType, TickDue
    <2> QED
      BY <1>4, <2>1 DEF ChannelType, TickDue
  <1>5. ASSUME NEW c \in Conns, TickSend(c) PROVE ChannelType'
    <2>1. queue' \in [Conns -> Seq(Frames)]
      BY <1>a, <1>5, SendType DEF TickSend
    <2>2. idle' \in [Conns -> Nat] /\ due' \in [Conns -> Nat]
      BY <1>5 DEF ChannelType, TickSend
    <2> QED
      BY <1>5, <2>1, <2>2 DEF ChannelType, TickSend
  <1>6. ASSUME NEW c \in Conns, RunSend(c) PROVE ChannelType'
    <2>1. queue' \in [Conns -> Seq(Frames)]
      BY <1>a, <1>6, SendType DEF RunSend
    <2> QED
      BY <1>6, <2>1 DEF ChannelType, RunSend, ticks
  <1>7. ASSUME NEW c \in Conns, RunEnds(c) PROVE ChannelType'
    <2>1. runs' \in [Conns -> Nat]
      BY <1>7 DEF ChannelType, RunEnds
    <2> QED
      BY <1>7, <2>1 DEF ChannelType, RunEnds, ticks
  <1>8. ASSUME NEW c \in Conns, WriteFrame(c) \/ WriterDrained(c) PROVE ChannelType'
    <2>1. CASE EndWriter(c)
      BY <1>8, <2>1, EndWriterType DEF ChannelType, WriteFrame, WriterDrained, ticks
    <2>2. CASE queue[c] # << >> /\ queue' = [queue EXCEPT ![c] = Tail(@)] /\ UNCHANGED writer
      <3>1. queue \in [Conns -> Seq(Frames)]
        BY DEF ChannelType
      <3>2. Tail(queue[c]) \in Seq(Frames)
        BY <2>2, <3>1
      <3>3. queue' \in [Conns -> Seq(Frames)]
        BY <2>2, <3>1, <3>2
      <3> QED
        BY <1>8, <2>2, <3>3 DEF ChannelType, WriteFrame, WriterDrained, ticks
    <2> QED
      BY <1>8, <2>1, <2>2 DEF WriteFrame, WriterDrained
  <1>9. ASSUME NEW c \in Conns, OfferClose(c) PROVE ChannelType'
    <2>1. queue' \in [Conns -> Seq(Frames)]
      BY <1>a, <1>9, SendType DEF OfferClose
    <2> QED
      BY <1>9, <2>1 DEF ChannelType, OfferClose, ticks
  <1>10. CASE UNCHANGED chanVars
    BY <1>10 DEF ChannelType, chanVars, ticks
  <1> QED
    BY <1>1, <1>2, <1>3, <1>4, <1>5, <1>6, <1>7, <1>8, <1>9, <1>10
    DEF Next, Client, Session, Ticks, Runs, Writer, Reload, vars, Connect, Register, Request,
        SocketEnds, SeeShutdown, Finish, ClientCloses, Edit, ReloadRead, ReloadSwap,
        ReloadSnapshot, SignalShutdown

LEMMA TypeStep == TypeOK /\ Handshakes /\ [Next]_vars => TypeOK'
  BY StoreStep, SessionStep, ClientStep, ChannelStep DEF TypeOK
-----------------------------------------------------------------------------
(* The registry follows the connection tasks.                              *)

\* Only Register adds to the registry and only Finish removes from it, and
\* what Finish removes is its own entry.
LEMMA RegistryStep ==
  ASSUME TypeOK, [Next]_vars
  PROVE  \/ registry' = registry
         \/ \E c \in Conns : Register(c)
         \/ \E c \in Conns : Finish(c)
  BY DEF Next, Client, Session, Ticks, Runs, Writer, Reload, vars, Accept, Connect, Hello,
         RefuseConnect, Expel, Request, Reply, SocketEnds, SeeShutdown, WriteFrame,
         WriterDrained, TickDue, TickSend, RunSend, RunEnds, ClientCloses, Edit, ReloadRead,
         ReloadSwap, ReloadSnapshot, SignalShutdown, OfferClose

LEMMA TrackedStep ==
  TypeOK /\ Handshakes /\ SessionIsTracked /\ [Next]_vars => Handshakes' /\ SessionIsTracked'
  <1> SUFFICES ASSUME TypeOK, Handshakes, SessionIsTracked, [Next]_vars
               PROVE  Handshakes' /\ SessionIsTracked'
    OBVIOUS
  <1> USE DEF TypeOK, SessionType, Handshakes, SessionIsTracked, Goto, PC, Serving, Tokens
  <1>1. ASSUME NEW c \in Conns, NEW t \in Tokens, Connect(c, t)
        PROVE  Handshakes' /\ SessionIsTracked'
    <2>1. pc'[c] = "register" => claimed'[c] \in Devices
      BY <1>1 DEF Connect, Verdict, AfterVerdict
    <2>2. pc'[c] = "hello" => claimed'[c] = None
      BY <1>1 DEF Connect, Verdict, AfterVerdict
    <2>3. pc'[c] # "gone"
      BY <1>1 DEF Connect, Verdict, AfterVerdict
    <2> QED
      BY <1>1, <2>1, <2>2, <2>3 DEF Connect
  <1>2. ASSUME NEW c \in Conns, Register(c) PROVE Handshakes' /\ SessionIsTracked'
    BY <1>2 DEF Register, Enroll, idVars
  <1>3. ASSUME NEW c \in Conns, Hello(c) PROVE Handshakes' /\ SessionIsTracked'
    BY <1>3 DEF Hello
  <1>4. ASSUME NEW c \in Conns, RefuseConnect(c) \/ Expel(c) PROVE Handshakes' /\ SessionIsTracked'
    BY <1>4 DEF RefuseConnect, Expel, idVars
  <1>5. ASSUME NEW c \in Conns, Accept(c) PROVE Handshakes' /\ SessionIsTracked'
    BY <1>5 DEF Accept, idVars
  <1>6. ASSUME NEW c \in Conns, Request(c) \/ Reply(c) PROVE Handshakes' /\ SessionIsTracked'
    BY <1>6 DEF Request, Reply, idVars
  <1>7. ASSUME NEW c \in Conns, SocketEnds(c) \/ SeeShutdown(c) PROVE Handshakes' /\ SessionIsTracked'
    BY <1>7 DEF SocketEnds, SeeShutdown, idVars
  <1>8. ASSUME NEW c \in Conns, Finish(c) PROVE Handshakes' /\ SessionIsTracked'
    BY <1>8 DEF Finish, Withdraw, idVars
  <1>9. CASE UNCHANGED <<registry, pc, claimed, auth, connected>>
    BY <1>9
  <1> QED
    BY <1>1, <1>2, <1>3, <1>4, <1>5, <1>6, <1>7, <1>8, <1>9
    DEF Next, Client, Session, Ticks, Runs, Writer, Reload, vars, idVars, WriteFrame,
        WriterDrained, TickDue, TickSend, RunSend, RunEnds, ClientCloses, Edit, ReloadRead,
        ReloadSwap, ReloadSnapshot, SignalShutdown, OfferClose
-----------------------------------------------------------------------------
(* The reload accounts for every session of a device it cuts.              *)

LEMMA CutStep == TypeOK /\ CutIsKnown /\ [Next]_vars => CutIsKnown'
  <1> SUFFICES ASSUME TypeOK, CutIsKnown, [Next]_vars PROVE CutIsKnown'
    OBVIOUS
  <1> USE DEF TypeOK, StoreType, CutIsKnown
  <1>1. CASE ReloadRead
    <2>1. SUFFICES ASSUME NEW d \in Devices, store[d] = "active", disk[d] # "active"
                   PROVE  d \in Cut(disk)
      BY <1>1 DEF ReloadRead
    <2>2. disk[d] \in {"absent", "revoked"}
      BY <2>1 DEF Status
    <2> QED
      BY <2>1, <2>2 DEF Cut, NewlyRevoked, Deleted
  <1>2. CASE ReloadSwap
    BY <1>2 DEF ReloadSwap
  <1>3. CASE ReloadSnapshot
    BY <1>3 DEF ReloadSnapshot
  <1>4. ASSUME NEW c \in Conns, OfferClose(c) PROVE CutIsKnown'
    BY <1>4 DEF OfferClose
  <1>5. CASE UNCHANGED <<store, reload>>
    BY <1>5
  <1> QED
    BY <1>1, <1>2, <1>3, <1>4, <1>5
    DEF Next, Client, Session, Ticks, Runs, Writer, Reload, vars, storeVars, Accept, Connect,
        Register, Hello, RefuseConnect, Expel, Request, Reply, SocketEnds, SeeShutdown, Finish,
        WriteFrame, WriterDrained, TickDue, TickSend, RunSend, RunEnds, ClientCloses, Edit,
        SignalShutdown

LEMMA AccountedStep == TypeOK /\ Accounted /\ CutIsKnown /\ [Next]_vars => Accounted'
  <1> SUFFICES ASSUME TypeOK, Accounted, CutIsKnown, [Next]_vars,
                      NEW p \in registry'
               PROVE  \/ store'[p[1]] = "active" \/ shutdown'[p[2]] \/ p \in late'
                      \/ BeingCut(p)'
    BY DEF Accounted
  <1> USE DEF TypeOK, StoreType, SessionType
  <1>1. ASSUME NEW c \in Conns, Register(c)
        PROVE  \/ store'[p[1]] = "active" \/ shutdown'[p[2]] \/ p \in late' \/ BeingCut(p)'
    <2>1. CASE p \in registry
      BY <1>1, <2>1 DEF Register, Accounted, BeingCut, storeVars
    <2>2. CASE p = <<claimed[c], c>>
      BY <1>1, <2>2 DEF Register, storeVars
    <2> QED
      BY <1>1, <2>1, <2>2 DEF Register, Enroll
  <1>2. CASE UNCHANGED <<store, reload, targets, shutdown, late>> /\ p \in registry
    BY <1>2 DEF Accounted, BeingCut
  <1>3. ASSUME p \in registry, ReloadRead
        PROVE  \/ store'[p[1]] = "active" \/ shutdown'[p[2]] \/ p \in late' \/ BeingCut(p)'
    BY <1>3 DEF ReloadRead, Accounted, BeingCut
  <1>4. ASSUME p \in registry, ReloadSwap
        PROVE  \/ store'[p[1]] = "active" \/ shutdown'[p[2]] \/ p \in late' \/ BeingCut(p)'
    <2>1. p[1] \in Devices /\ ~BeingCut(p)
      BY <1>4 DEF ReloadSwap, BeingCut
    <2>2. CASE reload.new[p[1]] = "active"
      BY <1>4, <2>2 DEF ReloadSwap
    <2>3. CASE reload.new[p[1]] # "active" /\ store[p[1]] # "active"
      <3>1. shutdown[p[2]] \/ p \in late
        BY <1>4, <2>1, <2>3 DEF Accounted
      <3> QED
        BY <1>4, <2>3, <3>1 DEF ReloadSwap
    <2>4. CASE reload.new[p[1]] # "active" /\ store[p[1]] = "active"
      <3>1. p[1] \in reload.cut
        BY <1>4, <2>1, <2>4 DEF ReloadSwap, CutIsKnown
      <3>2. reload'.phase = "snapshot" /\ reload'.cut = reload.cut
        BY <1>4, <3>1 DEF ReloadSwap
      <3> QED
        BY <3>1, <3>2 DEF BeingCut
    <2> QED
      BY <2>2, <2>3, <2>4
  <1>5. ASSUME p \in registry, ReloadSnapshot
        PROVE  \/ store'[p[1]] = "active" \/ shutdown'[p[2]] \/ p \in late' \/ BeingCut(p)'
    <2>1. store' = store /\ shutdown' = shutdown /\ late' = late
      BY <1>5 DEF ReloadSnapshot
    <2>2. CASE p[1] \in reload.cut
      <3>a. p = <<p[1], p[2]>> /\ p[2] \in Conns
        BY <1>5
      <3>1. p[2] \in SessionsOf(reload.cut)
        BY <1>5, <2>2, <3>a DEF SessionsOf
      <3>2. reload'.phase = "disconnect" /\ targets' = SessionsOf(reload.cut)
        BY <1>5, <3>1 DEF ReloadSnapshot
      <3> QED
        BY <3>1, <3>2 DEF BeingCut
    <2>3. CASE p[1] \notin reload.cut
      <3>1. ~BeingCut(p)
        BY <1>5, <2>3 DEF ReloadSnapshot, BeingCut
      <3> QED
        BY <1>5, <2>1, <3>1 DEF Accounted
    <2> QED
      BY <2>2, <2>3
  <1>6. ASSUME p \in registry, NEW c \in Conns, SignalShutdown(c)
        PROVE  \/ store'[p[1]] = "active" \/ shutdown'[p[2]] \/ p \in late' \/ BeingCut(p)'
    BY <1>6 DEF SignalShutdown, Accounted, BeingCut, storeVars
  <1>7. ASSUME p \in registry, NEW c \in Conns, OfferClose(c)
        PROVE  \/ store'[p[1]] = "active" \/ shutdown'[p[2]] \/ p \in late' \/ BeingCut(p)'
    BY <1>7 DEF OfferClose, Accounted, BeingCut
  <1>8. \/ \E c \in Conns : Register(c)
        \/ p \in registry
    BY RegistryStep DEF Finish, Withdraw
  <1> QED
    BY <1>1, <1>2, <1>3, <1>4, <1>5, <1>6, <1>7, <1>8
    DEF Next, Client, Session, Ticks, Runs, Writer, Reload, vars, storeVars, Accept, Connect,
        Hello, RefuseConnect, Expel, Request, Reply, SocketEnds, SeeShutdown, Finish,
        WriteFrame, WriterDrained, TickDue, TickSend, RunSend, RunEnds, ClientCloses, Edit
-----------------------------------------------------------------------------
(* The theorems.                                                           *)

LEMMA Inductive == Spec => []IInv
  <1>1. IInv /\ [Next]_vars => IInv'
    BY TypeStep, TrackedStep, AccountedStep, CutStep DEF IInv
  <1> QED
    BY InitEstablishes, <1>1, PTL DEF Spec

\* Every variable keeps its type, in particular the registry holds device
\* tokens only: no loopback session is ever listed.
THEOREM TypeCorrect == Spec => []TypeOK
  <1>1. IInv => TypeOK
    BY DEF IInv
  <1> QED
    BY Inductive, <1>1, PTL

\* A connected session of a device stays in the registry until its cleanup,
\* whatever other sessions and reloads do: a revocation can always find it.
THEOREM SessionsAreTracked == Spec => []SessionIsTracked
  <1>1. IInv => SessionIsTracked
    BY DEF IInv
  <1> QED
    BY Inductive, <1>1, PTL

\* A finished reload has told every session of an inactive device to end, but
\* those registered after the revocation: the handshake is the only hole.
THEOREM HandshakeIsTheOnlyHole == Spec => []OnlyLateSessionsEscape
  <1>1. IInv => OnlyLateSessionsEscape
    BY DEF IInv, Accounted, BeingCut, OnlyLateSessionsEscape
  <1> QED
    BY Inductive, <1>1, PTL
-----------------------------------------------------------------------------
(* The end of a connection, and the connections a reload ends.             *)

\* A connection that is over does nothing more.
LEMMA GoneStep == TypeOK /\ GoneIsUnlisted /\ [Next]_vars => GoneIsUnlisted'
  <1> SUFFICES ASSUME TypeOK, GoneIsUnlisted, [Next]_vars PROVE GoneIsUnlisted'
    OBVIOUS
  <1> USE DEF TypeOK, SessionType, GoneIsUnlisted, Goto, PC, Serving, Tokens
  <1>1. ASSUME NEW c \in Conns, NEW t \in Tokens, Connect(c, t) PROVE GoneIsUnlisted'
    <2>1. pc'[c] # "gone"
      BY <1>1 DEF Connect, Verdict, AfterVerdict
    <2> QED
      BY <1>1, <2>1 DEF Connect
  <1>2. ASSUME NEW c \in Conns, Register(c) PROVE GoneIsUnlisted'
    BY <1>2 DEF Register, Enroll, idVars
  <1>3. ASSUME NEW c \in Conns, Hello(c) PROVE GoneIsUnlisted'
    BY <1>3 DEF Hello
  <1>4. ASSUME NEW c \in Conns, RefuseConnect(c) \/ Expel(c) PROVE GoneIsUnlisted'
    BY <1>4 DEF RefuseConnect, Expel, idVars
  <1>5. ASSUME NEW c \in Conns, Accept(c) PROVE GoneIsUnlisted'
    BY <1>5 DEF Accept, idVars
  <1>6. ASSUME NEW c \in Conns, Request(c) \/ Reply(c) PROVE GoneIsUnlisted'
    BY <1>6 DEF Request, Reply, idVars
  <1>7. ASSUME NEW c \in Conns, SocketEnds(c) \/ SeeShutdown(c) PROVE GoneIsUnlisted'
    BY <1>7 DEF SocketEnds, SeeShutdown, idVars
  <1>8. ASSUME NEW c \in Conns, Finish(c) PROVE GoneIsUnlisted'
    BY <1>8 DEF Finish, Withdraw, idVars
  <1>9. CASE UNCHANGED <<registry, pc, auth>>
    BY <1>9
  <1> QED
    BY <1>1, <1>2, <1>3, <1>4, <1>5, <1>6, <1>7, <1>8, <1>9
    DEF Next, Client, Session, Ticks, Runs, Writer, Reload, vars, idVars, WriteFrame,
        WriterDrained, TickDue, TickSend, RunSend, RunEnds, ClientCloses, Edit, ReloadRead,
        ReloadSwap, ReloadSnapshot, SignalShutdown, OfferClose

\* A connection that is over is not listed under its last identity, though
\* others of the device come and go.
THEOREM GoneAreUnlisted == Spec => []GoneIsUnlisted
  <1>1. Init => GoneIsUnlisted
    BY DEF Init, GoneIsUnlisted
  <1>2. IInv => TypeOK
    BY DEF IInv
  <1> QED
    BY Inductive, GoneStep, <1>1, <1>2, PTL DEF Spec

\* A reload in progress cuts tokens that its file does not have as active.
CutIsInactive ==
  /\ reload.phase = "swap" => \A t \in reload.cut : reload.new[t] # "active"
  /\ reload.phase \in {"snapshot", "disconnect"} => \A t \in reload.cut : store[t] # "active"

Marked(c) ==
  \E t \in reload.cut : <<t, c>> \in registry \/ (pc[c] = "gone" /\ auth[c] = t)

\* Its targets are, or were to their end, sessions of such tokens.
TargetInv ==
  /\ CutIsInactive
  /\ reload.phase # "disconnect" => targets = {}
  /\ \A c \in targets : Marked(c)

LEMMA CutStaysInactive == TypeOK /\ CutIsInactive /\ [Next]_vars => CutIsInactive'
  <1> SUFFICES ASSUME TypeOK, CutIsInactive, [Next]_vars PROVE CutIsInactive'
    OBVIOUS
  <1> USE DEF TypeOK, StoreType, CutIsInactive
  <1>1. CASE ReloadRead
    BY <1>1 DEF ReloadRead, Cut, NewlyRevoked, Deleted
  <1>2. CASE ReloadSwap
    BY <1>2 DEF ReloadSwap
  <1>3. CASE ReloadSnapshot
    BY <1>3 DEF ReloadSnapshot
  <1>4. ASSUME NEW c \in Conns, OfferClose(c) PROVE CutIsInactive'
    BY <1>4 DEF OfferClose
  <1>5. CASE UNCHANGED <<store, reload>>
    BY <1>5
  <1> QED
    BY <1>1, <1>2, <1>3, <1>4, <1>5
    DEF Next, Client, Session, Ticks, Runs, Writer, Reload, vars, storeVars, Accept, Connect,
        Register, Hello, RefuseConnect, Expel, Request, Reply, SocketEnds, SeeShutdown, Finish,
        WriteFrame, WriterDrained, TickDue, TickSend, RunSend, RunEnds, ClientCloses, Edit,
        SignalShutdown

\* Whatever a connection does, it stays listed or has ended under its identity.
LEMMA MarkStays ==
  ASSUME TypeOK, [Next]_vars, reload'.cut = reload.cut, NEW c \in Conns, Marked(c)
  PROVE  Marked(c)'
  <1>1. PICK t \in reload.cut : <<t, c>> \in registry \/ (pc[c] = "gone" /\ auth[c] = t)
    BY DEF Marked
  <1>2. \/ <<t, c>> \in registry'
        \/ pc'[c] = "gone" /\ auth'[c] = t
        \/ pc[c] = "gone" /\ auth[c] = t
    <2>1. CASE <<t, c>> \in registry /\ registry' = registry
      BY <2>1
    <2>2. ASSUME <<t, c>> \in registry, NEW d \in Conns, Register(d) PROVE <<t, c>> \in registry'
      BY <2>2 DEF Register, Enroll
    <2>3. ASSUME <<t, c>> \in registry, NEW d \in Conns, Finish(d)
          PROVE  <<t, c>> \in registry' \/ (pc'[c] = "gone" /\ auth'[c] = t)
      <3>1. CASE <<t, c>> = <<auth[d], d>>
        BY <2>3, <3>1 DEF Finish, Goto, idVars, TypeOK, SessionType
      <3>2. CASE <<t, c>> # <<auth[d], d>>
        BY <2>3, <3>2 DEF Finish, Withdraw
      <3> QED
        BY <3>1, <3>2
    <2> QED
      BY <1>1, <2>1, <2>2, <2>3, RegistryStep
  <1>3. ASSUME pc[c] = "gone" PROVE pc'[c] = "gone" /\ auth'[c] = auth[c]
    BY <1>3
    DEF TypeOK, SessionType, Goto, Serving, idVars, Next, Client, Session, Ticks, Runs, Writer,
        Reload, vars, Accept, Connect, Register, Hello, RefuseConnect, Expel, Request, Reply,
        SocketEnds, SeeShutdown, Finish, WriteFrame, WriterDrained, TickDue, TickSend, RunSend,
        RunEnds, ClientCloses, Edit, ReloadRead, ReloadSwap, ReloadSnapshot, SignalShutdown,
        OfferClose
  <1> QED
    BY <1>1, <1>2, <1>3 DEF Marked

LEMMA TargetStep == TypeOK /\ TargetInv /\ [Next]_vars => TargetInv'
  <1> SUFFICES ASSUME TypeOK, TargetInv, [Next]_vars PROVE TargetInv'
    OBVIOUS
  <1>1. CutIsInactive'
    BY CutStaysInactive DEF TargetInv
  <1> SUFFICES /\ reload'.phase # "disconnect" => targets' = {}
               /\ \A c \in targets' : Marked(c)'
    BY <1>1 DEF TargetInv
  <1> USE DEF TypeOK, StoreType
  <1>2. CASE ReloadRead \/ ReloadSwap
    BY <1>2 DEF ReloadRead, ReloadSwap, TargetInv
  <1>3. CASE ReloadSnapshot
    BY <1>3 DEF ReloadSnapshot, SessionsOf, Marked
  <1>4. ASSUME NEW c \in Conns, OfferClose(c)
        PROVE  /\ reload'.phase # "disconnect" => targets' = {}
               /\ \A d \in targets' : Marked(d)'
    <2>1. reload'.cut = reload.cut /\ targets' \subseteq targets
      BY <1>4 DEF OfferClose
    <2>2. reload'.phase # "disconnect" => targets' = {}
      BY <1>4 DEF OfferClose
    <2> QED
      BY <2>1, <2>2, MarkStays DEF TargetInv
  <1>5. CASE UNCHANGED <<reload, targets>>
    BY <1>5, MarkStays DEF TargetInv
  <1> QED
    BY <1>2, <1>3, <1>4, <1>5
    DEF Next, Client, Session, Ticks, Runs, Writer, Reload, vars, storeVars, Accept, Connect,
        Register, Hello, RefuseConnect, Expel, Request, Reply, SocketEnds, SeeShutdown, Finish,
        WriteFrame, WriterDrained, TickDue, TickSend, RunSend, RunEnds, ClientCloses, Edit,
        SignalShutdown

\* A reload tells only sessions of devices to end that the new store does not
\* have as active (reload_devices, disconnect_revoked_devices).
THEOREM ReloadsCutTheRevoked == Spec => OnlyRevokedAreCut
  <1> DEFINE Revoked ==
        \A c \in Conns :
          ~shutdown[c] /\ shutdown'[c] =>
            \E t \in reload.cut : store[t] # "active" /\ (auth[c] = t \/ claimed[c] = t \/ <<t, c>> \in registry)
  <1>1. Init => TargetInv
    BY DEF Init, TargetInv, CutIsInactive
  <1>2. IInv => TypeOK
    BY DEF IInv
  <1>3. TypeOK /\ TargetInv /\ [Next]_vars => [Revoked]_vars
    <2> SUFFICES ASSUME TypeOK, TargetInv, [Next]_vars, NEW c \in Conns,
                        ~shutdown[c] /\ shutdown'[c]
                 PROVE  \E t \in reload.cut :
                          store[t] # "active" /\ (auth[c] = t \/ claimed[c] = t \/ <<t, c>> \in registry)
      OBVIOUS
    <2>1. SignalShutdown(c)
      <3>1. shutdown' # shutdown
        OBVIOUS
      <3>2. PICK d \in Conns : SignalShutdown(d)
        BY <3>1
        DEF Next, Client, Session, Ticks, Runs, Writer, Reload, vars, storeVars, Accept, Connect,
            Register, Hello, RefuseConnect, Expel, Request, Reply, SocketEnds, SeeShutdown,
            Finish, WriteFrame, WriterDrained, TickDue, TickSend, RunSend, RunEnds,
            ClientCloses, Edit, ReloadRead, ReloadSwap, ReloadSnapshot, OfferClose
      <3> QED
        BY <3>2 DEF SignalShutdown, TypeOK, SessionType
    <2>2. Marked(c) /\ CutIsInactive /\ reload.phase = "disconnect"
      BY <2>1 DEF SignalShutdown, TargetInv
    <2> QED
      BY <2>2 DEF Marked, CutIsInactive
  <1> QED
    BY Inductive, TargetStep, <1>1, <1>2, <1>3, PTL DEF Spec, OnlyRevokedAreCut
=============================================================================
