--------------------------- MODULE DeviceSessions ---------------------------
(***************************************************************************)
(* The WebSocket sessions of the gateway and the revocation of devices:     *)
(* one task per connection (connection/handler.rs), the writer and tick     *)
(* tasks it spawns, the authorisation of a connect request                  *)
(* (connection/auth.rs), the registry of active connections and the reload  *)
(* of the device store that disconnects revoked devices (state.rs).         *)
(*                                                                         *)
(* A device stands for its token: the program mints one per device and      *)
(* never changes it.  Every outgoing frame but the close frame is "frame".  *)
(***************************************************************************)
EXTENDS Naturals, Sequences, FiniteSets

CONSTANTS Devices,      \* devices that may appear in devices.yaml
          Conns,        \* WebSocket connections
          None,         \* no token: the identity of a loopback session
          Capacity,     \* STREAM_CHANNEL_CAPACITY
          MaxConnects,  \* bound: connect requests a client sends per connection
          MaxRequests,  \* bound: other requests a client sends per connection
          MaxRuns,      \* bound: agent runs in flight per connection
          MaxEdits      \* bound: edits of devices.yaml

ASSUME SessionAssumption ==
  /\ None \notin Devices
  /\ Capacity \in Nat \ {0}
  /\ {MaxConnects, MaxRequests, MaxRuns, MaxEdits} \subseteq Nat

VARIABLES
  disk,       \* devices.yaml
  edits,      \* edits made so far
  store,      \* GatewayState.device_store
  reload,     \* reload_devices in progress: phase, file read, tokens to cut
  targets,    \* connections disconnect_revoked_devices has yet to close
  registry,   \* GatewayState.active_connections, as <<token, connection>>
  pc,         \* control state of handle_socket
  local,      \* is_local
  claimed,    \* token of the connect request being handled
  auth,       \* authenticated_token
  connected,  \* connected
  shutdown,   \* the flag (and the notify permit) that ends the receive loop
  peer,       \* the client's end of the socket
  queue,      \* frames in the mpsc channel to the writer
  writer,     \* the send task: running or ended (the channel is then closed)
  idle,       \* tick tasks asleep until the next interval
  due,        \* tick tasks about to send their event
  runs,       \* agent runs in flight that hold a clone of tx
  connects,   \* connect requests the client has sent
  requests,   \* other requests the client has sent
  late        \* history: <<token, connection>> registered for a device that
              \* was no longer active

storeVars == <<disk, edits, store, reload, targets>>
sentVars == <<connects, requests>>
clientVars == <<peer, sentVars>>
ticks == <<idle, due>>
chanVars == <<queue, writer, ticks, runs>>
idVars == <<claimed, auth, connected, local>>
vars == <<storeVars, registry, pc, idVars, shutdown, clientVars, chanVars, late>>
-----------------------------------------------------------------------------
Status == {"absent", "active", "revoked"}
Phases == {"idle", "swap", "snapshot", "disconnect"}

\* Control states in which handle_socket still owns its sender `tx`.
Serving == {"loop", "register", "hello", "reply", "refuse", "reject", "expel"}
PC == {"new", "cleanup", "gone"} \cup Serving
Frames == {"frame", "close"}
Tokens == Devices \cup {None}

StoreType ==
  /\ disk \in [Devices -> Status] /\ store \in [Devices -> Status]
  /\ edits \in 0 .. MaxEdits
  /\ reload \in [phase : Phases, new : [Devices -> Status], cut : SUBSET Devices]
  /\ targets \subseteq Conns

SessionType ==
  /\ registry \subseteq Devices \X Conns /\ late \subseteq Devices \X Conns
  /\ pc \in [Conns -> PC]
  /\ local \in [Conns -> BOOLEAN] /\ connected \in [Conns -> BOOLEAN]
  /\ claimed \in [Conns -> Tokens] /\ auth \in [Conns -> Tokens]
  /\ shutdown \in [Conns -> BOOLEAN]

ClientType ==
  /\ peer \in [Conns -> {"open", "closed"}]
  /\ connects \in [Conns -> Nat] /\ requests \in [Conns -> Nat]

ChannelType ==
  /\ queue \in [Conns -> Seq(Frames)]
  /\ writer \in [Conns -> {"running", "ended"}]
  /\ idle \in [Conns -> Nat] /\ due \in [Conns -> Nat]
  /\ runs \in [Conns -> Nat]

TypeOK == StoreType /\ SessionType /\ ClientType /\ ChannelType

Init ==
  /\ disk \in [Devices -> Status] /\ edits = 0
  /\ store = disk
  /\ reload = [phase |-> "idle", new |-> disk, cut |-> {}]
  /\ targets = {} /\ registry = {} /\ late = {}
  /\ pc = [c \in Conns |-> "new"]
  /\ local \in [Conns -> BOOLEAN]
  /\ connected = [c \in Conns |-> FALSE]
  /\ claimed = [c \in Conns |-> None] /\ auth = [c \in Conns |-> None]
  /\ shutdown = [c \in Conns |-> FALSE]
  /\ peer = [c \in Conns |-> "open"]
  /\ queue = [c \in Conns |-> << >>]
  /\ writer = [c \in Conns |-> "running"]
  /\ idle = [c \in Conns |-> 0] /\ due = [c \in Conns |-> 0]
  /\ runs = [c \in Conns |-> 0]
  /\ connects = [c \in Conns |-> 0] /\ requests = [c \in Conns |-> 0]
-----------------------------------------------------------------------------
(***************************************************************************)
(* The channel.  `send` waits for room and fails once the writer has gone;  *)
(* `try_send` never waits.  The channel closes from the sending side when   *)
(* the last clone of tx is dropped.                                         *)
(***************************************************************************)
CanSend(c) == writer[c] = "ended" \/ Len(queue[c]) < Capacity

Send(c, frame) ==
  /\ CanSend(c)
  /\ queue' = IF writer[c] = "ended" THEN queue
              ELSE [queue EXCEPT ![c] = Append(@, frame)]

TrySend(c, frame) ==
  queue' = IF writer[c] = "ended" \/ Len(queue[c]) >= Capacity THEN queue
           ELSE [queue EXCEPT ![c] = Append(@, frame)]

Registered(c) == \E t \in Devices : <<t, c>> \in registry

HasSender(c) ==
  \/ pc[c] \in Serving
  \/ Registered(c)
  \/ idle[c] + due[c] > 0
  \/ runs[c] > 0
  \/ c \in targets
-----------------------------------------------------------------------------
(* The connection task: handle_socket and handle_connect.                  *)

Goto(c, s) == pc' = [pc EXCEPT ![c] = s]

\* The socket is accepted and the challenge is queued.
Accept(c) ==
  /\ pc[c] = "new"
  /\ Goto(c, "loop")
  /\ Send(c, "frame")
  /\ UNCHANGED <<storeVars, registry, idVars, shutdown, clientVars, writer, ticks, runs, late>>

\* authorize_connect: how a connect request with token t (or None) is judged.
LocalBypass(c) == local[c] /\ \A d \in Devices : store[d] = "absent"

Verdict(c, t) ==
  IF LocalBypass(c) THEN "local"
  ELSE IF t = None THEN "needs_pairing"
  ELSE IF store[t] = "active" THEN "device"
  ELSE "rejected"

AfterVerdict == [local |-> "hello", device |-> "register",
                 needs_pairing |-> "refuse", rejected |-> "reject"]

\* The loop receives a connect request; the store is read under its lock and
\* the lock is released before the verdict is acted on.
Connect(c, t) ==
  /\ pc[c] = "loop" /\ peer[c] = "open"
  /\ connects[c] < MaxConnects
  /\ connects' = [connects EXCEPT ![c] = @ + 1]
  /\ Goto(c, AfterVerdict[Verdict(c, t)])
  /\ claimed' = [claimed EXCEPT ![c] = IF Verdict(c, t) = "device" THEN t ELSE None]
  /\ UNCHANGED <<storeVars, registry, auth, connected, local, shutdown, peer, requests, chanVars, late>>

\* Mutant: one entry per token.
EnrollAlone(t, c) == {p \in registry : p[1] # t} \cup {<<t, c>>}

\* register_connection
Enroll(t, c) == registry \cup {<<t, c>>}

Register(c) ==
  /\ pc[c] = "register"
  /\ registry' = Enroll(claimed[c], c)
  /\ late' = IF store[claimed[c]] = "active" THEN late ELSE late \cup {<<claimed[c], c>>}
  /\ Goto(c, "hello")
  /\ UNCHANGED <<storeVars, idVars, shutdown, clientVars, chanVars>>

\* Mutant: every session is registered on success, a loopback one too.
HelloRegisters(c) ==
  /\ pc[c] = "hello"
  /\ Send(c, "frame")
  /\ registry' = Enroll(claimed[c], c)
  /\ idle' = [idle EXCEPT ![c] = @ + 1]
  /\ auth' = [auth EXCEPT ![c] = claimed[c]]
  /\ connected' = [connected EXCEPT ![c] = TRUE]
  /\ Goto(c, "loop")
  /\ UNCHANGED <<storeVars, claimed, local, shutdown, clientVars, writer, due, runs, late>>

\* Mutant: the session gets no tick task.
HelloWithoutTicks(c) ==
  /\ pc[c] = "hello"
  /\ Send(c, "frame")
  /\ auth' = [auth EXCEPT ![c] = claimed[c]]
  /\ connected' = [connected EXCEPT ![c] = TRUE]
  /\ Goto(c, "loop")
  /\ UNCHANGED <<storeVars, registry, claimed, local, shutdown, clientVars, writer, ticks, runs, late>>

\* hello-ok is queued, the tick task starts and the loop marks the session
\* connected.
Hello(c) ==
  /\ pc[c] = "hello"
  /\ Send(c, "frame")
  /\ idle' = [idle EXCEPT ![c] = @ + 1]
  /\ auth' = [auth EXCEPT ![c] = claimed[c]]
  /\ connected' = [connected EXCEPT ![c] = TRUE]
  /\ Goto(c, "loop")
  /\ UNCHANGED <<storeVars, registry, claimed, local, shutdown, clientVars, writer, due, runs, late>>

\* The error `res` of a refused connect.  A client that may still pair stays
\* connected; one that presented a bad token is sent a close frame.
RefuseConnect(c) ==
  /\ pc[c] \in {"refuse", "reject"}
  /\ Send(c, "frame")
  /\ Goto(c, IF pc[c] = "refuse" THEN "loop" ELSE "expel")
  /\ UNCHANGED <<storeVars, registry, idVars, shutdown, clientVars, writer, ticks, runs, late>>

Expel(c) ==
  /\ pc[c] = "expel"
  /\ Send(c, "close")
  /\ Goto(c, "cleanup")
  /\ UNCHANGED <<storeVars, registry, idVars, shutdown, clientVars, writer, ticks, runs, late>>

\* Any other text frame: it is answered, with an error while not connected.
Request(c) ==
  /\ pc[c] = "loop" /\ peer[c] = "open"
  /\ requests[c] < MaxRequests
  /\ requests' = [requests EXCEPT ![c] = @ + 1]
  /\ Goto(c, "reply")
  /\ UNCHANGED <<storeVars, registry, idVars, shutdown, peer, connects, chanVars, late>>

Reply(c) ==
  /\ pc[c] = "reply"
  /\ Send(c, "frame")
  /\ Goto(c, "loop")
  /\ \/ UNCHANGED runs
     \/ /\ connected[c] /\ writer[c] = "running" /\ runs[c] < MaxRuns
        /\ runs' = [runs EXCEPT ![c] = @ + 1]
  /\ UNCHANGED <<storeVars, registry, idVars, shutdown, clientVars, writer, ticks, late>>

\* Mutant: a failed socket returns at once, without cleanup.
ReturnAtOnce(c) ==
  /\ pc[c] = "loop" /\ peer[c] = "closed"
  /\ Goto(c, "gone")
  /\ UNCHANGED <<storeVars, registry, idVars, shutdown, clientVars, chanVars, late>>

\* The receive loop ends: the client closed the socket (or it failed), or the
\* shutdown notification arrived.  Its own tx is dropped.
SocketEnds(c) ==
  /\ pc[c] = "loop" /\ peer[c] = "closed"
  /\ Goto(c, "cleanup")
  /\ UNCHANGED <<storeVars, registry, idVars, shutdown, clientVars, chanVars, late>>

SeeShutdown(c) ==
  /\ pc[c] = "loop" /\ shutdown[c]
  /\ Goto(c, "cleanup")
  /\ UNCHANGED <<storeVars, registry, idVars, shutdown, clientVars, chanVars, late>>

\* unregister_connection: only the identity of the last connect is known.
Withdraw(t, c) == registry \ {<<t, c>>}

\* send_task.await, then unregister_connection.
Finish(c) ==
  /\ pc[c] = "cleanup" /\ writer[c] = "ended"
  /\ registry' = Withdraw(auth[c], c)
  /\ Goto(c, "gone")
  /\ UNCHANGED <<storeVars, idVars, shutdown, clientVars, chanVars, late>>
-----------------------------------------------------------------------------
(* The send task, the tick tasks and the agent runs of a connection.       *)

EndWriter(c) ==
  /\ writer' = [writer EXCEPT ![c] = "ended"]
  /\ queue' = [queue EXCEPT ![c] = << >>]

\* Mutant: the writer does not stop at a close frame.
WriteOn(c) ==
  /\ writer[c] = "running" /\ queue[c] # << >>
  /\ IF peer[c] = "closed"
     THEN EndWriter(c)
     ELSE queue' = [queue EXCEPT ![c] = Tail(@)] /\ UNCHANGED writer
  /\ UNCHANGED <<storeVars, registry, pc, idVars, shutdown, clientVars, ticks, runs, late>>

\* A frame is written, or the socket refuses it; a close frame is the last.
WriteFrame(c) ==
  /\ writer[c] = "running" /\ queue[c] # << >>
  /\ IF Head(queue[c]) = "close" \/ peer[c] = "closed"
     THEN EndWriter(c)
     ELSE queue' = [queue EXCEPT ![c] = Tail(@)] /\ UNCHANGED writer
  /\ UNCHANGED <<storeVars, registry, pc, idVars, shutdown, clientVars, ticks, runs, late>>

\* rx.recv returns None once every sender is gone.
WriterDrained(c) ==
  /\ pc[c] # "new"
  /\ writer[c] = "running" /\ queue[c] = << >> /\ ~HasSender(c)
  /\ EndWriter(c)
  /\ UNCHANGED <<storeVars, registry, pc, idVars, shutdown, clientVars, ticks, runs, late>>

\* A tick task wakes: it stops if the shutdown flag is set.
TickDue(c) ==
  /\ idle[c] > 0
  /\ idle' = [idle EXCEPT ![c] = @ - 1]
  /\ due' = IF shutdown[c] THEN due ELSE [due EXCEPT ![c] = @ + 1]
  /\ UNCHANGED <<storeVars, registry, pc, idVars, shutdown, clientVars, queue, writer, runs, late>>

\* It sends its event, and stops if the channel has closed.
TickSend(c) ==
  /\ due[c] > 0
  /\ Send(c, "frame")
  /\ due' = [due EXCEPT ![c] = @ - 1]
  /\ idle' = IF writer[c] = "ended" THEN idle ELSE [idle EXCEPT ![c] = @ + 1]
  /\ UNCHANGED <<storeVars, registry, pc, idVars, shutdown, clientVars, writer, runs, late>>

\* An agent run streams its events; a closed channel is ignored.
RunSend(c) ==
  /\ runs[c] > 0
  /\ Send(c, "frame")
  /\ UNCHANGED <<storeVars, registry, pc, idVars, shutdown, clientVars, writer, ticks, runs, late>>

RunEnds(c) ==
  /\ runs[c] > 0
  /\ runs' = [runs EXCEPT ![c] = @ - 1]
  /\ UNCHANGED <<storeVars, registry, pc, idVars, shutdown, clientVars, queue, writer, ticks, late>>

\* Environment: the client closes its socket, or the network does.
ClientCloses(c) ==
  /\ pc[c] # "new" /\ peer[c] = "open"
  /\ peer' = [peer EXCEPT ![c] = "closed"]
  /\ UNCHANGED <<storeVars, registry, pc, idVars, shutdown, sentVars, chanVars, late>>
-----------------------------------------------------------------------------
(* The device file and its reload.                                         *)

\* Environment: onboarding, revocation by the CLI, or an edit by hand.
Edit(d, status) ==
  /\ edits < MaxEdits /\ disk[d] # status
  /\ disk' = [disk EXCEPT ![d] = status]
  /\ edits' = edits + 1
  /\ UNCHANGED <<store, reload, targets, registry, pc, idVars, shutdown, clientVars, chanVars, late>>

\* Tokens whose sessions must end: newly revoked devices and deleted ones.
NewlyRevoked(new) == {d \in Devices : new[d] = "revoked" /\ store[d] = "active"}
Deleted(new) == {d \in Devices : new[d] = "absent" /\ store[d] # "absent"}

\* Mutant: deleted devices are overlooked.
CutRevokedOnly(new) == NewlyRevoked(new)

Cut(new) == NewlyRevoked(new) \cup Deleted(new)

\* The file has changed: it is read and compared with the store.
ReloadRead ==
  /\ reload.phase = "idle" /\ disk # store
  /\ reload' = [phase |-> "swap", new |-> disk, cut |-> Cut(disk)]
  /\ UNCHANGED <<disk, edits, store, targets, registry, pc, idVars, shutdown, clientVars, chanVars, late>>

ReloadSwap ==
  /\ reload.phase = "swap"
  /\ store' = reload.new
  /\ reload' = [reload EXCEPT !.phase = IF reload.cut = {} THEN "idle" ELSE "snapshot"]
  /\ late' = {p \in late : reload.new[p[1]] # "active"}
  /\ UNCHANGED <<disk, edits, targets, registry, pc, idVars, shutdown, clientVars, chanVars>>

\* Mutant: every registered session is cut.
AllSessions(cut) == {c \in Conns : Registered(c)}

\* disconnect_revoked_devices clones its targets out of the registry.
SessionsOf(cut) == {c \in Conns : \E t \in cut : <<t, c>> \in registry}

ReloadSnapshot ==
  /\ reload.phase = "snapshot"
  /\ targets' = SessionsOf(reload.cut)
  /\ reload' = [reload EXCEPT !.phase = IF SessionsOf(reload.cut) = {} THEN "idle"
                                        ELSE "disconnect"]
  /\ UNCHANGED <<disk, edits, store, registry, pc, idVars, shutdown, clientVars, chanVars, late>>

\* One target: the flag is set and the loop notified, then a close frame is
\* offered to the channel.
SignalShutdown(c) ==
  /\ reload.phase = "disconnect" /\ c \in targets /\ ~shutdown[c]
  /\ shutdown' = [shutdown EXCEPT ![c] = TRUE]
  /\ UNCHANGED <<storeVars, registry, pc, idVars, clientVars, chanVars, late>>

OfferClose(c) ==
  /\ reload.phase = "disconnect" /\ c \in targets /\ shutdown[c]
  /\ TrySend(c, "close")
  /\ targets' = targets \ {c}
  /\ reload' = [reload EXCEPT !.phase = IF targets = {c} THEN "idle" ELSE @]
  /\ UNCHANGED <<disk, edits, store, registry, pc, idVars, shutdown, clientVars, writer, ticks, runs, late>>
-----------------------------------------------------------------------------
Client(c) ==
  \/ Request(c) \/ ClientCloses(c)
  \/ \E t \in Tokens : Connect(c, t)

Session(c) ==
  \/ Register(c) \/ Hello(c) \/ RefuseConnect(c) \/ Expel(c) \/ Reply(c)
  \/ SocketEnds(c) \/ SeeShutdown(c) \/ Finish(c)

Ticks(c) == TickDue(c) \/ TickSend(c)
Runs(c) == RunSend(c) \/ RunEnds(c)
Writer(c) == WriteFrame(c) \/ WriterDrained(c)

Reload ==
  \/ ReloadRead \/ ReloadSwap \/ ReloadSnapshot
  \/ \E c \in Conns : SignalShutdown(c) \/ OfferClose(c)

Next ==
  \/ \E c \in Conns :
        Accept(c) \/ Client(c) \/ Session(c) \/ Ticks(c) \/ Runs(c) \/ Writer(c)
  \/ \E d \in Devices, s \in Status : Edit(d, s)
  \/ Reload

Spec == Init /\ [][Next]_vars

\* The tokio scheduler runs every task that can run, the channel queues its
\* waiting senders first come first served, a client that is not closed keeps
\* reading, and a provider answers.
Fairness ==
  /\ \A c \in Conns :
       /\ WF_vars(Session(c)) /\ SF_vars(SeeShutdown(c)) /\ WF_vars(Writer(c))
       /\ WF_vars(TickDue(c)) /\ SF_vars(TickSend(c)) /\ WF_vars(RunEnds(c))
  /\ WF_vars(Reload)

FairSpec == Spec /\ Fairness
-----------------------------------------------------------------------------
\* Every connected session with a device identity is in the registry under
\* that identity until its cleanup is over: handle_connect registers before
\* it reports success and only the cleanup unregisters, so no other session
\* of the device, and no reload, may drop it.
SessionIsTracked ==
  \A c \in Conns :
    connected[c] /\ auth[c] # None /\ pc[c] # "gone" => <<auth[c], c>> \in registry

\* Once a reload has finished, a session whose device is no longer active has
\* been told to end, unless it was registered after the device had already
\* been revoked (its connect request was authorised against the old store).
OnlyLateSessionsEscape ==
  reload.phase = "idle" =>
    \A p \in registry : store[p[1]] = "active" \/ shutdown[p[2]] \/ p \in late

\* A reload ends no session of a device that is still active: the connection
\* told to end is registered, or was when the snapshot was taken, under a
\* device the new store no longer has as active.
OnlyRevokedAreCut ==
  [][\A c \in Conns :
       ~shutdown[c] /\ shutdown'[c] =>
         \E t \in reload.cut : store[t] # "active" /\ (auth[c] = t \/ claimed[c] = t \/ <<t, c>> \in registry)]_vars

\* A connection that is over is not listed under the identity it last had.
GoneIsUnlisted ==
  \A c \in Conns : pc[c] = "gone" => <<auth[c], c>> \notin registry

\* A connection whose socket closes reaches the end of its cleanup, though the
\* registry keeps a sender alive: the next tick finds the socket closed and
\* ends the writer.  (A session that has been told to shut down is the other
\* case: see CutSessionEnds.)
ClosedSessionEnds ==
  \A c \in Conns : peer[c] = "closed" ~> (pc[c] = "gone" \/ shutdown[c])

\* A close frame in the channel ends the connection.
CloseFrameEndsSession ==
  \A c \in Conns :
    (\E i \in DOMAIN queue[c] : queue[c][i] = "close") ~> pc[c] = "gone"

\* "the shutdown notify is what actually ends the session": a session told to
\* shut down reaches the end of its cleanup.
CutSessionEnds == \A c \in Conns : shutdown[c] ~> pc[c] = "gone"
=============================================================================
