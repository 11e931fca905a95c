------------------------------ MODULE HotReload ------------------------------
(***************************************************************************)
(* Server processes over the two files: start, the watcher that polls the    *)
(* modification times and reloads (config/reload.rs), the pid file           *)
(* (config/pid.rs), the signals commands send to the process it names        *)
(* (cli/mod.rs) and the address a server listens on (cli/server.rs).         *)
(*                                                                         *)
(* A process is started once; its name stands for its pid.  SIGHUP and the   *)
(* two-second poll both wake the watcher, which time does not tell apart.    *)
(* An address is taken by one listener; the wildcard address is left out.    *)
(***************************************************************************)
EXTENDS ConfigStore

CONSTANT Servers  \* processes that may be started

ASSUME ServerAssumption == None \notin Servers

VARIABLES
  pc,      \* control state of a server process
  mem,     \* gateway_config and device_store
  cached,  \* config_mtime and devices_mtime of its ReloadCoordinator; before
            \* there is one, the versions it has loaded (history)
  stat,    \* the modification time check_and_reload has just read
  addr,    \* the address it was started to listen on
  pid,     \* server.pid
  blind,   \* files that changed before the watcher's first look (history)
  alone    \* servers in whose life no other was started (history)

serverVars == <<pc, mem, cached, stat, addr, pid, blind, alone>>
vars == <<storeVars, serverVars>>
-----------------------------------------------------------------------------
\* Loaded, pid file written, watcher spawned, listening; then what the watcher
\* is about to compare.
Starting == {"loaded", "claimed", "watched"}
Serving == {"idle", "config", "devices"}
Alive == Starting \cup Serving

\* Mutant: devices.yaml is not looked at.
ConfigAlone == [config |-> "idle", devices |-> "idle"]

\* What a round compares next.
AfterFile == [config |-> "devices", devices |-> "idle"]

TypeOK ==
  /\ StoreTypeOK
  /\ pc \in [Servers -> Alive \cup {"off", "dead", "ended"}]
  /\ mem \in [Servers -> Contents]
  /\ cached \in [Servers -> [Files -> Nat]]
  /\ blind \in [Servers -> SUBSET Files]
  /\ stat \in [Servers -> Nat]
  /\ addr \in [Servers -> Binds]
  /\ pid \in Servers \cup {None}
  /\ alone \subseteq Servers

Init ==
  /\ InitStore
  /\ pc = [s \in Servers |-> "off"]
  /\ mem = [s \in Servers |-> Default]
  /\ cached = [s \in Servers |-> [f \in Files |-> 0]]
  /\ blind = [s \in Servers |-> {}]
  /\ stat = [s \in Servers |-> 0]
  /\ addr = [s \in Servers |-> Loopback]
  /\ pid = None
  /\ alone = {}
-----------------------------------------------------------------------------
(* Start.  Without a configuration it runs init instead, which is a command.  *)

Others(s) == {t \in Servers \ {s} : pc[t] \in Alive}

Start(s) ==
  /\ pc[s] = "off"
  /\ version["config"] > 0
  /\ \A f \in Files : disk[f] # Broken
  /\ pc' = [pc EXCEPT ![s] = "loaded"]
  /\ mem' = [mem EXCEPT ![s] = disk]
  /\ cached' = [cached EXCEPT ![s] = version]
  /\ addr' = [addr EXCEPT ![s] = disk.config.bind]
  /\ alone' = (alone \ Others(s)) \cup (IF Others(s) = {} THEN {s} ELSE {})
  /\ UNCHANGED <<stat, pid, blind>>

\* Mutant: a pid file that is there already is left alone.
ClaimIfFree(s) ==
  /\ pc[s] = "loaded"
  /\ pc' = [pc EXCEPT ![s] = "claimed"]
  /\ pid' = IF pid = None THEN s ELSE pid
  /\ UNCHANGED <<mem, cached, stat, addr, blind, alone>>

\* PidGuard::new
Claim(s) ==
  /\ pc[s] = "loaded"
  /\ pc' = [pc EXCEPT ![s] = "claimed"]
  /\ pid' = s
  /\ UNCHANGED <<mem, cached, stat, addr, blind, alone>>

\* ReloadCoordinator::new; the handler of SIGHUP is spawned.
Watch(s) ==
  /\ pc[s] = "claimed"
  /\ pc' = [pc EXCEPT ![s] = "watched"]
  /\ blind' = [blind EXCEPT ![s] = {f \in Files : cached[s][f] # version[f]}]
  /\ cached' = [cached EXCEPT ![s] = version]
  /\ UNCHANGED <<mem, stat, addr, pid, alone>>

Listening(a) == \E s \in Servers : pc[s] \in Serving /\ addr[s] = a

\* The server listens, or its PidGuard is dropped on the way out: the address is
\* taken, or cannot be had for another reason.
Bind(s) ==
  /\ pc[s] = "watched"
  /\ \/ pc' = [pc EXCEPT ![s] = "ended"] /\ pid' = None
     \/ ~Listening(addr[s]) /\ pc' = [pc EXCEPT ![s] = "idle"] /\ UNCHANGED pid
  /\ UNCHANGED <<mem, cached, stat, addr, blind, alone>>
-----------------------------------------------------------------------------
(* The watcher: one round compares config.yaml, then devices.yaml.  A reload  *)
(* is one step: nothing but files changes between its load and its swap.     *)

Wake(s) ==
  /\ pc[s] = "idle"
  /\ pc' = [pc EXCEPT ![s] = "config"]
  /\ stat' = [stat EXCEPT ![s] = version["config"]]
  /\ UNCHANGED <<mem, cached, addr, pid, blind, alone>>

Swap(s, f) ==
  /\ mem' = [mem EXCEPT ![s][f] = disk[f]]
  /\ blind' = [blind EXCEPT ![s] = @ \ {f}]

\* Mutant: a file that could not be loaded counts as seen, too.
ReloadOnce(s, f) ==
  /\ cached' = [cached EXCEPT ![s][f] = stat[s]]
  /\ IF stat[s] = cached[s][f] \/ disk[f] = Broken THEN UNCHANGED <<mem, blind>> ELSE Swap(s, f)

\* Mutant: a file that does not parse is taken over.
ReloadTorn(s, f) ==
  IF stat[s] = cached[s][f] THEN UNCHANGED <<mem, blind, cached>>
  ELSE Swap(s, f) /\ cached' = [cached EXCEPT ![s][f] = stat[s]]

\* What is cached is the time from before the load, so that a write behind it
\* is noticed; after a failure it stays, so that the next round tries again.
Reload(s, f) ==
  IF stat[s] = cached[s][f] \/ disk[f] = Broken THEN UNCHANGED <<mem, blind, cached>>
  ELSE Swap(s, f) /\ cached' = [cached EXCEPT ![s][f] = stat[s]]

CheckAndReload(s) ==
  /\ pc[s] \in Files
  /\ Reload(s, pc[s])
  /\ LET next == AfterFile[pc[s]] IN
       /\ pc' = [pc EXCEPT ![s] = next]
       /\ stat' = [stat EXCEPT ![s] = IF next \in Files THEN version[next] ELSE @]
  /\ UNCHANGED <<addr, pid, alone>>
-----------------------------------------------------------------------------
(* Signals.  No server removes its pid file when a signal kills it.          *)

Kill(s) == pc' = [pc EXCEPT ![s] = "dead"] /\ UNCHANGED <<mem, cached, stat, addr, pid, blind, alone>>

\* server --stop sends SIGTERM, which no handler takes.
Stop ==
  /\ pid # None
  /\ pc[pid] \in Alive
  /\ Kill(pid)

\* SIGHUP wakes the watcher.  The handler is installed by a task that is spawned
\* when the watcher is (setup_sighup_handler) and runs some time later, or fails;
\* a process that has no handler yet is killed.
Hangup ==
  IF pid = None \/ pc[pid] \notin Alive THEN UNCHANGED serverVars
  ELSE \/ Kill(pid)
       \/ Wake(pid)
       \/ pc[pid] \notin {"loaded", "claimed", "idle"} /\ UNCHANGED serverVars

\* server --restart
Restart == pid # None /\ Hangup

\* The signal of server --set-ip, once the file is saved.
SignalAfterSetIp(p) ==
  /\ Signalled(p)
  /\ Hangup

\* Ctrl-C: a listening server shuts down and drops its PidGuard.
Interrupt(s) ==
  IF pc[s] \in Serving
  THEN /\ pc' = [pc EXCEPT ![s] = "ended"]
       /\ pid' = None
       /\ UNCHANGED <<mem, cached, stat, addr, blind, alone>>
  ELSE pc[s] \in Starting /\ Kill(s)

Watcher(s) == (Wake(s) \/ CheckAndReload(s)) /\ UNCHANGED storeVars

Server(s) ==
  \/ (Start(s) \/ Claim(s) \/ Watch(s) \/ Bind(s) \/ Interrupt(s)) /\ UNCHANGED storeVars
  \/ Watcher(s)

Next ==
  \/ \E p \in Commands : (Command(p) /\ UNCHANGED serverVars) \/ SignalAfterSetIp(p)
  \/ \E s \in Servers : Server(s)
  \/ (Stop \/ Restart) /\ UNCHANGED storeVars

Spec == Init /\ [][Next]_vars

\* The watcher never stops polling.
FairSpec == Spec /\ \A s \in Servers : WF_vars(Watcher(s))
-----------------------------------------------------------------------------
\* A server whose watcher has nothing left to notice has the contents of the
\* file, unless the file changed between its load and the watcher's first look
\* (config/reload.rs); in that gap the old contents stay until the next write.
ServerIsCurrent ==
  \A s \in Servers, f \in Files :
    pc[s] \in Serving /\ cached[s][f] = version[f] /\ f \notin blind[s]
      => mem[s][f] = disk[f]

\* Unless other servers were started in its life, a server that listens is the
\* one the pid file names, the one --stop and --restart find (config/pid.rs).
PidFindsServer == \A s \in alone : pc[s] \in Serving => pid = s

\* A reported revocation takes effect in every server that listens: its store
\* stops to hold the device as active, unless a stale save has undone the
\* revocation, the file stays torn, or it changed in the gap of the start.  A
\* report of --revoke-all counts once it has saved.
RevocationArrives ==
  \A s \in Servers, d \in Devices :
    (pc[s] \in Serving /\ d \in reported \ unsaved) ~>
      \/ pc[s] \notin Serving \/ mem[s].devices[d] # "active"
      \/ "devices" \in clobbered \/ disk.devices = Broken \/ "devices" \in blind[s]
=============================================================================
