----------------------------- MODULE ConfigStore -----------------------------
(***************************************************************************)
(* The two YAML files of ~/.rabb1tclaw, config.yaml and devices.yaml, and    *)
(* the commands that edit them (cli/, config/native.rs, config/devices.rs).  *)
(* A command loads a file, may wait for its user, and saves the whole file   *)
(* it edited in memory: there is no lock, and nobody looks whether the file  *)
(* has changed in between.  write_secure replaces a file in one step; an     *)
(* editor the operator uses may leave it torn between two of its writes.     *)
(*                                                                         *)
(* A write gives a file a modification time no other write has, here its     *)
(* version; version 0 is a file that does not exist and loads as its         *)
(* default.  Only what relates the parts of a file is kept: which provider   *)
(* a model names, the active model, the bind address, a device's status.     *)
(***************************************************************************)
EXTENDS Naturals, FiniteSets

CONSTANTS Providers, Models, \* keys of the configuration
          Binds,             \* bind addresses
          Loopback,          \* the default one
          Devices,           \* ids that create_device may draw
          Commands,          \* processes that run a command, one after another
          None,              \* no model, no provider of a model
          Broken,            \* a file that does not parse
          MaxWrites          \* bound: writes to the two files

ASSUME StoreAssumption ==
  /\ Loopback \in Binds
  /\ None \notin Models \cup Providers
  /\ MaxWrites \in Nat

VARIABLES
  disk,      \* the two files
  version,   \* their modification times
  cmd,       \* the command each process runs
  reported,  \* devices a command has reported as revoked
  unsaved,   \* those --revoke-all has reported with no save since (history)
  clobbered  \* files a save has replaced unseen (history)

reportVars == <<reported, unsaved>>
storeVars == <<disk, version, cmd, reportVars, clobbered>>
-----------------------------------------------------------------------------
\* GatewayConfig and DeviceStore
Configs == [providers : SUBSET Providers, models : [Models -> Providers \cup {None}],
            active : Models \cup {None}, bind : Binds]
Stores == [Devices -> {"unknown", "active", "revoked"}]
Contents == [config : Configs, devices : Stores]
Files == {"config", "devices"}

\* An absent file loads as its default.
Default == [config  |-> [providers |-> {}, models |-> [k \in Models |-> None],
                         active |-> None, bind |-> Loopback],
            devices |-> [d \in Devices |-> "unknown"]]

Keys(models) == {k \in Models : models[k] # None}
-----------------------------------------------------------------------------
(* The edits: what a command may save out of the file c it has loaded; none   *)
(* if it ends with a message instead.                                       *)

\* Mutant: the active model stays when its provider is removed.
KeepActive(active, keys) == {active}

\* An active model that is gone gives way to keys().next(), some other key.
Reselect(active, keys) ==
  IF active \in keys \cup {None} THEN {active}
  ELSE IF keys = {} THEN {None} ELSE keys

AddProvider(c) == {[c EXCEPT !.providers = @ \cup {q}] : q \in Providers}

RemoveProvider(c) ==
  UNION {LET models == [k \in Models |-> IF c.models[k] = q THEN None ELSE c.models[k]]
         IN  {[c EXCEPT !.providers = @ \ {q}, !.models = models, !.active = a]
                : a \in Reselect(c.active, Keys(models))}
           : q \in c.providers}

AddModel(c) ==
  UNION {{[c EXCEPT !.models[k] = q, !.active = IF Keys(c.models) = {} THEN k ELSE @]
            : q \in c.providers}
           : k \in Models \ Keys(c.models)}

RemoveModel(c) ==
  UNION {LET models == [c.models EXCEPT ![k] = None]
         IN  {[c EXCEPT !.models = models, !.active = a]
                : a \in IF c.active = k THEN Reselect(k, Keys(models)) ELSE {c.active}}
           : k \in Keys(c.models)}

SetActive(c) == {[c EXCEPT !.active = k] : k \in Keys(c.models)}

\* Parameters of a model are not kept apart: the file is saved as it was loaded.
EditModel(c) == {c : k \in Keys(c.models)}

SetIp(c) == {[c EXCEPT !.bind = b] : b \in Binds}

\* discover_api_keys: the known providers with a key, at least one.
FoundKeys == SUBSET Providers \ {{}}

\* pick_model, for each provider found: the model chosen under its key, or none.
Picks(found) == [found -> Models \cup {None}]

\* init adds what was found and picked, and asks for the active model if there
\* are several then.
InitConfig(c) ==
  UNION {UNION {LET models == [k \in Models |-> IF \E q \in found : pick[q] = k
                                                THEN CHOOSE q \in found : pick[q] = k
                                                ELSE c.models[k]]
                    several == \E k, l \in Keys(models) : k # l
                    first == \E q \in found : pick[q] # None
                IN  [providers : {c.providers \cup found}, models : {models},
                     active : IF several \/ first THEN Keys(models) ELSE {c.active},
                     bind : Binds]
                  : pick \in Picks(found)}
           : found \in FoundKeys}

\* A new device has an id and a token prefix no device of the loaded store has.
Onboard(store) == {[store EXCEPT ![d] = "active"] : d \in {e \in Devices : store[e] = "unknown"}}

RevokeDevice(store) ==
  {[store EXCEPT ![d] = "revoked"] : d \in {e \in Devices : store[e] # "unknown"}}

\* Mutant: --revoke-all reports every device and saves the store it loaded.
RevokeNone(store) == {store}

Known(store) == {d \in Devices : store[d] # "unknown"}

RevokeAll(store) ==
  IF Known(store) # {}
  THEN {[d \in Devices |-> IF store[d] = "unknown" THEN "unknown" ELSE "revoked"]}
  ELSE {}

\* What an operator writes by hand: another address, or the devices as they are.
HandConfig(c) == SetIp(c)
HandDevices(store) == {store}

ConfigOps == {"add provider", "remove provider", "add model", "remove model",
              "set active", "edit model", "set ip", "init", "edit config"}
\* "save all" is a --revoke-all that has told its user of every device.
DeviceOps == {"onboard", "revoke", "revoke all", "save all", "edit devices"}
HandOps == {"edit config", "edit devices"}
Mending == [f \in Files |-> IF f = "config" THEN "mend config" ELSE "mend devices"]
FileOf(op) == IF op \in ConfigOps \cup {"mend config"} THEN "config" ELSE "devices"

Results(op, c) ==
  CASE op = "add provider"    -> AddProvider(c)
    [] op = "remove provider" -> RemoveProvider(c)
    [] op = "add model"       -> AddModel(c)
    [] op = "remove model"    -> RemoveModel(c)
    [] op = "set active"      -> SetActive(c)
    [] op = "edit model"      -> EditModel(c)
    [] op = "set ip"          -> SetIp(c)
    [] op = "init"            -> InitConfig(c)
    [] op = "edit config"     -> HandConfig(c)
    [] op = "onboard"         -> Onboard(c)
    [] op = "revoke"          -> RevokeDevice(c)
    [] op = "revoke all"      -> RevokeAll(c)
    [] op = "save all"        -> RevokeAll(c)
    [] op = "edit devices"    -> HandDevices(c)

\* What a command has told its user it revokes, once it has saved.
Revokes(op, old, new) ==
  CASE op = "revoke"   -> {d \in Devices : new[d] = "revoked" /\ old[d] # "revoked"}
    [] op = "save all" -> Known(old)
    [] OTHER           -> {}
-----------------------------------------------------------------------------
(* Processes: a command between its load and its save, an editor between the  *)
(* two writes that replace a file, a set-ip before it signals the server.    *)
NoCopy == [f \in Files |-> None]
Copies == [config : Configs \cup {None}, devices : Stores \cup {None}]
Idle == [op |-> "none", copy |-> NoCopy, at |-> 0]
Ops == ConfigOps \cup DeviceOps

StoreTypeOK ==
  /\ disk \in [config : Configs \cup {Broken}, devices : Stores \cup {Broken}]
  /\ version \in [Files -> Nat]
  /\ cmd \in [Commands -> [op : Ops \cup {"none", "mend config", "mend devices", "hangup"},
                           copy : Copies, at : Nat]]
  /\ reported \subseteq Devices /\ unsaved \subseteq Devices
  /\ clobbered \subseteq Files

InitStore ==
  /\ disk = Default
  /\ version = [f \in Files |-> 0]
  /\ cmd = [p \in Commands |-> Idle]
  /\ reported = {} /\ unsaved = {}
  /\ clobbered = {}

\* load_config or load_devices; a file that does not parse ends the command.
Load(p, op) ==
  LET f == FileOf(op) IN
  /\ cmd[p] = Idle
  /\ disk[f] # Broken
  /\ Results(op, disk[f]) # {}
  /\ cmd' = [cmd EXCEPT ![p] = [op |-> op, copy |-> [NoCopy EXCEPT ![f] = disk[f]],
                              at |-> version[f]]]
  /\ UNCHANGED <<disk, version, reportVars, clobbered>>

\* A file gets new contents, put there by someone who had read version at.
Write(f, contents, at) ==
  /\ disk' = [disk EXCEPT ![f] = contents]
  /\ version' = [version EXCEPT ![f] = @ + 1]
  /\ clobbered' = IF at = version[f] THEN clobbered ELSE clobbered \cup {f}

Room == version["config"] + version["devices"] < MaxWrites

\* cmd_revoke_all tells its user of one device after the other before it saves
\* them; a process that is killed meanwhile has told of some.
Announce(p) ==
  LET all == Known(cmd[p].copy["devices"]) IN
  /\ cmd[p].op = "revoke all"
  /\ \E told \in SUBSET all :
       /\ reported' = reported \cup told
       /\ unsaved' = unsaved \cup (told \ reported)
       /\ cmd' = [cmd EXCEPT ![p] = IF told = all
                                   THEN [op |-> "save all", copy |-> @.copy, at |-> @.at]
                                   ELSE Idle]
  /\ UNCHANGED <<disk, version, clobbered>>

\* The edit and save_config or save_devices, and what --revoke then reports; a
\* set-ip goes on to a signal.
Save(p) ==
  LET f == FileOf(cmd[p].op) IN
  /\ cmd[p].op \in Ops \ (HandOps \cup {"revoke all"})
  /\ Room
  /\ \E new \in Results(cmd[p].op, cmd[p].copy[f]) :
       /\ Write(f, new, cmd[p].at)
       /\ LET revoked == Revokes(cmd[p].op, cmd[p].copy[f], new) IN
            reported' = reported \cup revoked /\ unsaved' = unsaved \ revoked
  /\ cmd' = [cmd EXCEPT ![p] = IF @.op = "set ip" THEN [Idle EXCEPT !.op = "hangup"] ELSE Idle]

\* The command fails, in its save too, or its user gives up, before anything is
\* written.
Quit(p) ==
  /\ cmd[p].op \in Ops
  /\ cmd' = [cmd EXCEPT ![p] = Idle]
  /\ UNCHANGED <<disk, version, reportVars, clobbered>>

\* An editor truncates the file ...
Tear(p) ==
  LET f == FileOf(cmd[p].op) IN
  /\ cmd[p].op \in HandOps
  /\ Room
  /\ Write(f, Broken, cmd[p].at)
  /\ \E new \in Results(cmd[p].op, cmd[p].copy[f]) :
       cmd' = [cmd EXCEPT ![p] = [op |-> Mending[f], copy |-> [NoCopy EXCEPT ![f] = new],
                                 at |-> version[f] + 1]]
  /\ UNCHANGED reportVars

\* ... and writes it, unless a command has put another file in its place.
Mend(p) ==
  LET f == FileOf(cmd[p].op) IN
  /\ cmd[p].op = Mending[f]
  /\ IF cmd[p].at = version[f]
     THEN Write(f, cmd[p].copy[f], cmd[p].at)
     ELSE UNCHANGED <<disk, version, clobbered>>
  /\ cmd' = [cmd EXCEPT ![p] = Idle]
  /\ UNCHANGED reportVars

\* A set-ip goes on once it has signalled the server.
Signalled(p) ==
  /\ cmd[p].op = "hangup"
  /\ cmd' = [cmd EXCEPT ![p] = Idle]
  /\ UNCHANGED <<disk, version, reportVars, clobbered>>

Command(p) ==
  \/ \E op \in Ops \ {"save all"} : Load(p, op)
  \/ Announce(p) \/ Save(p) \/ Quit(p)
  \/ Tear(p) \/ Mend(p)

StoreSpec == InitStore /\ [][\E p \in Commands : Command(p) \/ Signalled(p)]_storeVars
-----------------------------------------------------------------------------
\* A configuration resolves: a model names a provider that is there, and a
\* model is active as soon as there is one.
Resolves(c) ==
  /\ \A k \in Models : c.models[k] \in c.providers \cup {None}
  /\ c.active \in Models => c.models[c.active] # None
  /\ c.active = None => \A k \in Models : c.models[k] = None

\* Whatever commands are run, on whatever stale copies, the configuration in
\* the file resolves (cli/providers.rs, cli/models.rs, cli/init.rs).
ConfigResolves == disk.config = Broken \/ Resolves(disk.config)

\* A device that a command has reported as revoked is revoked in the file and
\* stays so, unless a command saved a copy older than the file, or the report is
\* one of --revoke-all and its save has not come (cli/devices.rs).
RevocationSticks ==
  "devices" \in clobbered \/ disk.devices = Broken \/
    \A d \in reported \ unsaved : disk.devices[d] = "revoked"
=============================================================================
