--------------------------- MODULE HotReloadProofs ---------------------------
(***************************************************************************)
(* Theorems about HotReload and the ConfigStore it runs on, for any files,    *)
(* commands and servers: the configuration in the file always resolves, and a *)
(* reported revocation is only lost to a save of a stale copy, or by a        *)
(* --revoke-all that does not get to its save; servers leave the files to the *)
(* commands, a watcher misses a write only in the gap of the start, and the   *)
(* pid file finds a lone server.                                             *)
(***************************************************************************)
EXTENDS HotReload, TLAPS

(* The store: the theorems of ConfigStore, which servers do not touch.        *)

Good(c) == c \in Configs /\ Resolves(c)

-----------------------------------------------------------------------------
(* The edits keep a configuration that resolves.                             *)

\* Records of the right parts are configurations.
LEMMA ConfigParts ==
  ASSUME NEW ps \in SUBSET Providers, NEW ms \in [Models -> Providers \cup {None}],
         NEW a \in Models \cup {None}, NEW b \in Binds
  PROVE  [providers |-> ps, models |-> ms, active |-> a, bind |-> b] \in Configs
BY DEF Configs

LEMMA DefaultResolves == Good(Default.config)
BY StoreAssumption DEF Good, Default, Configs, Resolves

LEMMA AddProviderResolves ==
  ASSUME NEW c, Good(c), NEW d \in AddProvider(c) PROVE Good(d)
<1>1. PICK q \in Providers : d = [c EXCEPT !.providers = @ \cup {q}]
  BY DEF AddProvider
<1> QED BY <1>1 DEF Good, Configs, Resolves

\* The model that becomes active when the active one is gone is there.
LEMMA ReselectResolves ==
  ASSUME NEW a, NEW ms \in [Models -> Providers \cup {None}], NEW b \in Reselect(a, Keys(ms)),
         a = None => \A k \in Models : ms[k] = None, a \in Models \cup {None}
  PROVE  /\ b \in Models \cup {None}
         /\ b \in Models => ms[b] # None
         /\ b = None => \A k \in Models : ms[k] = None
<1>1. Keys(ms) \subseteq Models /\ None \notin Models
  BY StoreAssumption DEF Keys
<1>2. CASE a \in Keys(ms) \cup {None}
  <2>1. b = a BY <1>2 DEF Reselect
  <2> QED BY <1>1, <1>2, <2>1 DEF Keys
<1>3. CASE a \notin Keys(ms) \cup {None} /\ Keys(ms) = {}
  <2>1. b = None BY <1>3 DEF Reselect
  <2> QED BY <1>1, <1>3, <2>1 DEF Keys
<1>4. CASE a \notin Keys(ms) \cup {None} /\ Keys(ms) # {}
  <2>1. b \in Keys(ms) BY <1>4 DEF Reselect
  <2> QED BY <1>1, <2>1 DEF Keys
<1> QED BY <1>2, <1>3, <1>4

LEMMA RemoveProviderResolves ==
  ASSUME NEW c, Good(c), NEW d \in RemoveProvider(c) PROVE Good(d)
<1> DEFINE Without(q) == [k \in Models |-> IF c.models[k] = q THEN None ELSE c.models[k]]
<1>1. PICK q \in c.providers : \E a \in Reselect(c.active, Keys(Without(q))) :
        d = [c EXCEPT !.providers = @ \ {q}, !.models = Without(q), !.active = a]
  BY DEF RemoveProvider
<1>2. PICK a \in Reselect(c.active, Keys(Without(q))) :
        d = [c EXCEPT !.providers = @ \ {q}, !.models = Without(q), !.active = a]
  BY <1>1
<1>3. c \in Configs /\ Resolves(c) BY DEF Good
<1>4. Without(q) \in [Models -> Providers \cup {None}]
  BY <1>3 DEF Configs
<1>5. \A k \in Models : Without(q)[k] \in (c.providers \ {q}) \cup {None}
  BY <1>3 DEF Configs, Resolves
<1>6. c.active = None => \A k \in Models : Without(q)[k] = None
  BY <1>3 DEF Resolves
<1>7. c.active \in Models \cup {None} BY <1>3 DEF Configs
<1> HIDE DEF Without
<1>8. /\ a \in Models \cup {None}
      /\ a \in Models => Without(q)[a] # None
      /\ a = None => \A k \in Models : Without(q)[k] = None
  BY <1>4, <1>6, <1>7, ReselectResolves
<1>9. d.providers = c.providers \ {q} /\ d.models = Without(q) /\ d.active = a
      /\ d \in Configs
  BY <1>2, <1>3, <1>4, <1>8 DEF Configs
<1> QED BY <1>5, <1>8, <1>9 DEF Good, Resolves

LEMMA AddModelResolves ==
  ASSUME NEW c, Good(c), NEW d \in AddModel(c) PROVE Good(d)
<1>0. PICK k \in Models \ Keys(c.models) : \E q \in c.providers :
        d = [c EXCEPT !.models[k] = q, !.active = IF Keys(c.models) = {} THEN k ELSE @]
  BY DEF AddModel
<1>1. PICK q \in c.providers :
        d = [c EXCEPT !.models[k] = q, !.active = IF Keys(c.models) = {} THEN k ELSE @]
  BY <1>0
<1>2. c \in Configs /\ Resolves(c) BY DEF Good
<1>3. q \in Providers /\ q # None /\ k # None
  BY <1>2, StoreAssumption DEF Configs
<1>4. d \in Configs /\ d.providers = c.providers /\ d.models = [c.models EXCEPT ![k] = q]
      /\ d.active = IF Keys(c.models) = {} THEN k ELSE c.active
  BY <1>1, <1>2, <1>3 DEF Configs
<1>5. Keys(c.models) # {} => c.active # None
  BY <1>2 DEF Keys, Resolves
<1> QED BY <1>1, <1>2, <1>3, <1>4, <1>5 DEF Good, Configs, Resolves

LEMMA RemoveModelResolves ==
  ASSUME NEW c, Good(c), NEW d \in RemoveModel(c) PROVE Good(d)
<1> DEFINE Without(k) == [c.models EXCEPT ![k] = None]
<1>1. PICK k \in Keys(c.models) :
        \E a \in IF c.active = k THEN Reselect(k, Keys(Without(k))) ELSE {c.active} :
          d = [c EXCEPT !.models = Without(k), !.active = a]
  BY DEF RemoveModel
<1>2. PICK a \in IF c.active = k THEN Reselect(k, Keys(Without(k))) ELSE {c.active} :
        d = [c EXCEPT !.models = Without(k), !.active = a]
  BY <1>1
<1>3. c \in Configs /\ Resolves(c) /\ k \in Models /\ c.models[k] # None
  BY DEF Good, Keys
<1>4. Without(k) \in [Models -> Providers \cup {None}]
  BY <1>3 DEF Configs
<1>5. /\ a \in Models \cup {None}
      /\ a \in Models => Without(k)[a] # None
      /\ a = None => \A l \in Models : Without(k)[l] = None
  <2>1. CASE c.active = k
    <3>1. k # None BY <1>3, StoreAssumption
    <3> HIDE DEF Without
    <3> QED BY <1>2, <1>3, <1>4, <2>1, <3>1, ReselectResolves
  <2>2. CASE c.active # k
    <3>1. a = c.active BY <1>2, <2>2
    <3>2. c.active \in Models \cup {None} BY <1>3 DEF Configs
    <3>3. c.active # None BY <1>3 DEF Resolves
    <3> QED BY <1>3, <2>2, <3>1, <3>2, <3>3 DEF Configs, Resolves
  <2> QED BY <2>1, <2>2
<1>6. \A l \in Models : Without(k)[l] \in c.providers \cup {None}
  BY <1>3 DEF Configs, Resolves
<1>7. d \in Configs /\ d.providers = c.providers /\ d.models = Without(k) /\ d.active = a
  BY <1>2, <1>3, <1>4, <1>5 DEF Configs
<1> QED BY <1>5, <1>6, <1>7 DEF Good, Resolves

LEMMA SetActiveResolves ==
  ASSUME NEW c, Good(c), NEW d \in SetActive(c) PROVE Good(d)
<1>1. PICK k \in Keys(c.models) : d = [c EXCEPT !.active = k]
  BY DEF SetActive
<1>2. None \notin Models BY StoreAssumption
<1> QED BY <1>1, <1>2 DEF Good, Keys, Configs, Resolves

LEMMA SetIpResolves ==
  ASSUME NEW c, Good(c), NEW d \in SetIp(c) PROVE Good(d)
<1>1. PICK b \in Binds : d = [c EXCEPT !.bind = b]
  BY DEF SetIp
<1> QED BY <1>1 DEF Good, Configs, Resolves

LEMMA InitConfigResolves ==
  ASSUME NEW c, Good(c), NEW d \in InitConfig(c) PROVE Good(d)
<1> DEFINE Picked(found, pick) ==
             [k \in Models |-> IF \E q \in found : pick[q] = k
                              THEN CHOOSE q \in found : pick[q] = k
                              ELSE c.models[k]]
           Several(found, pick) ==
             \E k, l \in Keys(Picked(found, pick)) : k # l
           First(found, pick) == \E q \in found : pick[q] # None
<1> DEFINE Written(found, pick) ==
             [providers : {c.providers \cup found}, models : {Picked(found, pick)},
              active : IF Several(found, pick) \/ First(found, pick)
                       THEN Keys(Picked(found, pick)) ELSE {c.active},
              bind : Binds]
<1>0. InitConfig(c) = UNION {UNION {Written(found, pick) : pick \in Picks(found)}
                               : found \in FoundKeys}
  BY Zenon DEF InitConfig
<1> HIDE DEF Written
<1>1. PICK found \in FoundKeys : \E pick \in Picks(found) : d \in Written(found, pick)
  BY <1>0
<1>2. PICK pick \in Picks(found) : d \in Written(found, pick)
  BY <1>1
<1> DEFINE ms == Picked(found, pick)
<1>3. c \in Configs /\ Resolves(c) /\ found \subseteq Providers /\ None \notin Providers
  BY StoreAssumption DEF Good, FoundKeys
<1>4. \A k \in Models : ms[k] \in found \/ ms[k] = c.models[k]
  OBVIOUS
<1>5. \A k \in Models : ms[k] \in (c.providers \cup found) \cup {None}
  BY <1>3, <1>4 DEF Resolves
<1>6. ms \in [Models -> Providers \cup {None}]
  <2>1. c.providers \subseteq Providers BY <1>3 DEF Configs
  <2> QED BY <1>3, <1>5, <2>1
<1>7. ~First(found, pick) => \A k \in Models : ms[k] = c.models[k]
  BY StoreAssumption
<1> HIDE DEF ms
<1>8. /\ d.providers = c.providers \cup found
      /\ d.models = ms
      /\ d.bind \in Binds
      /\ d = [providers |-> d.providers, models |-> d.models, active |-> d.active,
             bind |-> d.bind]
      /\ d.active \in Keys(ms) \/ (~First(found, pick) /\ d.active = c.active)
  BY <1>2 DEF ms, Written
<1>9. CASE d.active \in Keys(ms)
  <2>1. d.active \in Models /\ ms[d.active] # None /\ d.active # None
    BY <1>9, StoreAssumption DEF Keys
  <2> QED BY <1>3, <1>5, <1>6, <1>8, <2>1 DEF Good, Configs, Resolves
<1>10. CASE ~First(found, pick) /\ d.active = c.active
  <2>1. \A k \in Models : ms[k] = c.models[k]
    BY <1>7, <1>10
  <2> HIDE DEF First
  <2> QED BY <1>3, <1>5, <1>6, <1>8, <1>10, <2>1 DEF Good, Configs, Resolves
<1> QED BY <1>8, <1>9, <1>10

\* Every command writes a configuration that resolves out of one that does.
LEMMA ResultsResolve ==
  ASSUME NEW c, Good(c), NEW op \in ConfigOps, NEW d \in Results(op, c)
  PROVE  Good(d)
<1>1. CASE op = "add provider"
  BY <1>1, AddProviderResolves DEF Results
<1>2. CASE op = "remove provider"
  BY <1>2, RemoveProviderResolves DEF Results
<1>3. CASE op = "add model"
  BY <1>3, AddModelResolves DEF Results
<1>4. CASE op = "remove model"
  BY <1>4, RemoveModelResolves DEF Results
<1>5. CASE op = "set active"
  BY <1>5, SetActiveResolves DEF Results
<1>6. CASE op = "edit model"
  BY <1>6 DEF Results, EditModel
<1>7. CASE op = "set ip"
  BY <1>7, SetIpResolves DEF Results
<1>8. CASE op = "init"
  BY <1>8, InitConfigResolves DEF Results
<1>9. CASE op = "edit config"
  BY <1>9, SetIpResolves DEF Results, HandConfig
<1> QED BY <1>1, <1>2, <1>3, <1>4, <1>5, <1>6, <1>7, <1>8, <1>9 DEF ConfigOps

-----------------------------------------------------------------------------
(* The edits of the device store.                                            *)

\* No command makes a revoked device anything else, and what a command reports
\* as revoked is.
LEMMA ResultsRevoke ==
  ASSUME NEW c \in Stores, NEW op \in DeviceOps, NEW new \in Results(op, c)
  PROVE  /\ new \in Stores
         /\ \A d \in Devices : c[d] = "revoked" => new[d] = "revoked"
         /\ \A d \in Revokes(op, c, new) : d \in Devices /\ new[d] = "revoked"
<1>1. CASE op = "onboard"
  <2>1. PICK d \in Devices : c[d] = "unknown" /\ new = [c EXCEPT ![d] = "active"]
    BY <1>1 DEF Results, Onboard
  <2>2. Revokes(op, c, new) = {} BY <1>1 DEF Revokes
  <2> QED BY <2>1, <2>2 DEF Stores
<1>2. CASE op = "revoke"
  <2>1. PICK d \in Devices : c[d] # "unknown" /\ new = [c EXCEPT ![d] = "revoked"]
    BY <1>2 DEF Results, RevokeDevice
  <2>2. Revokes(op, c, new) = {d2 \in Devices : new[d2] = "revoked" /\ c[d2] # "revoked"}
    BY <1>2 DEF Revokes
  <2> QED BY <2>1, <2>2 DEF Stores
<1>3. CASE op \in {"revoke all", "save all"}
  <2>1. new = [d \in Devices |-> IF c[d] = "unknown" THEN "unknown" ELSE "revoked"]
    BY <1>3 DEF Results, RevokeAll
  <2>2. Revokes(op, c, new) \subseteq {d \in Devices : c[d] # "unknown"}
    BY <1>3 DEF Revokes, Known
  <2> QED BY <2>1, <2>2 DEF Stores
<1>4. CASE op = "edit devices"
  <2>1. new = c BY <1>4 DEF Results, HandDevices
  <2>2. Revokes(op, c, new) = {} BY <1>4 DEF Revokes
  <2> QED BY <2>1, <2>2
<1> QED BY <1>1, <1>2, <1>3, <1>4 DEF DeviceOps

-----------------------------------------------------------------------------
(* What holds in every state.                                                *)

\* The file and the copy a process holds of it, in the shape of the store.
Shaped ==
  /\ disk \in [config : Configs \cup {Broken}, devices : Stores \cup {Broken}]
  /\ version \in [Files -> Nat]
  /\ DOMAIN cmd = Commands
  /\ \A p \in Commands : cmd[p].at \in Nat
  /\ cmd = [p \in Commands |-> cmd[p]]

\* The configuration a process holds resolves, the store it holds is one.
CopyFits(p) ==
  /\ cmd[p].op \in ConfigOps \cup {"mend config"} => Good(cmd[p].copy["config"])
  /\ cmd[p].op \in DeviceOps \cup {"mend devices"} => cmd[p].copy["devices"] \in Stores

StoreInv ==
  /\ Shaped
  /\ ConfigResolves
  /\ \A p \in Commands : CopyFits(p)

\* What a process has not read or written yet does not concern the files.
LEMMA FileOfOp ==
  /\ \A op \in ConfigOps \cup {"mend config"} : FileOf(op) = "config"
  /\ \A op \in DeviceOps \cup {"mend devices"} : FileOf(op) = "devices"
  /\ \A op \in Ops : FileOf(op) \in Files
  /\ ConfigOps \cap DeviceOps = {}
  /\ Ops = ConfigOps \cup DeviceOps
  /\ Files = {"config", "devices"}
BY DEF FileOf, ConfigOps, DeviceOps, Ops, Files

LEMMA InitHolds == InitStore => StoreInv
<1> SUFFICES ASSUME InitStore PROVE StoreInv OBVIOUS
<1>1. Good(Default.config) BY DefaultResolves
<1>2. Shaped
  BY <1>1 DEF InitStore, Shaped, Idle, Default, Good, Stores, Files
<1>3. ConfigResolves
  BY <1>1 DEF InitStore, ConfigResolves, Good
<1>4. \A p \in Commands : CopyFits(p)
  BY DEF InitStore, CopyFits, Idle, ConfigOps, DeviceOps
<1> QED BY <1>2, <1>3, <1>4 DEF StoreInv

LEMMA LoadHolds ==
  ASSUME StoreInv, NEW p \in Commands, NEW op \in Ops, Load(p, op)
  PROVE  StoreInv'
<1> DEFINE f == FileOf(op)
<1>1. f \in Files /\ disk[f] # Broken
  BY FileOfOp DEF Load
<1>2. /\ cmd' = [cmd EXCEPT ![p] = [op |-> op, copy |-> [NoCopy EXCEPT ![f] = disk[f]],
                                   at |-> version[f]]]
      /\ UNCHANGED <<disk, version, reportVars, clobbered>>
  BY DEF Load
<1>3. Shaped /\ ConfigResolves /\ \A r \in Commands : CopyFits(r)
  BY DEF StoreInv
<1>4. /\ cmd'[p].op = op
      /\ cmd'[p].copy[f] = disk[f]
      /\ cmd'[p].at = version[f]
      /\ \A r \in Commands \ {p} : cmd'[r] = cmd[r]
      /\ DOMAIN cmd' = Commands
      /\ cmd' = [r \in Commands |-> cmd'[r]]
  BY <1>1, <1>2, <1>3 DEF Shaped, NoCopy
<1>5. Shaped'
  <2>1. version[f] \in Nat BY <1>1, <1>3 DEF Shaped
  <2> HIDE DEF f
  <2> QED BY <1>2, <1>3, <1>4, <2>1 DEF Shaped
<1>6. ConfigResolves'
  BY <1>2, <1>3 DEF ConfigResolves
<1>7. CopyFits(p)'
  <2>1. op \in ConfigOps \cup {"mend config"} => Good(cmd'[p].copy["config"])
    <3> SUFFICES ASSUME op \in ConfigOps \cup {"mend config"} PROVE Good(cmd'[p].copy["config"])
      OBVIOUS
    <3>1. f = "config" BY FileOfOp
    <3>2. disk["config"] \in Configs /\ Resolves(disk["config"])
      BY <1>1, <1>3, <3>1 DEF Shaped, ConfigResolves
    <3> QED BY <1>4, <3>1, <3>2 DEF Good
  <2>2. op \in DeviceOps \cup {"mend devices"} => cmd'[p].copy["devices"] \in Stores
    <3> SUFFICES ASSUME op \in DeviceOps \cup {"mend devices"}
                 PROVE  cmd'[p].copy["devices"] \in Stores
      OBVIOUS
    <3>1. f = "devices" BY FileOfOp
    <3>2. disk["devices"] \in Stores BY <1>1, <1>3, <3>1 DEF Shaped
    <3> QED BY <1>4, <3>1, <3>2
  <2> QED BY <1>4, <2>1, <2>2 DEF CopyFits
<1>8. \A r \in Commands \ {p} : CopyFits(r)'
  BY <1>3, <1>4 DEF CopyFits
<1> QED BY <1>5, <1>6, <1>7, <1>8 DEF StoreInv

\* A write of contents that fit keeps the files in shape.
LEMMA WriteHolds ==
  ASSUME Shaped, ConfigResolves, NEW f \in Files, NEW new, NEW at, Write(f, new, at),
         f = "config" => new = Broken \/ Good(new),
         f = "devices" => new \in Stores \cup {Broken}
  PROVE  /\ disk' \in [config : Configs \cup {Broken}, devices : Stores \cup {Broken}]
         /\ version' \in [Files -> Nat]
         /\ ConfigResolves'
         /\ disk'[f] = new
         /\ \A g \in Files \ {f} : disk'[g] = disk[g] /\ version'[g] = version[g]
         /\ version'[f] = version[f] + 1
<1>1. /\ disk' = [disk EXCEPT ![f] = new]
      /\ version' = [version EXCEPT ![f] = @ + 1]
  BY DEF Write
<1>2. CASE f = "config"
  BY <1>1, <1>2 DEF Shaped, ConfigResolves, Good, Files
<1>3. CASE f = "devices"
  BY <1>1, <1>3 DEF Shaped, ConfigResolves, Files
<1> QED BY <1>2, <1>3 DEF Files

LEMMA SaveHolds ==
  ASSUME StoreInv, NEW p \in Commands, Save(p)
  PROVE  StoreInv'
<1> DEFINE f == FileOf(cmd[p].op)
<1>1. PICK new \in Results(cmd[p].op, cmd[p].copy[f]) : Write(f, new, cmd[p].at)
  BY DEF Save
<1>2. cmd[p].op \in Ops /\ f \in Files
  BY FileOfOp DEF Save
<1>3. Shaped /\ ConfigResolves /\ \A r \in Commands : CopyFits(r)
  BY DEF StoreInv
<1>4. f = "config" => Good(new)
  <2> SUFFICES ASSUME f = "config" PROVE Good(new) OBVIOUS
  <2>1. cmd[p].op \in ConfigOps BY <1>2, FileOfOp
  <2>2. Good(cmd[p].copy[f]) BY <1>3, <2>1 DEF CopyFits
  <2> HIDE DEF f
  <2> QED BY <1>1, <2>1, <2>2, ResultsResolve
<1>5. f = "devices" => new \in Stores
  <2> SUFFICES ASSUME f = "devices" PROVE new \in Stores OBVIOUS
  <2>1. cmd[p].op \in DeviceOps BY <1>2, FileOfOp
  <2>2. cmd[p].copy[f] \in Stores BY <1>3, <2>1 DEF CopyFits
  <2> HIDE DEF f
  <2> QED BY <1>1, <2>1, <2>2, ResultsRevoke
<1> HIDE DEF f
<1>6. /\ disk' \in [config : Configs \cup {Broken}, devices : Stores \cup {Broken}]
      /\ version' \in [Files -> Nat]
      /\ ConfigResolves'
  BY <1>1, <1>2, <1>3, <1>4, <1>5, WriteHolds
<1>7. /\ cmd'[p].op \in {"none", "hangup"}
      /\ cmd'[p].at \in Nat
      /\ \A r \in Commands \ {p} : cmd'[r] = cmd[r]
      /\ DOMAIN cmd' = Commands
      /\ cmd' = [r \in Commands |-> cmd'[r]]
  BY <1>3 DEF Save, Shaped, Idle
<1>8. Shaped'
  BY <1>3, <1>6, <1>7 DEF Shaped
<1>9. \A r \in Commands : CopyFits(r)'
  <2>1. CopyFits(p)'
    BY <1>7 DEF CopyFits, ConfigOps, DeviceOps
  <2>2. \A r \in Commands \ {p} : CopyFits(r)'
    BY <1>3, <1>7 DEF CopyFits
  <2> QED BY <2>1, <2>2
<1> QED BY <1>6, <1>8, <1>9 DEF StoreInv

LEMMA TearHolds ==
  ASSUME StoreInv, NEW p \in Commands, Tear(p)
  PROVE  StoreInv'
<1> DEFINE f == FileOf(cmd[p].op)
<1>1. PICK new \in Results(cmd[p].op, cmd[p].copy[f]) :
        cmd' = [cmd EXCEPT ![p] = [op |-> Mending[f], copy |-> [NoCopy EXCEPT ![f] = new],
                                  at |-> version[f] + 1]]
  BY DEF Tear
<1>2. cmd[p].op \in Ops /\ f \in Files /\ Write(f, Broken, cmd[p].at)
  BY FileOfOp DEF Tear, HandOps, Ops, ConfigOps, DeviceOps
<1>3. Shaped /\ ConfigResolves /\ \A r \in Commands : CopyFits(r)
  BY DEF StoreInv
<1>4. f = "config" => Good(new)
  <2> SUFFICES ASSUME f = "config" PROVE Good(new) OBVIOUS
  <2>1. cmd[p].op \in ConfigOps BY <1>2, FileOfOp
  <2>2. Good(cmd[p].copy[f]) BY <1>3, <2>1 DEF CopyFits
  <2> HIDE DEF f
  <2> QED BY <1>1, <2>1, <2>2, ResultsResolve
<1>5. f = "devices" => new \in Stores
  <2> SUFFICES ASSUME f = "devices" PROVE new \in Stores OBVIOUS
  <2>1. cmd[p].op \in DeviceOps BY <1>2, FileOfOp
  <2>2. cmd[p].copy[f] \in Stores BY <1>3, <2>1 DEF CopyFits
  <2> HIDE DEF f
  <2> QED BY <1>1, <2>1, <2>2, ResultsRevoke
<1> HIDE DEF f
<1>6. /\ disk' \in [config : Configs \cup {Broken}, devices : Stores \cup {Broken}]
      /\ version' \in [Files -> Nat]
      /\ ConfigResolves'
  BY <1>2, <1>3, WriteHolds
<1>7. /\ cmd'[p].op = Mending[f]
      /\ cmd'[p].copy[f] = new
      /\ cmd'[p].at = version[f] + 1
      /\ \A r \in Commands \ {p} : cmd'[r] = cmd[r]
      /\ DOMAIN cmd' = Commands
      /\ cmd' = [r \in Commands |-> cmd'[r]]
  BY <1>1, <1>2, <1>3 DEF Shaped, NoCopy
<1>8. Shaped'
  <2>1. version[f] + 1 \in Nat BY <1>2, <1>3 DEF Shaped
  <2> QED BY <1>3, <1>6, <1>7, <2>1 DEF Shaped
<1>9. CopyFits(p)'
  <2>1. CASE f = "config"
    BY <1>4, <1>7, <2>1 DEF CopyFits, Mending, Files, DeviceOps
  <2>2. CASE f = "devices"
    BY <1>5, <1>7, <2>2 DEF CopyFits, Mending, Files, ConfigOps
  <2> QED BY <1>2, <2>1, <2>2 DEF Files
<1>10. \A r \in Commands \ {p} : CopyFits(r)'
  BY <1>3, <1>7 DEF CopyFits
<1> QED BY <1>6, <1>8, <1>9, <1>10 DEF StoreInv

LEMMA MendHolds ==
  ASSUME StoreInv, NEW p \in Commands, Mend(p)
  PROVE  StoreInv'
<1> DEFINE f == FileOf(cmd[p].op)
<1>1. Shaped /\ ConfigResolves /\ \A r \in Commands : CopyFits(r)
  BY DEF StoreInv
<1>2. /\ cmd[p].op = Mending[f] /\ f \in Files
      /\ f = "config" => cmd[p].op = "mend config"
      /\ f = "devices" => cmd[p].op = "mend devices"
  <2>1. cmd[p].op = Mending[f] BY DEF Mend
  <2>2. f \in Files BY DEF FileOf, Files
  <2> HIDE DEF f
  <2> QED BY <2>1, <2>2 DEF Mending, Files
<1>3. /\ f = "config" => Good(cmd[p].copy[f])
      /\ f = "devices" => cmd[p].copy[f] \in Stores
  BY <1>1, <1>2 DEF CopyFits
<1>4. Write(f, cmd[p].copy[f], cmd[p].at) \/ UNCHANGED <<disk, version, clobbered>>
  BY DEF Mend
<1>5. cmd' = [cmd EXCEPT ![p] = Idle]
  BY DEF Mend
<1> HIDE DEF f
<1>6. /\ disk' \in [config : Configs \cup {Broken}, devices : Stores \cup {Broken}]
      /\ version' \in [Files -> Nat]
      /\ ConfigResolves'
  <2>1. CASE Write(f, cmd[p].copy[f], cmd[p].at)
    BY <1>1, <1>2, <1>3, <2>1, WriteHolds
  <2>2. CASE UNCHANGED <<disk, version, clobbered>>
    BY <1>1, <2>2 DEF Shaped, ConfigResolves
  <2> QED BY <1>4, <2>1, <2>2
<1>7. /\ cmd'[p] = Idle
      /\ \A r \in Commands \ {p} : cmd'[r] = cmd[r]
      /\ DOMAIN cmd' = Commands
      /\ cmd' = [r \in Commands |-> cmd'[r]]
  BY <1>1, <1>5 DEF Shaped
<1>8. Shaped'
  BY <1>1, <1>6, <1>7 DEF Shaped, Idle
<1>9. \A r \in Commands : CopyFits(r)'
  <2>1. CopyFits(p)'
    BY <1>7 DEF CopyFits, Idle, ConfigOps, DeviceOps
  <2>2. \A r \in Commands \ {p} : CopyFits(r)'
    BY <1>1, <1>7 DEF CopyFits
  <2> QED BY <2>1, <2>2
<1> QED BY <1>6, <1>8, <1>9 DEF StoreInv

\* Giving up and signalling the server leave the files alone.
LEMMA StopHolds ==
  ASSUME StoreInv, NEW p \in Commands, cmd' = [cmd EXCEPT ![p] = Idle],
         UNCHANGED <<disk, version>>
  PROVE  StoreInv'
<1>1. Shaped /\ ConfigResolves /\ \A r \in Commands : CopyFits(r)
  BY DEF StoreInv
<1>2. /\ cmd'[p] = Idle
      /\ \A r \in Commands \ {p} : cmd'[r] = cmd[r]
      /\ DOMAIN cmd' = Commands
      /\ cmd' = [r \in Commands |-> cmd'[r]]
  BY <1>1 DEF Shaped
<1>3. Shaped'
  BY <1>1, <1>2 DEF Shaped, Idle
<1>4. ConfigResolves'
  BY <1>1 DEF ConfigResolves
<1>5. \A r \in Commands : CopyFits(r)'
  BY <1>1, <1>2 DEF CopyFits, Idle, ConfigOps, DeviceOps
<1> QED BY <1>3, <1>4, <1>5 DEF StoreInv

\* A --revoke-all that reports goes on with the copy it has, or ends.
LEMMA AnnounceHolds ==
  ASSUME StoreInv, NEW p \in Commands, Announce(p)
  PROVE  StoreInv'
<1>1. Shaped /\ ConfigResolves /\ \A r \in Commands : CopyFits(r)
  BY DEF StoreInv
<1> DEFINE next == [op |-> "save all", copy |-> cmd[p].copy, at |-> cmd[p].at]
<1>2. /\ cmd[p].op = "revoke all"
      /\ UNCHANGED <<disk, version>>
      /\ cmd' = [cmd EXCEPT ![p] = next] \/ cmd' = [cmd EXCEPT ![p] = Idle]
  BY DEF Announce
<1>3. CASE cmd' = [cmd EXCEPT ![p] = Idle]
  BY <1>2, <1>3, StopHolds
<1>4. next.op = "save all" /\ next.copy = cmd[p].copy /\ next.at = cmd[p].at
  OBVIOUS
<1> HIDE DEF next
<1>5. CASE cmd' = [cmd EXCEPT ![p] = next]
  <2>1. /\ cmd'[p] = next
        /\ \A r \in Commands \ {p} : cmd'[r] = cmd[r]
        /\ DOMAIN cmd' = Commands
        /\ cmd' = [r \in Commands |-> cmd'[r]]
    BY <1>1, <1>5 DEF Shaped
  <2>2. Shaped'
    <3>1. cmd'[p].at = cmd[p].at BY <1>4, <2>1
    <3>2. \A r \in Commands : cmd'[r].at \in Nat BY <1>1, <2>1, <3>1, Zenon DEF Shaped
    <3> QED BY <1>1, <1>2, <2>1, <3>2 DEF Shaped
  <2>3. ConfigResolves'
    BY <1>1, <1>2 DEF ConfigResolves
  <2>4. CopyFits(p)'
    <3>1. cmd[p].op \in DeviceOps BY <1>2 DEF DeviceOps
    <3>2. cmd[p].copy["devices"] \in Stores BY <1>1, <3>1 DEF CopyFits
    <3>3. cmd'[p].op = "save all" /\ cmd'[p].copy = cmd[p].copy BY <1>4, <2>1
    <3>4. cmd'[p].op \notin ConfigOps \cup {"mend config"} BY <3>3 DEF ConfigOps
    <3> QED BY <3>2, <3>3, <3>4, Zenon DEF CopyFits
  <2>5. \A r \in Commands \ {p} : CopyFits(r)'
    BY <1>1, <2>1 DEF CopyFits
  <2> QED BY <2>2, <2>3, <2>4, <2>5 DEF StoreInv
<1> QED BY <1>2, <1>3, <1>5

LEMMA StoreStepHolds ==
  ASSUME StoreInv, [\E p \in Commands : Command(p) \/ Signalled(p)]_storeVars
  PROVE  StoreInv'
<1>1. ASSUME NEW p \in Commands, Command(p) PROVE StoreInv'
  <2>1. ASSUME NEW op \in Ops \ {"save all"}, Load(p, op) PROVE StoreInv'
    BY <2>1, LoadHolds
  <2>2. CASE Save(p) BY <2>2, SaveHolds
  <2>3. CASE Quit(p) BY <2>3, StopHolds DEF Quit
  <2>4. CASE Tear(p) BY <2>4, TearHolds
  <2>5. CASE Mend(p) BY <2>5, MendHolds
  <2>6. CASE Announce(p) BY <2>6, AnnounceHolds
  <2> QED BY <1>1, <2>1, <2>2, <2>3, <2>4, <2>5, <2>6 DEF Command
<1>2. ASSUME NEW p \in Commands, Signalled(p) PROVE StoreInv'
  BY <1>2, StopHolds DEF Signalled
<1>3. CASE UNCHANGED storeVars
  BY <1>3 DEF storeVars, StoreInv, Shaped, ConfigResolves, CopyFits
<1> QED BY <1>1, <1>2, <1>3

LEMMA StoreInvariant == StoreSpec => []StoreInv
<1>1. InitStore => StoreInv BY InitHolds
<1>2. StoreInv /\ [\E p \in Commands : Command(p) \/ Signalled(p)]_storeVars => StoreInv'
  BY StoreStepHolds
<1> QED BY <1>1, <1>2, PTL DEF StoreSpec

\* Whatever commands are run, on whatever stale copies, the configuration in
\* the file resolves (cli/providers.rs, cli/models.rs, cli/init.rs).
THEOREM ConfigurationResolves == StoreSpec => []ConfigResolves
<1>1. StoreInv => ConfigResolves BY DEF StoreInv
<1> QED BY <1>1, StoreInvariant, PTL

-----------------------------------------------------------------------------
(* Types: what the commands hold, report and overwrite.                      *)

CommandStates ==
  [op : Ops \cup {"none", "mend config", "mend devices", "hangup"}, copy : Copies, at : Nat]

HeldTypeOK ==
  /\ cmd \in [Commands -> CommandStates]
  /\ reported \subseteq Devices /\ unsaved \subseteq Devices
  /\ clobbered \subseteq Files

LEMMA TypeParts == StoreInv /\ HeldTypeOK => StoreTypeOK
BY DEF StoreInv, Shaped, HeldTypeOK, StoreTypeOK, CommandStates

LEMMA IdleIsHeld ==
  /\ Idle \in CommandStates
  /\ [Idle EXCEPT !.op = "hangup"] \in CommandStates
<1>1. NoCopy \in Copies
  BY DEF NoCopy, Copies, Files
<1> QED BY <1>1 DEF Idle, CommandStates

LEMMA CopyIsHeld ==
  ASSUME NEW f \in Files, NEW c, f = "config" => c \in Configs, f = "devices" => c \in Stores
  PROVE  [NoCopy EXCEPT ![f] = c] \in Copies
BY DEF Files, Copies, NoCopy

\* What a command makes of the copy it holds.
LEMMA EditsFit ==
  ASSUME StoreInv, NEW p \in Commands, NEW op \in Ops, op = cmd[p].op,
         NEW f, f = FileOf(op), NEW c, c = cmd[p].copy[f], NEW new \in Results(op, c)
  PROVE  /\ f \in Files
         /\ f = "config" => new \in Configs
         /\ f = "devices" => new \in Stores
         /\ Revokes(op, c, new) \subseteq Devices
<1>1. CopyFits(p)
  BY DEF StoreInv
<1>2. CASE op \in ConfigOps
  <2>1. f = "config" /\ Good(c)
    BY <1>1, <1>2, FileOfOp DEF CopyFits
  <2>2. Good(new)
    BY <1>2, <2>1, ResultsResolve
  <2>3. Revokes(op, c, new) = {}
    BY <1>2 DEF Revokes, ConfigOps
  <2> QED BY <2>1, <2>2, <2>3 DEF Good, Files
<1>3. CASE op \in DeviceOps
  <2>1. f = "devices" /\ c \in Stores
    BY <1>1, <1>3, FileOfOp DEF CopyFits
  <2>2. new \in Stores /\ \A d \in Revokes(op, c, new) : d \in Devices
    BY <1>3, <2>1, ResultsRevoke
  <2> QED BY <2>1, <2>2 DEF Files
<1> QED BY <1>2, <1>3 DEF Ops

LEMMA Overwrites ==
  ASSUME clobbered \subseteq Files, NEW f \in Files, NEW new, NEW at, Write(f, new, at)
  PROVE  clobbered' \subseteq Files
BY DEF Write

LEMMA HeldStep ==
  ASSUME StoreInv, HeldTypeOK, [\E p \in Commands : Command(p) \/ Signalled(p)]_storeVars
  PROVE  HeldTypeOK'
<1>1. Shaped /\ \A f \in Files : version[f] \in Nat
  BY DEF StoreInv, Shaped
<1>2. ASSUME NEW p \in Commands, NEW op \in Ops, Load(p, op) PROVE HeldTypeOK'
  <2> DEFINE f == FileOf(op)
  <2> DEFINE state == [op |-> op, copy |-> [NoCopy EXCEPT ![f] = disk[f]], at |-> version[f]]
  <2>1. f \in Files /\ disk[f] # Broken /\ cmd' = [cmd EXCEPT ![p] = state]
        /\ UNCHANGED <<reportVars, clobbered>>
    BY <1>2, FileOfOp DEF Load
  <2>2. (f = "config" => disk[f] \in Configs) /\ (f = "devices" => disk[f] \in Stores)
    BY <1>1, <2>1 DEF Shaped
  <2>3. state \in CommandStates
    <3> HIDE DEF f
    <3>1. [NoCopy EXCEPT ![f] = disk[f]] \in Copies
      BY <2>1, <2>2, CopyIsHeld
    <3> QED BY <1>1, <2>1, <3>1 DEF CommandStates
  <2> HIDE DEF state
  <2> QED BY <2>1, <2>3 DEF HeldTypeOK, reportVars
<1>3. ASSUME NEW p \in Commands, Save(p) PROVE HeldTypeOK'
  <2>1. PICK new \in Results(cmd[p].op, cmd[p].copy[FileOf(cmd[p].op)]) :
          /\ Write(FileOf(cmd[p].op), new, cmd[p].at)
          /\ reported' = reported \cup Revokes(cmd[p].op, cmd[p].copy[FileOf(cmd[p].op)], new)
          /\ unsaved' \subseteq unsaved
    BY <1>3 DEF Save
  <2>2. cmd[p].op \in Ops
    BY <1>3 DEF Save
  <2>3. /\ FileOf(cmd[p].op) \in Files
        /\ Revokes(cmd[p].op, cmd[p].copy[FileOf(cmd[p].op)], new) \subseteq Devices
    BY <2>2, EditsFit
  <2>4. reported' \subseteq Devices /\ unsaved' \subseteq Devices /\ clobbered' \subseteq Files
    BY <2>1, <2>3, Overwrites DEF HeldTypeOK
  <2>5. cmd' \in [Commands -> CommandStates]
    <3>1. cmd' = [cmd EXCEPT ![p] = IF cmd[p].op = "set ip"
                                    THEN [Idle EXCEPT !.op = "hangup"] ELSE Idle]
      BY <1>3 DEF Save
    <3> QED BY <3>1, IdleIsHeld DEF HeldTypeOK
  <2> QED BY <2>4, <2>5 DEF HeldTypeOK
<1>4. ASSUME NEW p \in Commands, Tear(p) PROVE HeldTypeOK'
  <2> DEFINE f == FileOf(cmd[p].op)
  <2>1. PICK new \in Results(cmd[p].op, cmd[p].copy[f]) :
          cmd' = [cmd EXCEPT ![p] = [op |-> Mending[f], copy |-> [NoCopy EXCEPT ![f] = new],
                                    at |-> version[f] + 1]]
    BY <1>4 DEF Tear
  <2>2. cmd[p].op \in Ops /\ Write(f, Broken, cmd[p].at) /\ UNCHANGED reportVars
    BY <1>4 DEF Tear, HandOps, Ops, ConfigOps, DeviceOps
  <2>3. f \in Files /\ (f = "config" => new \in Configs) /\ (f = "devices" => new \in Stores)
    BY <2>2, EditsFit
  <2>4. clobbered' \subseteq Files
    BY <2>2, <2>3, Overwrites DEF HeldTypeOK
  <2> DEFINE state == [op |-> Mending[f], copy |-> [NoCopy EXCEPT ![f] = new],
                       at |-> version[f] + 1]
  <2>5. state \in CommandStates
    <3> HIDE DEF f
    <3>1. [NoCopy EXCEPT ![f] = new] \in Copies
      BY <2>3, CopyIsHeld
    <3>2. Mending[f] \in {"mend config", "mend devices"}
      BY <2>3 DEF Mending
    <3>3. version[f] + 1 \in Nat
      BY <1>1, <2>3
    <3> QED BY <3>1, <3>2, <3>3 DEF CommandStates
  <2>6. cmd' = [cmd EXCEPT ![p] = state]
    BY <2>1
  <2> HIDE DEF state
  <2> QED BY <2>2, <2>4, <2>5, <2>6 DEF HeldTypeOK, reportVars
<1>5. ASSUME NEW p \in Commands, cmd' = [cmd EXCEPT ![p] = Idle],
             UNCHANGED reportVars, clobbered' \subseteq Files
      PROVE  HeldTypeOK'
  BY <1>5, IdleIsHeld DEF HeldTypeOK, reportVars
<1>6. ASSUME NEW p \in Commands, Mend(p) PROVE HeldTypeOK'
  <2>1. clobbered' \subseteq Files
    <3>1. FileOf(cmd[p].op) \in Files
      BY DEF FileOf, Files
    <3> QED BY <1>6, <3>1, Overwrites DEF Mend, HeldTypeOK
  <2> QED BY <1>5, <1>6, <2>1 DEF Mend
<1>7. ASSUME NEW p \in Commands, Quit(p) \/ Signalled(p) PROVE HeldTypeOK'
  BY <1>5, <1>7 DEF Quit, Signalled, HeldTypeOK
<1>8. CASE UNCHANGED storeVars
  BY <1>8 DEF storeVars, reportVars, HeldTypeOK
<1>9. ASSUME NEW p \in Commands, Announce(p) PROVE HeldTypeOK'
  <2>1. PICK told \in SUBSET Known(cmd[p].copy["devices"]) :
          /\ reported' = reported \cup told
          /\ unsaved' = unsaved \cup (told \ reported)
          /\ \/ cmd' = [cmd EXCEPT ![p] = [op |-> "save all", copy |-> cmd[p].copy,
                                           at |-> cmd[p].at]]
             \/ cmd' = [cmd EXCEPT ![p] = Idle]
    BY <1>9 DEF Announce
  <2>2. told \subseteq Devices /\ UNCHANGED clobbered
    BY <1>9, <2>1 DEF Announce, Known
  <2>3. [op |-> "save all", copy |-> cmd[p].copy, at |-> cmd[p].at] \in CommandStates
    BY DEF HeldTypeOK, CommandStates, Ops, DeviceOps
  <2>4. cmd' \in [Commands -> CommandStates]
    BY <2>1, <2>3, IdleIsHeld DEF HeldTypeOK
  <2> QED BY <2>1, <2>2, <2>4 DEF HeldTypeOK
<1> QED BY <1>2, <1>3, <1>4, <1>6, <1>7, <1>8, <1>9 DEF Command

\* The files, the copies and the reports keep their types: whatever is written is
\* a configuration, a store of devices or torn (config/native.rs, cli/).
THEOREM FilesAreTyped == StoreSpec => []StoreTypeOK
<1>1. InitStore => HeldTypeOK
  BY IdleIsHeld DEF InitStore, HeldTypeOK
<1>2. StoreInv /\ HeldTypeOK /\ [\E p \in Commands : Command(p) \/ Signalled(p)]_storeVars
        => HeldTypeOK'
  BY HeldStep
<1> QED BY <1>1, <1>2, TypeParts, StoreInvariant, PTL DEF StoreSpec

-----------------------------------------------------------------------------
(* Reported revocations.                                                     *)

\* What has been reported and is not a report of --revoke-all whose save is
\* still to come.
Kept == reported \ unsaved

\* A process that has read the device store as it is now holds what is in the
\* file, and an editor that has just torn it holds every revocation.
CopyKeeps(p) ==
  cmd[p].op \in DeviceOps \cup {"mend devices"} =>
    /\ cmd[p].at <= version["devices"]
    /\ cmd[p].at = version["devices"] =>
         IF cmd[p].op = "mend devices"
         THEN \A d \in Kept : cmd[p].copy["devices"][d] = "revoked"
         ELSE cmd[p].copy["devices"] = disk["devices"] /\ disk["devices"] # Broken

RevokedInv ==
  /\ Kept \subseteq Devices
  /\ "devices" \notin clobbered =>
       /\ disk["devices"] # Broken => \A d \in Kept : disk["devices"][d] = "revoked"
       /\ \A p \in Commands : CopyKeeps(p)

\* A process that has no device store in hand has nothing to keep.
LEMMA KeepsNothing ==
  ASSUME NEW p \in Commands, cmd'[p].op \notin DeviceOps \cup {"mend devices"}
  PROVE  CopyKeeps(p)'
BY Zenon DEF CopyKeeps

\* Once the store is written, no other process has read it as it is now.
LEMMA KeepsStale ==
  ASSUME NEW p \in Commands, CopyKeeps(p), cmd'[p] = cmd[p], cmd[p].at \in Nat,
         version["devices"] \in Nat, version'["devices"] = version["devices"] + 1
  PROVE  CopyKeeps(p)'
<1>1. CASE cmd[p].op \notin DeviceOps \cup {"mend devices"}
  <2>1. cmd'[p].op \notin DeviceOps \cup {"mend devices"} BY <1>1
  <2> QED BY <2>1, KeepsNothing
<1>2. CASE cmd[p].op \in DeviceOps \cup {"mend devices"}
  <2>1. cmd[p].at <= version["devices"] BY <1>2, Zenon DEF CopyKeeps
  <2>2. cmd'[p].at <= version'["devices"] /\ cmd'[p].at # version'["devices"]
    BY <2>1
  <2> QED BY <2>2, Zenon DEF CopyKeeps
<1> QED BY <1>1, <1>2

LEMMA RevokedInit == InitStore => RevokedInv
<1> SUFFICES ASSUME InitStore PROVE RevokedInv OBVIOUS
<1>1. \A p \in Commands : CopyKeeps(p)
  BY DEF InitStore, CopyKeeps, Idle, DeviceOps
<1> QED BY <1>1 DEF InitStore, RevokedInv, Kept

LEMMA RevokedLoad ==
  ASSUME StoreInv, RevokedInv, NEW p \in Commands, NEW op \in Ops, Load(p, op)
  PROVE  RevokedInv'
<1> DEFINE f == FileOf(op)
<1>1. f \in Files /\ disk[f] # Broken
  BY FileOfOp DEF Load
<1>2. /\ cmd' = [cmd EXCEPT ![p] = [op |-> op, copy |-> [NoCopy EXCEPT ![f] = disk[f]],
                                   at |-> version[f]]]
      /\ UNCHANGED <<disk, version, Kept, clobbered>>
  BY DEF Load, Kept, reportVars
<1>3. op \in DeviceOps => f = "devices"
  BY FileOfOp
<1>4. op # "mend devices"
  BY DEF Ops, ConfigOps, DeviceOps
<1>5. version["devices"] \in Nat /\ DOMAIN cmd = Commands
  BY DEF StoreInv, Shaped, Files
<1> HIDE DEF f
<1>6. /\ cmd'[p].op = op
      /\ cmd'[p].copy[f] = disk[f]
      /\ cmd'[p].at = version[f]
      /\ \A r \in Commands \ {p} : cmd'[r] = cmd[r]
  BY <1>1, <1>2, <1>5 DEF NoCopy
<1>7. CopyKeeps(p)'
  <2>1. CASE op \notin DeviceOps
    <3>1. cmd'[p].op \notin DeviceOps \cup {"mend devices"} BY <1>4, <1>6, <2>1
    <3> QED BY <3>1, KeepsNothing
  <2>2. CASE op \in DeviceOps
    <3>1. /\ cmd'[p].copy["devices"] = disk'["devices"] /\ disk'["devices"] # Broken
          /\ cmd'[p].op # "mend devices"
      BY <1>1, <1>2, <1>3, <1>4, <1>6, <2>2
    <3>2. cmd'[p].at <= version'["devices"]
      <4>1. cmd'[p].at = version["devices"] BY <1>3, <1>6, <2>2
      <4> QED BY <1>2, <1>5, <4>1
    <3> QED BY <3>1, <3>2, Zenon DEF CopyKeeps
  <2> QED BY <2>1, <2>2
<1>8. ASSUME NEW r \in Commands \ {p}, CopyKeeps(r) PROVE CopyKeeps(r)'
  BY <1>2, <1>6, <1>8 DEF CopyKeeps
<1> QED BY <1>2, <1>7, <1>8 DEF RevokedInv

LEMMA RevokedSave ==
  ASSUME StoreInv, RevokedInv, NEW p \in Commands, Save(p)
  PROVE  RevokedInv'
<1> DEFINE op == cmd[p].op
           f == FileOf(op)
           c == cmd[p].copy[f]
<1>1. PICK new \in Results(op, c) :
        Write(f, new, cmd[p].at) /\ Kept' = Kept \cup Revokes(op, c, new)
  BY DEF Save, Kept
<1>2. op \in Ops /\ f \in Files
  BY FileOfOp DEF Save
<1>3. Shaped /\ ConfigResolves /\ \A r \in Commands : CopyFits(r)
  BY DEF StoreInv
<1>4. /\ cmd'[p].op \in {"none", "hangup"}
      /\ \A r \in Commands \ {p} : cmd'[r] = cmd[r]
  BY <1>3 DEF Save, Shaped, Idle
<1>5. /\ disk' = [disk EXCEPT ![f] = new]
      /\ version' = [version EXCEPT ![f] = @ + 1]
      /\ clobbered' = IF cmd[p].at = version[f] THEN clobbered ELSE clobbered \cup {f}
  BY <1>1 DEF Write
<1>6. version["devices"] \in Nat /\ DOMAIN disk = Files /\ DOMAIN version = Files
  BY <1>3 DEF Shaped, Files
<1>7. CASE f = "config"
  <2>1. op \in ConfigOps BY <1>2, <1>7, FileOfOp
  <2>2. Revokes(op, c, new) = {} BY <2>1 DEF Revokes, ConfigOps
  <2>3. /\ disk'["devices"] = disk["devices"] /\ version'["devices"] = version["devices"]
        /\ Kept' = Kept
        /\ "devices" \notin clobbered' => "devices" \notin clobbered
    BY <1>1, <1>5, <1>6, <1>7, <2>2 DEF Files
  <2>4. CopyKeeps(p)'
    BY <1>4 DEF CopyKeeps, DeviceOps
  <2>5. ASSUME NEW r \in Commands \ {p}, CopyKeeps(r) PROVE CopyKeeps(r)'
    BY <1>4, <2>3, <2>5 DEF CopyKeeps
  <2> QED BY <2>3, <2>4, <2>5 DEF RevokedInv
<1>8. CASE f = "devices"
  <2>1. op \in DeviceOps /\ c \in Stores
    BY <1>2, <1>3, <1>8, FileOfOp DEF CopyFits
  <2> HIDE DEF op, f, c
  <2>2. /\ \A d \in Devices : c[d] = "revoked" => new[d] = "revoked"
        /\ \A d \in Revokes(op, c, new) : d \in Devices /\ new[d] = "revoked"
    BY <1>1, <2>1, ResultsRevoke
  <2>3. disk'["devices"] = new /\ version'["devices"] = version["devices"] + 1
    BY <1>5, <1>6, <1>8 DEF Files
  <2>4. Kept' \subseteq Devices
    BY <1>1, <2>2 DEF RevokedInv
  <2>5. SUFFICES ASSUME "devices" \notin clobbered'
                 PROVE  /\ \A d \in Kept' : new[d] = "revoked"
                        /\ \A r \in Commands : CopyKeeps(r)'
    BY <2>3, <2>4 DEF RevokedInv
  <2>6. cmd[p].at = version["devices"] /\ "devices" \notin clobbered
    BY <1>5, <1>8, <2>5
  <2>7. /\ disk["devices"] # Broken => \A d \in Kept : disk["devices"][d] = "revoked"
        /\ \A r \in Commands : CopyKeeps(r)
    BY <2>6 DEF RevokedInv
  <2>8. c = disk["devices"] /\ disk["devices"] # Broken
    <3>1. cmd[p].op \in DeviceOps /\ cmd[p].op # "mend devices"
      BY <2>1 DEF op, DeviceOps
    <3>2. c = cmd[p].copy["devices"] BY <1>8 DEF c
    <3>3. CopyKeeps(p) BY <2>7
    <3> QED BY <2>6, <3>1, <3>2, <3>3, Zenon DEF CopyKeeps
  <2>9. \A d \in Kept' : new[d] = "revoked"
    BY <1>1, <2>2, <2>7, <2>8 DEF RevokedInv
  <2>10. CopyKeeps(p)'
    BY <1>4 DEF CopyKeeps, DeviceOps
  <2>11. ASSUME NEW r \in Commands \ {p} PROVE CopyKeeps(r)'
    <3>1. CopyKeeps(r) /\ cmd'[r] = cmd[r] BY <1>4, <2>7
    <3>2. cmd[r].at \in Nat BY <1>3 DEF Shaped
    <3> QED BY <1>6, <2>3, <3>1, <3>2, KeepsStale
  <2> QED BY <2>9, <2>10, <2>11
<1> HIDE DEF f
<1> QED BY <1>2, <1>7, <1>8 DEF Files

LEMMA RevokedTear ==
  ASSUME StoreInv, RevokedInv, NEW p \in Commands, Tear(p)
  PROVE  RevokedInv'
<1> DEFINE op == cmd[p].op
           f == FileOf(op)
           c == cmd[p].copy[f]
<1>1. PICK new \in Results(op, c) :
        cmd' = [cmd EXCEPT ![p] = [op |-> Mending[f], copy |-> [NoCopy EXCEPT ![f] = new],
                                  at |-> version[f] + 1]]
  BY DEF Tear
<1>2. op \in HandOps /\ op \in Ops /\ f \in Files /\ Write(f, Broken, cmd[p].at)
      /\ Kept' = Kept
  BY FileOfOp DEF Tear, HandOps, Ops, ConfigOps, DeviceOps, Kept, reportVars
<1>3. Shaped /\ ConfigResolves /\ \A r \in Commands : CopyFits(r)
  BY DEF StoreInv
<1>4. /\ disk' = [disk EXCEPT ![f] = Broken]
      /\ version' = [version EXCEPT ![f] = @ + 1]
      /\ clobbered' = IF cmd[p].at = version[f] THEN clobbered ELSE clobbered \cup {f}
  BY <1>2 DEF Write
<1>5. version["devices"] \in Nat /\ DOMAIN disk = Files /\ DOMAIN version = Files
  BY <1>3 DEF Shaped, Files
<1>6. f = "devices" => op = "edit devices"
  BY <1>2, FileOfOp DEF HandOps, ConfigOps, FileOf
<1> HIDE DEF f
<1>7. /\ cmd'[p].op = Mending[f]
      /\ cmd'[p].copy[f] = new
      /\ cmd'[p].at = version[f] + 1
      /\ \A r \in Commands \ {p} : cmd'[r] = cmd[r]
  BY <1>1, <1>2, <1>3 DEF Shaped, NoCopy
<1>8. CASE f = "config"
  <2>1. /\ disk'["devices"] = disk["devices"] /\ version'["devices"] = version["devices"]
        /\ "devices" \notin clobbered' => "devices" \notin clobbered
    BY <1>4, <1>5, <1>8 DEF Files
  <2>2. CopyKeeps(p)'
    BY <1>7, <1>8 DEF CopyKeeps, DeviceOps, Mending, Files
  <2>3. ASSUME NEW r \in Commands \ {p}, CopyKeeps(r) PROVE CopyKeeps(r)'
    BY <1>2, <1>7, <2>1, <2>3 DEF CopyKeeps
  <2> QED BY <1>2, <2>1, <2>2, <2>3 DEF RevokedInv
<1>9. CASE f = "devices"
  <2>1. disk'["devices"] = Broken /\ version'["devices"] = version["devices"] + 1
    BY <1>4, <1>5, <1>9 DEF Files
  <2>2. op = "edit devices" /\ new = c
    BY <1>1, <1>6, <1>9 DEF Results, HandDevices
  <2>3. SUFFICES ASSUME "devices" \notin clobbered'
                 PROVE  \A r \in Commands : CopyKeeps(r)'
    BY <1>2, <2>1 DEF RevokedInv
  <2>4. cmd[p].at = version["devices"] /\ "devices" \notin clobbered
    BY <1>4, <1>9, <2>3
  <2>5. /\ disk["devices"] # Broken => \A d \in Kept : disk["devices"][d] = "revoked"
        /\ \A r \in Commands : CopyKeeps(r)
    BY <2>4 DEF RevokedInv
  <2>6. c = disk["devices"] /\ disk["devices"] # Broken
    BY <1>9, <2>2, <2>4, <2>5 DEF CopyKeeps, DeviceOps
  <2>7. CopyKeeps(p)'
    <3>1. cmd'[p].op = "mend devices" BY <1>7, <1>9 DEF Mending, Files
    <3>2. \A d \in Kept : new[d] = "revoked" BY <2>2, <2>5, <2>6
    <3>3. cmd'[p].at <= version'["devices"] BY <1>5, <1>7, <1>9, <2>1
    <3>4. \A d \in Kept' : cmd'[p].copy["devices"][d] = "revoked"
      BY <1>2, <1>7, <1>9, <3>2
    <3> QED BY <3>1, <3>3, <3>4, Zenon DEF CopyKeeps
  <2>8. ASSUME NEW r \in Commands \ {p} PROVE CopyKeeps(r)'
    <3>1. CopyKeeps(r) /\ cmd'[r] = cmd[r] BY <1>7, <2>5
    <3>2. cmd[r].at \in Nat BY <1>3 DEF Shaped
    <3> QED BY <1>2, <1>5, <2>1, <3>1, <3>2, KeepsStale
  <2> QED BY <2>7, <2>8
<1> QED BY <1>2, <1>8, <1>9 DEF Files

LEMMA RevokedMend ==
  ASSUME StoreInv, RevokedInv, NEW p \in Commands, Mend(p)
  PROVE  RevokedInv'
<1> DEFINE f == FileOf(cmd[p].op)
<1>1. cmd[p].op = Mending[f] /\ f \in Files /\ Kept' = Kept
  BY DEF Mend, FileOf, Files, Kept, reportVars
<1>2. \/ /\ cmd[p].at = version[f] /\ Write(f, cmd[p].copy[f], cmd[p].at)
      \/ UNCHANGED <<disk, version, clobbered>>
  BY DEF Mend
<1>3. cmd' = [cmd EXCEPT ![p] = Idle]
  BY DEF Mend
<1>4. Shaped /\ ConfigResolves /\ \A r \in Commands : CopyFits(r)
  BY DEF StoreInv
<1> HIDE DEF f
<1>5. cmd'[p] = Idle /\ \A r \in Commands \ {p} : cmd'[r] = cmd[r]
  BY <1>3, <1>4 DEF Shaped
<1>6. CopyKeeps(p)'
  BY <1>5 DEF CopyKeeps, Idle, DeviceOps
<1>7. version["devices"] \in Nat /\ DOMAIN disk = Files /\ DOMAIN version = Files
  BY <1>4 DEF Shaped, Files
<1>8. CASE UNCHANGED <<disk, version, clobbered>>
  <2>1. ASSUME NEW r \in Commands \ {p}, CopyKeeps(r) PROVE CopyKeeps(r)'
    BY <1>1, <1>5, <1>8, <2>1 DEF CopyKeeps
  <2> QED BY <1>1, <1>6, <1>8, <2>1 DEF RevokedInv
<1>9. CASE cmd[p].at = version[f] /\ Write(f, cmd[p].copy[f], cmd[p].at)
  <2>1. /\ disk' = [disk EXCEPT ![f] = cmd[p].copy[f]]
        /\ version' = [version EXCEPT ![f] = @ + 1]
        /\ clobbered' = clobbered
    BY <1>9 DEF Write
  <2>2. CASE f = "config"
    <3>1. disk'["devices"] = disk["devices"] /\ version'["devices"] = version["devices"]
      BY <1>7, <2>1, <2>2 DEF Files
    <3>2. ASSUME NEW r \in Commands \ {p}, CopyKeeps(r) PROVE CopyKeeps(r)'
      BY <1>1, <1>5, <3>1, <3>2 DEF CopyKeeps
    <3> QED BY <1>1, <1>6, <2>1, <3>1, <3>2 DEF RevokedInv
  <2>3. CASE f = "devices"
    <3>1. disk'["devices"] = cmd[p].copy["devices"]
          /\ version'["devices"] = version["devices"] + 1
      BY <1>7, <2>1, <2>3 DEF Files
    <3>2. cmd[p].op = "mend devices"
      BY <1>1, <2>3 DEF Mending, Files
    <3>3. SUFFICES ASSUME "devices" \notin clobbered
                   PROVE  /\ \A d \in Kept : cmd[p].copy["devices"][d] = "revoked"
                          /\ \A r \in Commands : CopyKeeps(r)'
      BY <1>1, <2>1, <3>1 DEF RevokedInv
    <3>4. \A r \in Commands : CopyKeeps(r)
      BY <3>3 DEF RevokedInv
    <3>5. \A d \in Kept : cmd[p].copy["devices"][d] = "revoked"
      BY <1>9, <2>3, <3>2, <3>4 DEF CopyKeeps
    <3>6. ASSUME NEW r \in Commands \ {p} PROVE CopyKeeps(r)'
      <4>1. CopyKeeps(r) /\ cmd'[r] = cmd[r] BY <1>5, <3>4
      <4>2. cmd[r].at \in Nat BY <1>4 DEF Shaped
      <4> QED BY <1>7, <3>1, <4>1, <4>2, KeepsStale
    <3> QED BY <1>6, <3>5, <3>6
  <2> QED BY <1>1, <2>2, <2>3 DEF Files
<1> QED BY <1>2, <1>8, <1>9

LEMMA RevokedStop ==
  ASSUME StoreInv, RevokedInv, NEW p \in Commands, cmd' = [cmd EXCEPT ![p] = Idle],
         UNCHANGED <<disk, version, Kept, clobbered>>
  PROVE  RevokedInv'
<1>1. cmd'[p] = Idle /\ \A r \in Commands \ {p} : cmd'[r] = cmd[r]
  BY DEF StoreInv, Shaped
<1>2. CopyKeeps(p)'
  <2>1. cmd'[p].op \notin DeviceOps \cup {"mend devices"}
    <3>1. cmd'[p].op = "none" BY <1>1 DEF Idle
    <3>2. "none" \notin DeviceOps \cup {"mend devices"} BY DEF DeviceOps
    <3> QED BY <3>1, <3>2
  <2> QED BY <2>1, KeepsNothing
<1>3. ASSUME NEW r \in Commands \ {p}, CopyKeeps(r) PROVE CopyKeeps(r)'
  BY <1>1, <1>3 DEF CopyKeeps
<1> QED BY <1>2, <1>3 DEF RevokedInv

\* What --revoke-all reports before it saves is not kept yet.
LEMMA RevokedAnnounce ==
  ASSUME StoreInv, RevokedInv, NEW p \in Commands, Announce(p)
  PROVE  RevokedInv'
<1> DEFINE next == [op |-> "save all", copy |-> cmd[p].copy, at |-> cmd[p].at]
<1>1. /\ cmd[p].op = "revoke all"
      /\ UNCHANGED <<disk, version, Kept, clobbered>>
      /\ cmd' = [cmd EXCEPT ![p] = next] \/ cmd' = [cmd EXCEPT ![p] = Idle]
  BY DEF Announce, Kept
<1>2. CASE cmd' = [cmd EXCEPT ![p] = Idle]
  BY <1>1, <1>2, RevokedStop
<1>3. next.op = "save all" /\ next.copy = cmd[p].copy /\ next.at = cmd[p].at
  OBVIOUS
<1> HIDE DEF next
<1>4. CASE cmd' = [cmd EXCEPT ![p] = next]
  <2>1. cmd'[p] = next /\ \A r \in Commands \ {p} : cmd'[r] = cmd[r]
    BY <1>4 DEF StoreInv, Shaped
  <2>2. ASSUME CopyKeeps(p) PROVE CopyKeeps(p)'
    <3>1. cmd'[p].op = "save all" /\ cmd'[p].at = cmd[p].at /\ cmd'[p].copy = cmd[p].copy
      BY <1>3, <2>1
    <3>2. cmd[p].op \in DeviceOps /\ cmd[p].op # "mend devices"
      BY <1>1 DEF DeviceOps
    <3>3. cmd'[p].op # "mend devices"
      BY <3>1
    <3> QED BY <1>1, <2>2, <3>1, <3>2, <3>3 DEF CopyKeeps
  <2>3. ASSUME NEW r \in Commands \ {p}, CopyKeeps(r) PROVE CopyKeeps(r)'
    BY <1>1, <2>1, <2>3 DEF CopyKeeps
  <2> QED BY <1>1, <2>2, <2>3 DEF RevokedInv
<1> QED BY <1>1, <1>2, <1>4

LEMMA RevokedNext ==
  ASSUME StoreInv, RevokedInv, [\E p \in Commands : Command(p) \/ Signalled(p)]_storeVars
  PROVE  RevokedInv'
<1>1. ASSUME NEW p \in Commands, Command(p) PROVE RevokedInv'
  <2>1. ASSUME NEW op \in Ops \ {"save all"}, Load(p, op) PROVE RevokedInv'
    BY <2>1, RevokedLoad
  <2>2. CASE Save(p) BY <2>2, RevokedSave
  <2>3. CASE Quit(p) BY <2>3, RevokedStop DEF Quit, Kept, reportVars
  <2>4. CASE Tear(p) BY <2>4, RevokedTear
  <2>5. CASE Mend(p) BY <2>5, RevokedMend
  <2>6. CASE Announce(p) BY <2>6, RevokedAnnounce
  <2> QED BY <1>1, <2>1, <2>2, <2>3, <2>4, <2>5, <2>6 DEF Command
<1>2. ASSUME NEW p \in Commands, Signalled(p) PROVE RevokedInv'
  BY <1>2, RevokedStop DEF Signalled, Kept, reportVars
<1>3. CASE UNCHANGED storeVars
  BY <1>3 DEF storeVars, reportVars, RevokedInv, CopyKeeps, Kept
<1> QED BY <1>1, <1>2, <1>3

\* A device that a command has reported as revoked is revoked in the file and
\* stays so, unless a command saved a copy older than the file, or the report is
\* one of --revoke-all and its save has not come (cli/devices.rs).
THEOREM RevocationsStick == StoreSpec => []RevocationSticks
<1>1. RevokedInv => RevocationSticks
  BY DEF RevokedInv, RevocationSticks, Kept
<1>2. InitStore => RevokedInv BY RevokedInit
<1>3. StoreInv /\ RevokedInv /\ [\E p \in Commands : Command(p) \/ Signalled(p)]_storeVars
        => RevokedInv'
  BY RevokedNext
<1> QED BY <1>1, <1>2, <1>3, StoreInvariant, PTL DEF StoreSpec

-----------------------------------------------------------------------------
(* The servers.                                                              *)

\* The steps of a server that change something of one server's state.
Action(s) == Start(s) \/ Claim(s) \/ Watch(s) \/ Bind(s) \/ Interrupt(s) \/ Wake(s)
             \/ CheckAndReload(s) \/ (pc[s] \in Alive /\ Kill(s))

StoreStep == [\E p \in Commands : Command(p) \/ Signalled(p)]_storeVars

\* A step is one of the commands', or one of a server's, which leaves the files
\* alone; a signal is a server's.
LEMMA StepKinds ==
  ASSUME [Next]_vars, pid \in Servers \cup {None}
  PROVE  /\ StoreStep
         /\ \/ UNCHANGED serverVars
            \/ UNCHANGED <<disk, version>> /\ \E s \in Servers : Action(s)
<1>1. Hangup => UNCHANGED serverVars \/ \E s \in Servers : Action(s)
  BY ServerAssumption DEF Hangup, Action, Alive, Starting
<1>2. ASSUME NEW p \in Commands, Command(p), UNCHANGED serverVars
      PROVE  StoreStep
  BY <1>2 DEF StoreStep
<1>3. ASSUME NEW p \in Commands, SignalAfterSetIp(p)
      PROVE  /\ StoreStep /\ UNCHANGED <<disk, version>>
             /\ UNCHANGED serverVars \/ \E s \in Servers : Action(s)
  BY <1>1, <1>3 DEF StoreStep, SignalAfterSetIp, Signalled
<1>4. ASSUME NEW s \in Servers, Server(s)
      PROVE  StoreStep /\ UNCHANGED <<disk, version>> /\ Action(s)
  BY <1>4 DEF Server, Watcher, Action, StoreStep, storeVars
<1>5. ASSUME Stop, UNCHANGED storeVars
      PROVE  StoreStep /\ UNCHANGED <<disk, version>> /\ \E s \in Servers : Action(s)
  BY <1>5 DEF Stop, Action, StoreStep, storeVars
<1>6. ASSUME Restart, UNCHANGED storeVars
      PROVE  /\ StoreStep /\ UNCHANGED <<disk, version>>
             /\ UNCHANGED serverVars \/ \E s \in Servers : Action(s)
  BY <1>1, <1>6 DEF Restart, StoreStep, storeVars
<1>7. CASE UNCHANGED vars
  BY <1>7 DEF vars, StoreStep
<1> QED BY <1>2, <1>3, <1>4, <1>5, <1>6, <1>7 DEF Next

\* A file whose modification time stays has the contents it had.
LEMMA FilesMove ==
  ASSUME StoreInv, StoreStep, NEW f \in Files
  PROVE  /\ version[f] \in Nat
         /\ \/ version'[f] = version[f] /\ disk'[f] = disk[f]
            \/ version'[f] = version[f] + 1
<1>1. Shaped BY DEF StoreInv
<1>2. version[f] \in Nat /\ f \in DOMAIN version /\ f \in DOMAIN disk
  BY <1>1 DEF Shaped, Files
<1>3. ASSUME NEW g, NEW new, NEW at, Write(g, new, at)
      PROVE  \/ version'[f] = version[f] /\ disk'[f] = disk[f]
             \/ version'[f] = version[f] + 1
  BY <1>2, <1>3 DEF Write
<1>4. ASSUME NEW p \in Commands, Command(p)
      PROVE  \/ UNCHANGED <<disk, version>>
             \/ \E g, new, at : Write(g, new, at)
  BY <1>4 DEF Command, Load, Announce, Save, Quit, Tear, Mend
<1>5. ASSUME NEW p \in Commands, Signalled(p) PROVE UNCHANGED <<disk, version>>
  BY <1>5 DEF Signalled
<1>6. UNCHANGED <<disk, version>> \/ \E g, new, at : Write(g, new, at)
  BY <1>4, <1>5 DEF StoreStep, storeVars
<1> QED BY <1>2, <1>3, <1>6

-----------------------------------------------------------------------------
(* The invariant: what a watcher has cached is no newer than the file, and a  *)
(* file as old as that, but for the gap of the start, is in memory.           *)

ServersShaped ==
  /\ DOMAIN pc = Servers /\ DOMAIN cached = Servers /\ DOMAIN mem = Servers
  /\ DOMAIN blind = Servers /\ DOMAIN stat = Servers
  /\ \A s \in Servers : DOMAIN cached[s] = Files /\ DOMAIN mem[s] = Files
  /\ pid \in Servers \cup {None}

\* A watcher compares a file with a time that it has had.
SeenBefore(s) ==
  /\ \A f \in Files : cached[s][f] \in Nat /\ cached[s][f] <= version[f]
  /\ stat[s] \in Nat
  /\ pc[s] \in Files => stat[s] <= version[pc[s]]

Current(s) ==
  /\ pc[s] \in {"off", "loaded", "claimed"} => blind[s] = {}
  /\ pc[s] \in Alive => \A f \in Files \ blind[s] :
       cached[s][f] = version[f] => mem[s][f] = disk[f]

WatchInv ==
  /\ ServersShaped
  /\ \A s \in Servers : SeenBefore(s) /\ Current(s)

LEMMA WatchInit == Init => WatchInv
<1> SUFFICES ASSUME Init PROVE WatchInv OBVIOUS
<1>1. ServersShaped
  BY DEF Init, ServersShaped, Default, Files
<1>2. \A s \in Servers : SeenBefore(s)
  BY DEF Init, InitStore, SeenBefore, Files
<1>3. \A s \in Servers : Current(s)
  BY DEF Init, Current, Alive, Starting, Serving
<1> QED BY <1>1, <1>2, <1>3 DEF WatchInv

\* Whatever the commands write, the servers' state fits the files.
LEMMA WatchStays ==
  ASSUME StoreInv, WatchInv, StoreStep, UNCHANGED serverVars
  PROVE  WatchInv'
<1>1. ServersShaped'
  BY DEF WatchInv, ServersShaped, serverVars
<1>2. ASSUME NEW s \in Servers PROVE SeenBefore(s)'
  <2>1. SeenBefore(s) BY DEF WatchInv
  <2>2. \A f \in Files : version[f] \in Nat /\ version'[f] \in Nat /\ version[f] <= version'[f]
    BY FilesMove
  <2>3. \A f \in Files : cached'[s][f] \in Nat /\ cached'[s][f] <= version'[f]
    BY <2>1, <2>2 DEF SeenBefore, serverVars
  <2>4. pc'[s] \in Files => stat'[s] <= version'[pc'[s]]
    BY <2>1, <2>2 DEF SeenBefore, serverVars
  <2>5. stat'[s] \in Nat BY <2>1 DEF SeenBefore, serverVars
  <2> QED BY <2>3, <2>4, <2>5 DEF SeenBefore
<1>3. ASSUME NEW s \in Servers PROVE Current(s)'
  <2>1. SeenBefore(s) /\ Current(s) BY DEF WatchInv
  <2>2. pc' = pc /\ blind' = blind /\ cached' = cached /\ mem' = mem BY DEF serverVars
  <2>3. ASSUME NEW f \in Files \ blind[s], pc[s] \in Alive, cached[s][f] = version'[f]
        PROVE  mem[s][f] = disk'[f]
    <3>1. cached[s][f] \in Nat /\ cached[s][f] <= version[f] BY <2>1 DEF SeenBefore
    <3>2. version'[f] = version[f] /\ disk'[f] = disk[f]
      BY <2>3, <3>1, FilesMove
    <3> QED BY <2>1, <2>3, <3>2 DEF Current
  <2> QED BY <2>1, <2>2, <2>3 DEF Current
<1> QED BY <1>1, <1>2, <1>3 DEF WatchInv

\* A reload puts into memory what is in the file, and caches the time from
\* before.
LEMMA WatchActs ==
  ASSUME StoreInv, WatchInv, NEW s \in Servers, Action(s), UNCHANGED <<disk, version>>
  PROVE  WatchInv'
<1>1. ServersShaped /\ SeenBefore(s) /\ Current(s)
      /\ \A r \in Servers : SeenBefore(r) /\ Current(r)
  BY DEF WatchInv
<1>2. DOMAIN disk = Files /\ DOMAIN version = Files /\ \A f \in Files : version[f] \in Nat
  BY DEF StoreInv, Shaped, Files
<1>3. \A r \in Servers \ {s} : /\ pc'[r] = pc[r] /\ cached'[r] = cached[r] /\ mem'[r] = mem[r]
                             /\ blind'[r] = blind[r] /\ stat'[r] = stat[r]
  BY <1>1 DEF Action, Start, Claim, Watch, Bind, Interrupt, Wake, CheckAndReload, Kill,
              Reload, Swap, ServersShaped
<1>4. \A r \in Servers \ {s} : SeenBefore(r)' /\ Current(r)'
  BY <1>1, <1>3 DEF SeenBefore, Current
<1>5. ServersShaped' /\ SeenBefore(s)' /\ Current(s)'
  <2>1. CASE Start(s)
    <3>1. /\ ServersShaped' /\ pc'[s] = "loaded" /\ mem'[s] = disk /\ cached'[s] = version
          /\ blind' = blind /\ stat' = stat /\ pc[s] = "off"
      BY <1>1, <1>2, <2>1 DEF Start, ServersShaped
    <3>2. SeenBefore(s)'
      BY <1>1, <1>2, <3>1 DEF SeenBefore, Files
    <3>3. Current(s)'
      BY <1>1, <3>1 DEF Current
    <3> QED BY <3>1, <3>2, <3>3
  <2>2. CASE Claim(s)
    <3>1. /\ ServersShaped' /\ pc[s] = "loaded" /\ pc'[s] = "claimed"
          /\ UNCHANGED <<mem, cached, blind, stat>>
      BY <1>1, <2>2 DEF Claim, ServersShaped
    <3>2. SeenBefore(s)' BY <1>1, <3>1 DEF SeenBefore, Files
    <3>3. Current(s)' BY <1>1, <3>1 DEF Current, Alive, Starting, Serving
    <3> QED BY <3>1, <3>2, <3>3
  <2>3. CASE Watch(s)
    <3>1. /\ ServersShaped' /\ pc[s] = "claimed" /\ pc'[s] = "watched"
          /\ blind'[s] = {f \in Files : cached[s][f] # version[f]} /\ cached'[s] = version
          /\ UNCHANGED <<mem, stat>>
      BY <1>1, <1>2, <2>3 DEF Watch, ServersShaped
    <3>2. SeenBefore(s)' BY <1>1, <1>2, <3>1 DEF SeenBefore, Files
    <3>3. Current(s)' BY <1>1, <3>1 DEF Current, Alive, Starting, Serving
    <3> QED BY <3>1, <3>2, <3>3
  <2>4. CASE Bind(s)
    <3>1. /\ ServersShaped' /\ pc[s] = "watched" /\ pc'[s] \in {"ended", "idle"}
          /\ UNCHANGED <<mem, cached, blind, stat>>
      BY <1>1, <2>4 DEF Bind, ServersShaped
    <3>2. SeenBefore(s)' BY <1>1, <3>1 DEF SeenBefore, Files
    <3>3. Current(s)' BY <1>1, <3>1 DEF Current, Alive, Starting, Serving
    <3> QED BY <3>1, <3>2, <3>3
  <2>5. CASE Interrupt(s) \/ Kill(s)
    <3>1. /\ ServersShaped' /\ pc'[s] \in {"ended", "dead"}
          /\ UNCHANGED <<mem, cached, blind, stat>>
      BY <1>1, <2>5 DEF Interrupt, Kill, ServersShaped
    <3>2. SeenBefore(s)' BY <1>1, <3>1 DEF SeenBefore, Files
    <3>3. Current(s)' BY <3>1 DEF Current, Alive, Starting, Serving
    <3> QED BY <3>1, <3>2, <3>3
  <2>6. CASE Wake(s)
    <3>1. /\ ServersShaped' /\ pc[s] = "idle" /\ pc'[s] = "config"
          /\ stat'[s] = version["config"] /\ UNCHANGED <<mem, cached, blind>>
      BY <1>1, <2>6 DEF Wake, ServersShaped
    <3>2. SeenBefore(s)' BY <1>1, <1>2, <3>1 DEF SeenBefore, Files
    <3>3. Current(s)' BY <1>1, <3>1 DEF Current, Alive, Starting, Serving
    <3> QED BY <3>1, <3>2, <3>3
  <2>7. CASE CheckAndReload(s)
    <3> DEFINE g == pc[s]
    <3>1. /\ g \in Files /\ Reload(s, g)
          /\ pc'[s] = AfterFile[g] /\ UNCHANGED pid
          /\ stat'[s] = IF AfterFile[g] \in Files THEN version[AfterFile[g]] ELSE stat[s]
          /\ DOMAIN pc' = Servers /\ DOMAIN stat' = Servers
      BY <1>1, <2>7 DEF CheckAndReload, ServersShaped
    <3>2. /\ stat[s] \in Nat /\ stat[s] <= version[g]
          /\ \A f \in Files : cached[s][f] \in Nat /\ cached[s][f] <= version[f]
      BY <1>1, <3>1 DEF SeenBefore
    <3>3. pc'[s] \in Files => pc'[s] = "devices" /\ stat'[s] = version["devices"]
      BY <3>1 DEF AfterFile, Files
    <3>4. stat'[s] \in Nat /\ (pc'[s] \in Files => stat'[s] <= version[pc'[s]])
      BY <1>2, <3>1, <3>2, <3>3 DEF Files
    <3>5. /\ pc[s] \in Alive /\ pc'[s] \in {"devices", "idle"}
          /\ pc'[s] \notin {"off", "loaded", "claimed"}
      BY <3>1 DEF AfterFile, Files, Alive, Starting, Serving
    <3> HIDE DEF g
    <3>6. CASE UNCHANGED <<mem, blind, cached>>
      <4>1. ServersShaped' BY <1>1, <3>1, <3>6 DEF ServersShaped
      <4>2. SeenBefore(s)' BY <3>2, <3>4, <3>6 DEF SeenBefore
      <4>3. Current(s)' BY <1>1, <3>5, <3>6 DEF Current
      <4> QED BY <4>1, <4>2, <4>3
    <3>7. CASE Swap(s, g) /\ cached' = [cached EXCEPT ![s][g] = stat[s]]
      <4>1. /\ mem'[s][g] = disk[g] /\ cached'[s][g] = stat[s]
            /\ blind'[s] = blind[s] \ {g}
            /\ \A f \in Files \ {g} : mem'[s][f] = mem[s][f] /\ cached'[s][f] = cached[s][f]
        BY <1>1, <3>1, <3>7 DEF Swap, ServersShaped
      <4>2. ServersShaped' BY <1>1, <3>1, <3>7 DEF ServersShaped, Swap
      <4>3. SeenBefore(s)' BY <3>1, <3>2, <3>4, <4>1 DEF SeenBefore
      <4>4. Current(s)' BY <1>1, <3>5, <4>1 DEF Current
      <4> QED BY <4>2, <4>3, <4>4
    <3> QED BY <3>1, <3>6, <3>7 DEF Reload
  <2> QED BY <2>1, <2>2, <2>3, <2>4, <2>5, <2>6, <2>7 DEF Action
<1> QED BY <1>4, <1>5 DEF WatchInv

\* A step of the whole is a step of the store, and keeps both invariants.
LEMMA WatchNext ==
  ASSUME StoreInv, WatchInv, [Next]_vars
  PROVE  /\ WatchInv'
         /\ StoreInv'
         /\ [\E p \in Commands : Command(p) \/ Signalled(p)]_storeVars
<1>1. pid \in Servers \cup {None} BY DEF WatchInv, ServersShaped
<1>2. /\ StoreStep
      /\ \/ UNCHANGED serverVars
         \/ UNCHANGED <<disk, version>> /\ \E s \in Servers : Action(s)
  BY <1>1, StepKinds
<1>3. WatchInv' BY <1>2, WatchStays, WatchActs
<1>4. StoreInv' BY <1>2, StoreStepHolds DEF StoreStep
<1> QED BY <1>2, <1>3, <1>4 DEF StoreStep

LEMMA WatchInvariant == Spec => [](StoreInv /\ WatchInv)
<1>1. Init => StoreInv /\ WatchInv BY InitHolds, WatchInit DEF Init
<1>2. StoreInv /\ WatchInv /\ [Next]_vars => (StoreInv /\ WatchInv)' BY WatchNext
<1> QED BY <1>1, <1>2, PTL DEF Spec

\* Servers leave the files to the commands, so that what holds of the store
\* holds beside them (config/reload.rs, cli/server.rs).
THEOREM ServersAreReaders == Spec => StoreSpec
<1>1. Init => InitStore BY DEF Init
<1>2. StoreInv /\ WatchInv /\ [Next]_vars
        => [\E p \in Commands : Command(p) \/ Signalled(p)]_storeVars
  BY WatchNext
<1> QED BY <1>1, <1>2, WatchInvariant, PTL DEF Spec, StoreSpec

\* A server whose watcher has nothing left to notice has the contents of the
\* file, unless the file changed between its load and the watcher's first look
\* (config/reload.rs).
THEOREM ServersAreCurrent == Spec => []ServerIsCurrent
<1>1. WatchInv => ServerIsCurrent
  BY DEF WatchInv, Current, ServerIsCurrent, Alive
<1> QED BY <1>1, WatchInvariant, PTL

-----------------------------------------------------------------------------
(* The pid file.                                                             *)

\* The server that is alone in its life is, once it has claimed it, in the file.
Claimed(s) == pc[s] \in Alive \ {"loaded"} => pid = s

PidInv ==
  /\ alone \subseteq Servers
  /\ \A s \in alone :
       /\ pc[s] # "off"
       /\ pc[s] \in Alive => (\A t \in Servers \ {s} : pc[t] \notin Alive) /\ Claimed(s)

LEMMA PidActs ==
  ASSUME ServersShaped, PidInv, NEW s \in Servers, Action(s)
  PROVE  PidInv'
<1>1. /\ \A r \in Servers \ {s} : pc'[r] = pc[r]
      /\ DOMAIN pc = Servers
  BY DEF Action, Start, Claim, Watch, Bind, Interrupt, Wake, CheckAndReload, Kill, ServersShaped
<1>2. CASE Start(s)
  <2>1. /\ pc'[s] = "loaded" /\ pid' = pid
        /\ alone' = (alone \ Others(s)) \cup (IF Others(s) = {} THEN {s} ELSE {})
    BY <1>1, <1>2 DEF Start
  <2>2. alone' \subseteq Servers BY <2>1 DEF PidInv
  <2>3. s \notin alone BY <1>2 DEF PidInv, Start
  <2>4. ASSUME NEW r \in alone' PROVE pc'[r] # "off"
    <3>1. r = s \/ (r # s /\ r \in alone) BY <2>1, <2>4
    <3> QED BY <1>1, <2>1, <3>1 DEF PidInv
  <2>5. ASSUME NEW r \in alone', pc'[r] \in Alive
        PROVE  (\A t \in Servers \ {r} : pc'[t] \notin Alive) /\ Claimed(r)'
    <3>1. CASE r = s
      <4>1. Others(s) = {} BY <2>1, <2>3, <2>5, <3>1
      <4> QED BY <1>1, <2>1, <3>1, <4>1 DEF Others, Claimed
    <3>2. CASE r # s
      <4>1. r \in Servers /\ r \notin Others(s) BY <2>1, <2>2, <2>5, <3>2
      <4>2. pc[r] \in Alive BY <1>1, <2>5, <3>2, <4>1
      <4> QED BY <3>2, <4>1, <4>2 DEF Others
    <3> QED BY <3>1, <3>2
  <2> QED BY <2>2, <2>4, <2>5 DEF PidInv
<1>3. CASE ~Start(s)
  <2>1. /\ alone' = alone /\ pc[s] \in Alive /\ pc'[s] # "off"
        /\ pc'[s] \in Alive => pid' = pid \/ pid' = s
        /\ pc'[s] \in Alive /\ pc[s] = "loaded" => pid' = s
    <3>1. CASE Claim(s) BY <1>1, <3>1 DEF Claim, Alive, Starting
    <3>2. CASE Watch(s) BY <1>1, <3>2 DEF Watch, Alive, Starting
    <3>3. CASE Bind(s) BY <1>1, <3>3 DEF Bind, Alive, Starting, Serving
    <3>4. CASE Interrupt(s) \/ (pc[s] \in Alive /\ Kill(s))
      BY <1>1, <3>4 DEF Interrupt, Kill, Alive, Starting, Serving
    <3>5. CASE Wake(s) BY <1>1, <3>5 DEF Wake, Alive, Serving
    <3>6. CASE CheckAndReload(s)
      BY <1>1, <3>6 DEF CheckAndReload, Alive, Serving, Files, AfterFile
    <3> QED BY <1>3, <3>1, <3>2, <3>3, <3>4, <3>5, <3>6 DEF Action
  <2>2. ASSUME NEW r \in alone', pc'[r] \in Alive
        PROVE  (\A t \in Servers \ {r} : pc'[t] \notin Alive) /\ Claimed(r)'
    <3>1. r \in alone /\ r \in Servers BY <2>1 DEF PidInv
    <3>2. r = s BY <1>1, <2>1, <2>2, <3>1 DEF PidInv
    <3>3. /\ \A t \in Servers \ {s} : pc[t] \notin Alive
          /\ Claimed(s)
      BY <2>1, <3>1, <3>2 DEF PidInv
    <3>4. pc'[s] \in Alive /\ pid' = s
      <4>1. pc'[s] \in Alive BY <2>2, <3>2
      <4>2. (pid' = pid \/ pid' = s) /\ (pc[s] = "loaded" => pid' = s) BY <2>1, <4>1, Zenon
      <4>3. pc[s] # "loaded" => pid = s BY <2>1, <3>3 DEF Claimed
      <4> QED BY <4>1, <4>2, <4>3
    <3> QED BY <1>1, <3>2, <3>3, <3>4 DEF Claimed
  <2>3. \A r \in alone' : pc'[r] # "off"
    BY <1>1, <2>1 DEF PidInv
  <2> QED BY <2>1, <2>2, <2>3 DEF PidInv
<1> QED BY <1>2, <1>3

\* Unless other servers were started in its life, a server that listens is the
\* one the pid file names, the one --stop and --restart find (config/pid.rs).
THEOREM PidNamesTheServer == Spec => []PidFindsServer
<1>1. Init => PidInv BY DEF Init, PidInv
<1>2. WatchInv /\ PidInv /\ [Next]_vars
        => PidInv'
  <2> SUFFICES ASSUME WatchInv, PidInv, [Next]_vars
               PROVE  PidInv'
    OBVIOUS
  <2>1. ServersShaped BY DEF WatchInv
  <2>2. CASE UNCHANGED serverVars
    BY <2>2 DEF PidInv, Claimed, serverVars
  <2>3. ASSUME NEW s \in Servers, Action(s) PROVE PidInv'
    BY <2>1, <2>3, PidActs
  <2>4. \/ UNCHANGED serverVars
        \/ \E s \in Servers : Action(s)
    BY <2>1, StepKinds DEF ServersShaped
  <2> QED BY <2>2, <2>3, <2>4
<1>3. PidInv => PidFindsServer
  BY DEF PidInv, Claimed, PidFindsServer, Alive, Starting, Serving
<1> QED BY <1>1, <1>2, <1>3, WatchInvariant, PTL DEF Spec
-----------------------------------------------------------------------------
(* Types.                                                                    *)

ServerTypeOK ==
  /\ pc \in [Servers -> Alive \cup {"off", "dead", "ended"}]
  /\ mem \in [Servers -> Contents]
  /\ cached \in [Servers -> [Files -> Nat]]
  /\ blind \in [Servers -> SUBSET Files]
  /\ stat \in [Servers -> Nat]
  /\ addr \in [Servers -> Binds]
  /\ pid \in Servers \cup {None}
  /\ alone \subseteq Servers

\* What a server loads is a file that parses.
LEMMA LoadedFits ==
  ASSUME StoreTypeOK
  PROVE  /\ (\A f \in Files : disk[f] # Broken) => disk \in Contents /\ disk.config.bind \in Binds
         /\ \A s \in Servers, f \in Files :
              mem \in [Servers -> Contents] /\ disk[f] # Broken
                => [mem EXCEPT ![s][f] = disk[f]] \in [Servers -> Contents]
<1>1. /\ disk \in [config : Configs \cup {Broken}, devices : Stores \cup {Broken}]
      /\ disk["config"] = disk.config /\ disk["devices"] = disk.devices
  BY DEF StoreTypeOK
<1>2. ASSUME \A f \in Files : disk[f] # Broken
      PROVE  disk \in Contents /\ disk.config.bind \in Binds
  <2>1. disk.config \in Configs /\ disk.devices \in Stores
    BY <1>1, <1>2 DEF Files
  <2>2. disk.config.bind \in Binds
    BY <2>1 DEF Configs
  <2>3. disk \in Contents
    BY <1>1, <2>1 DEF Contents
  <2> QED BY <2>2, <2>3
<1>3. ASSUME NEW s \in Servers, NEW f \in Files, mem \in [Servers -> Contents], disk[f] # Broken
      PROVE  [mem EXCEPT ![s][f] = disk[f]] \in [Servers -> Contents]
  <2>1. mem[s] \in Contents
    BY <1>3
  <2>2. [mem[s] EXCEPT ![f] = disk[f]] \in Contents
    <3>1. CASE f = "config"
      BY <1>1, <1>3, <2>1, <3>1 DEF Contents
    <3>2. CASE f = "devices"
      BY <1>1, <1>3, <2>1, <3>2 DEF Contents
    <3> QED BY <3>1, <3>2 DEF Files
  <2> QED BY <1>3, <2>2
<1> QED BY <1>2, <1>3

LEMMA ServerTypeActs ==
  ASSUME StoreTypeOK, ServerTypeOK, NEW s \in Servers, Action(s)
  PROVE  ServerTypeOK'
<1>1. version \in [Files -> Nat]
  BY DEF StoreTypeOK
<1>2. CASE Start(s)
  <2>1. disk \in Contents /\ disk.config.bind \in Binds
    BY <1>2, LoadedFits DEF Start
  <2>2. alone' \subseteq Servers
    BY <1>2 DEF Start, ServerTypeOK
  <2> QED BY <1>1, <1>2, <2>1, <2>2 DEF Start, ServerTypeOK, Alive, Starting
<1>3. CASE Claim(s)
  BY <1>3 DEF Claim, ServerTypeOK, Alive, Starting
<1>4. CASE Watch(s)
  <2>1. {f \in Files : cached[s][f] # version[f]} \in SUBSET Files
    OBVIOUS
  <2> QED BY <1>1, <1>4, <2>1 DEF Watch, ServerTypeOK, Alive, Starting
<1>5. CASE Bind(s)
  BY <1>5 DEF Bind, ServerTypeOK, Alive, Serving
<1>6. CASE Interrupt(s) \/ (pc[s] \in Alive /\ Kill(s))
  BY <1>6 DEF Interrupt, Kill, ServerTypeOK
<1>7. CASE Wake(s)
  <2>1. version["config"] \in Nat
    BY <1>1 DEF Files
  <2> QED BY <1>7, <2>1 DEF Wake, ServerTypeOK, Alive, Serving
<1>8. CASE CheckAndReload(s)
  <2> DEFINE next == AfterFile[pc[s]]
  <2>1. /\ pc[s] \in Files /\ Reload(s, pc[s]) /\ UNCHANGED <<addr, pid, alone>>
        /\ pc' = [pc EXCEPT ![s] = next]
        /\ stat' = [stat EXCEPT ![s] = IF next \in Files THEN version[next] ELSE stat[s]]
    BY <1>8 DEF CheckAndReload
  <2>2. next \in Alive
    BY <2>1 DEF AfterFile, Files, Alive, Serving
  <2> HIDE DEF next
  <2>3. stat' \in [Servers -> Nat]
    BY <1>1, <2>1 DEF ServerTypeOK
  <2>4. mem' \in [Servers -> Contents]
    <3>1. CASE UNCHANGED mem
      BY <3>1 DEF ServerTypeOK
    <3>2. CASE disk[pc[s]] # Broken /\ Swap(s, pc[s])
      BY <2>1, <3>2, LoadedFits DEF Swap, ServerTypeOK
    <3> QED BY <2>1, <3>1, <3>2 DEF Reload
  <2>5. blind' \in [Servers -> SUBSET Files] /\ cached' \in [Servers -> [Files -> Nat]]
    <3>1. CASE UNCHANGED <<mem, blind, cached>>
      BY <3>1 DEF ServerTypeOK
    <3>2. CASE Swap(s, pc[s]) /\ cached' = [cached EXCEPT ![s][pc[s]] = stat[s]]
      BY <2>1, <3>2 DEF Swap, ServerTypeOK
    <3> QED BY <2>1, <3>1, <3>2 DEF Reload
  <2> QED BY <2>1, <2>2, <2>3, <2>4, <2>5 DEF ServerTypeOK
<1> QED BY <1>2, <1>3, <1>4, <1>5, <1>6, <1>7, <1>8 DEF Action

\* Every variable of the files, the commands and the servers keeps its type: a
\* server holds no torn file, and server.pid names a server (config/reload.rs,
\* config/pid.rs).
THEOREM TypeCorrect == Spec => []TypeOK
<1>1. Init => ServerTypeOK
  <2>1. Default \in Contents
    BY DefaultResolves DEF Default, Contents, Good, Stores
  <2> QED BY <2>1, StoreAssumption DEF Init, ServerTypeOK
<1>2. StoreTypeOK /\ ServerTypeOK /\ [Next]_vars => ServerTypeOK'
  <2> SUFFICES ASSUME StoreTypeOK, ServerTypeOK, [Next]_vars PROVE ServerTypeOK'
    OBVIOUS
  <2>1. UNCHANGED serverVars \/ \E s \in Servers : Action(s)
    BY StepKinds DEF ServerTypeOK
  <2>2. CASE UNCHANGED serverVars
    BY <2>2 DEF serverVars, ServerTypeOK
  <2> QED BY <2>1, <2>2, ServerTypeActs
<1>3. StoreTypeOK /\ ServerTypeOK => TypeOK
  BY DEF TypeOK, ServerTypeOK
<1> QED BY <1>1, <1>2, <1>3, ServersAreReaders, FilesAreTyped, PTL DEF Spec
=============================================================================
