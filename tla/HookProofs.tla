----------------------------- MODULE HookProofs -----------------------------
(***************************************************************************)
(* Proofs of the safety properties of HookScripts, for any set of cards of *)
(* the known vendors, whether or not vfio-pci has the devices since the    *)
(* boot, and whichever commands fail.  What a script has still to run is   *)
(* told by the part of it that is behind (ScriptOf): the display manager   *)
(* is stopped first, the ids are removed first.                            *)
(***************************************************************************)
EXTENDS HookScripts, SequenceTheorems, TLAPS

Device  == {"gpu", "audio"}
Service == {"dm", "persistenced"}

Commands(do, args) == [do : {do}, arg : args, tolerated : BOOLEAN]

\* The commands of a release script after the first, and of a reattach script
\* after the ids are removed, for a card of some vendor.
ReleaseCmd(v) == Commands("stop", Service) \cup Commands("rmmod", Modules[v])
                 \cup Commands("modprobe", {"vfio-pci"}) \cup Commands("new_id", Device)
RebindCmd(v)  == Commands("modprobe", Modules[v]) \cup Commands("start", Service)
Command(v)    == ReleaseCmd(v) \cup RebindCmd(v) \cup Commands("remove_id", Device)

System(v) == [up : SUBSET Service, mods : SUBSET Modules[v], vfio : BOOLEAN,
              table : SUBSET Device, bound : [Device -> Binding]]

\* What is left of the VM's script: nothing but in a hook; in the release hook the
\* display manager is stopped unless nothing has run, or the script has failed; in
\* the reattach hook the ids already removed are out of vfio-pci's table.
ScriptOf(s) ==
  /\ vm \in {"off", "running"} => s = <<>>
  /\ vm = "prepare" =>
       \/ s = release_script(card.vendor)
       \/ s \in Seq(ReleaseCmd(card.vendor)) /\ "dm" \notin sys.up /\ (s = <<>> => last = "released")
       \/ s = <<>> /\ last = "failed"
  /\ vm = "release" =>
       \/ s = reattach_script(card.vendor)
       \/ s = Tail(reattach_script(card.vendor)) /\ "gpu" \notin sys.table
       \/ s \in Seq(RebindCmd(card.vendor)) /\ sys.table = {}

\* The inductive invariant.
IInv ==
  /\ sys \in System(card.vendor)
  /\ script \in [Domain -> Seq(Command(card.vendor))]
  /\ script["other"] = <<>>
  /\ ScriptOf(script["vm"])
  /\ vm = "running" => "dm" \notin sys.up
  /\ vm = "off" /\ last # "none" => sys.table = {}

-----------------------------------------------------------------------------
(* The scripts *)

\* A command in front of others.
LEMMA Front ==
  ASSUME NEW S, NEW T, NEW x \in T, NEW t \in Seq(S)
  PROVE  /\ <<x>> \o t # <<>>
         /\ Head(<<x>> \o t) = x
         /\ Tail(<<x>> \o t) = t
         /\ <<x>> \o t \in Seq(S \cup T)
<1>1. t \in Seq(S \cup T) /\ <<x>> \in Seq(S \cup T) /\ Len(<<x>>) = 1
  BY SeqMonotonic
<1>2. /\ <<x>> \o t \in Seq(S \cup T) /\ Len(<<x>> \o t) = 1 + Len(t)
      /\ \A i \in 1..(1 + Len(t)) : (<<x>> \o t)[i] = IF i <= 1 THEN <<x>>[i] ELSE t[i - 1]
  BY <1>1, ConcatProperties
<1> DEFINE s == <<x>> \o t
<1>3. s \in Seq(S \cup T) /\ Len(s) = 1 + Len(t) /\ s[1] = x /\ \A i \in 2..Len(s) : s[i] = t[i - 1]
  BY <1>1, <1>2
<1> HIDE DEF s
<1>4. s # <<>> /\ Head(s) = x
  BY <1>1, <1>3
<1>5. Tail(s) \in Seq(S \cup T) /\ Len(Tail(s)) = Len(t) /\ \A i \in 1..Len(t) : Tail(s)[i] = t[i]
  BY <1>1, <1>3, <1>4, HeadTailProperties
<1>6. Tail(s) = t
  BY <1>1, <1>5, SeqEqual
<1> QED BY <1>3, <1>4, <1>6 DEF s

\* The commands for the two devices of the card, in order.
LEMMA DeviceCommands ==
  /\ [i \in DOMAIN Devices |-> Cmd("new_id", Devices[i])] = <<Cmd("new_id", "gpu"), Cmd("new_id", "audio")>>
  /\ [i \in DOMAIN Devices |-> OrTrue("remove_id", Devices[i])]
       = <<OrTrue("remove_id", "gpu")>> \o <<OrTrue("remove_id", "audio")>>
BY DEF Devices

\* What write_unbind_drivers and write_rebind_drivers write.
LEMMA DriverCommands ==
  ASSUME NEW v \in DOMAIN Modules
  PROVE  /\ write_unbind_drivers(v) \in Seq(ReleaseCmd(v))
         /\ write_rebind_drivers(v) \in Seq(RebindCmd(v))
<1>0. v \in {"Nvidia", "Amd", "Intel", "Unknown"}
  BY DEF Modules
<1>1. CASE v = "Nvidia"
  BY <1>1 DEF write_unbind_drivers, write_rebind_drivers, ReleaseCmd, RebindCmd, Commands, Modules, Service, Cmd, OrTrue
<1>2. CASE v = "Amd"
  BY <1>2 DEF write_unbind_drivers, write_rebind_drivers, ReleaseCmd, RebindCmd, Commands, Modules, Service, Cmd, OrTrue
<1>3. CASE v = "Intel"
  BY <1>3 DEF write_unbind_drivers, write_rebind_drivers, ReleaseCmd, RebindCmd, Commands, Modules, Service, Cmd, OrTrue
<1>4. CASE v = "Unknown"
  BY <1>4 DEF write_unbind_drivers, write_rebind_drivers
<1> QED BY <1>0, <1>1, <1>2, <1>3, <1>4

Joined(w, x, y, z) == ((w \o x) \o y) \o z
Rest(x, y, z)      == x \o (y \o z)

\* Four lists in a row are the first one and the rest.
LEMMA Regroup ==
  ASSUME NEW S
  PROVE  \A w, x, y, z \in Seq(S) : Joined(w, x, y, z) = w \o Rest(x, y, z) /\ Rest(x, y, z) \in Seq(S)
<1> DEFINE Cat(x, y) == x \o y
<1>1. \A x, y, z \in Seq(S) : Cat(Cat(x, y), z) = Cat(x, Cat(y, z))
  BY ConcatAssociative
<1>2. \A x, y \in Seq(S) : Cat(x, y) \in Seq(S)
  BY ConcatProperties
<1> HIDE DEF Cat
<1>3. \A w, x, y, z \in Seq(S) : /\ Cat(Cat(Cat(w, x), y), z) = Cat(w, Cat(x, Cat(y, z)))
                                 /\ Cat(x, Cat(y, z)) \in Seq(S)
  BY <1>1, <1>2
<1> QED BY <1>3 DEF Cat, Joined, Rest

\* release_script stops the display manager first and starts nothing.
LEMMA ReleaseScript ==
  ASSUME NEW v \in DOMAIN Modules
  PROVE  /\ release_script(v) # <<>>
         /\ Head(release_script(v)) = Cmd("stop", "dm")
         /\ Tail(release_script(v)) \in Seq(ReleaseCmd(v))
         /\ release_script(v) \in Seq(ReleaseCmd(v))
<1> DEFINE n == <<Cmd("new_id", "gpu"), Cmd("new_id", "audio")>>
           p == <<Cmd("modprobe", "vfio-pci")>>
           u == write_unbind_drivers(v)
           s == <<Cmd("stop", "dm")>>
<1>1. n \in Seq(ReleaseCmd(v)) /\ p \in Seq(ReleaseCmd(v)) /\ s \in Seq(ReleaseCmd(v))
  BY DEF ReleaseCmd, Commands, Device, Service, Cmd
<1>2. u \in Seq(ReleaseCmd(v))
  BY DriverCommands
<1>3. release_script(v) = Joined(s, u, p, n)
  BY DeviceCommands DEF release_script, Joined
<1>4. Cmd("stop", "dm") \in ReleaseCmd(v)
  BY DEF ReleaseCmd, Commands, Service, Cmd
<1> HIDE DEF n, p, u
<1>5. release_script(v) = s \o Rest(u, p, n) /\ Rest(u, p, n) \in Seq(ReleaseCmd(v))
  <2> HIDE DEF s
  <2>1. Joined(s, u, p, n) = s \o Rest(u, p, n) /\ Rest(u, p, n) \in Seq(ReleaseCmd(v))
    BY <1>1, <1>2, Regroup
  <2> QED BY <1>3, <2>1, Zenon
<1> QED BY <1>4, <1>5, Front

\* reattach_script removes the ids first, one by one and tolerating a refusal.
LEMMA ReattachScript ==
  ASSUME NEW v \in DOMAIN Modules
  PROVE  /\ reattach_script(v) # <<>> /\ Tail(reattach_script(v)) # <<>>
         /\ Head(reattach_script(v)) = OrTrue("remove_id", "gpu")
         /\ Head(Tail(reattach_script(v))) = OrTrue("remove_id", "audio")
         /\ Tail(Tail(reattach_script(v))) \in Seq(RebindCmd(v))
         /\ reattach_script(v) \in Seq(Command(v))
<1> DEFINE g == <<OrTrue("remove_id", "gpu")>>
           a == <<OrTrue("remove_id", "audio")>>
           b == write_rebind_drivers(v)
           d == <<Cmd("start", "dm")>>
           R == Commands("remove_id", Device)
<1>1. b \in Seq(RebindCmd(v)) /\ d \in Seq(RebindCmd(v))
  BY DriverCommands DEF RebindCmd, Commands, Service, Cmd
<1>2. OrTrue("remove_id", "gpu") \in R /\ OrTrue("remove_id", "audio") \in R
  BY DEF Commands, Device, OrTrue
<1>3. reattach_script(v) = ((g \o a) \o b) \o d
  BY DeviceCommands DEF reattach_script
<1>4. g \in Seq(RebindCmd(v) \cup R) /\ a \in Seq(RebindCmd(v) \cup R)
      /\ b \in Seq(RebindCmd(v) \cup R) /\ d \in Seq(RebindCmd(v) \cup R)
  BY <1>1, <1>2, SeqMonotonic
<1>5. b \o d \in Seq(RebindCmd(v))
  BY <1>1, ConcatProperties
<1> HIDE DEF b, d, R
<1>6. reattach_script(v) = g \o (a \o (b \o d))
  BY <1>3, <1>4, ConcatAssociative, ConcatProperties
<1>7. /\ a \o (b \o d) # <<>> /\ Head(a \o (b \o d)) = OrTrue("remove_id", "audio")
      /\ Tail(a \o (b \o d)) = b \o d /\ a \o (b \o d) \in Seq(RebindCmd(v) \cup R)
  BY <1>2, <1>5, Front
<1> HIDE DEF a
<1>8. /\ g \o (a \o (b \o d)) # <<>> /\ Head(g \o (a \o (b \o d))) = OrTrue("remove_id", "gpu")
      /\ Tail(g \o (a \o (b \o d))) = a \o (b \o d)
      /\ g \o (a \o (b \o d)) \in Seq((RebindCmd(v) \cup R) \cup R)
  BY <1>2, <1>7, Front
<1>9. (RebindCmd(v) \cup R) \cup R \subseteq Command(v)
  BY DEF Command, R
<1>10. reattach_script(v) \in Seq(Command(v))
  BY <1>6, <1>8, <1>9, SeqMonotonic
<1> QED BY <1>5, <1>6, <1>7, <1>8, <1>10

\* Both are sequences of commands of the card.
LEMMA ScriptTypes ==
  ASSUME NEW v \in DOMAIN Modules
  PROVE  /\ Seq(ReleaseCmd(v)) \subseteq Seq(Command(v)) /\ Seq(RebindCmd(v)) \subseteq Seq(Command(v))
         /\ release_script(v) \in Seq(Command(v)) /\ reattach_script(v) \in Seq(Command(v))
<1>1. ReleaseCmd(v) \subseteq Command(v) /\ RebindCmd(v) \subseteq Command(v)
  BY DEF Command
<1>2. Seq(ReleaseCmd(v)) \subseteq Seq(Command(v)) /\ Seq(RebindCmd(v)) \subseteq Seq(Command(v))
  BY <1>1, SeqMonotonic
<1> QED BY <1>2, ReleaseScript, ReattachScript

\* libvirt's other events, and every event of another domain, run nothing.
LEMMA Dispatched ==
  /\ dispatcher("vm", "prepare", "begin") = release_script(card.vendor)
  /\ dispatcher("vm", "start", "begin") \o dispatcher("vm", "started", "begin") = <<>>
  /\ dispatcher("vm", "stopped", "end") \o dispatcher("vm", "release", "end") = <<>> \o reattach_script(card.vendor)
  /\ dispatcher("other", "stopped", "end") \o dispatcher("other", "release", "end") = <<>>
  /\ dispatcher("other", "prepare", "begin") \o dispatcher("other", "started", "begin") = <<>>
BY DEF dispatcher

-----------------------------------------------------------------------------
(* Commands *)

\* Every command of a script is one of those the model gives an effect, and keeps
\* the types of the system.
LEMMA EffectType ==
  ASSUME NEW v, v = card.vendor, sys \in System(v), NEW c \in Command(v)
  PROVE  Effect(c) \in System(v)
<1> USE DEF System, Binding, Device
<1>1. ASSUME NEW d \in Device, NEW from, NEW to \in Binding PROVE Rebound(d, from, to) \in [Device -> Binding]
  BY <1>1 DEF Rebound
<1>2. CASE c \in Commands("stop", Service)
  BY <1>2 DEF Effect, Commands
<1>3. CASE c \in Commands("start", Service)
  BY <1>3 DEF Effect, Commands
<1>4. CASE c \in Commands("rmmod", Modules[v])
  BY <1>1, <1>4 DEF Effect, Commands
<1>5. CASE c \in Commands("modprobe", Modules[v]) \cup Commands("modprobe", {"vfio-pci"})
  BY <1>1, <1>5 DEF Effect, Commands
<1>6. CASE c \in Commands("new_id", Device)
  BY <1>1, <1>6 DEF Effect, Commands
<1>7. CASE c \in Commands("remove_id", Device)
  BY <1>7 DEF Effect, Commands
<1> QED BY <1>2, <1>3, <1>4, <1>5, <1>6, <1>7 DEF Command, ReleaseCmd, RebindCmd

\* No command of a release script but the first touches the display manager's
\* state other than to stop it.
LEMMA ReleaseKeepsDark ==
  ASSUME NEW v, v = card.vendor, sys \in System(v), NEW c \in ReleaseCmd(v), "dm" \notin sys.up
  PROVE  "dm" \notin Effect(c).up
<1> USE DEF System
<1>1. CASE c \in Commands("stop", Service)
  BY <1>1 DEF Effect, Commands
<1>2. CASE c \in Commands("rmmod", Modules[v])
  BY <1>2 DEF Effect, Commands
<1>3. CASE c \in Commands("modprobe", {"vfio-pci"})
  BY <1>3 DEF Effect, Commands
<1>4. CASE c \in Commands("new_id", Device)
  BY <1>4 DEF Effect, Commands
<1> QED BY <1>1, <1>2, <1>3, <1>4 DEF ReleaseCmd

\* Loading the drivers and starting services adds no id to vfio-pci's table.
LEMMA RebindKeepsTable ==
  ASSUME NEW v, v = card.vendor, sys \in System(v), NEW c \in RebindCmd(v)
  PROVE  Effect(c).table = sys.table
BY DEF System, RebindCmd, Commands, Effect

-----------------------------------------------------------------------------
(* Steps *)

\* The vendor is one of the known ones, and never changes.
LEMMA Vendor ==
  ASSUME TypeOK, Next
  PROVE  card.vendor \in DOMAIN Modules /\ UNCHANGED <<card, claimed>>
<1>1. card.vendor \in DOMAIN Modules
  BY HookAssumption DEF TypeOK
<1>2. UNCHANGED <<card, claimed>>
  BY DEF Next, Step, run_command, ignore_failure, recovery_trap, virsh_start, attach_devices, abort_start,
     guest_ends, domain_off, other_domain, start_by_hand, unload_vfio, reboot
<1> QED BY <1>1, <1>2

\* A script that has a command left is the VM's, in one of its two hooks, and its
\* first command is one of the card's.
LEMMA HasCommand ==
  ASSUME TypeOK, IInv, Next, NEW d \in Domain, script[d] # <<>>
  PROVE  /\ d = "vm" /\ vm \in {"prepare", "release"}
         /\ Head(script[d]) \in Command(card.vendor) /\ Tail(script[d]) \in Seq(Command(card.vendor))
         /\ Tail(script[d]) = <<>> => Len(script[d]) = 1
<1>1. d = "vm"
  BY DEF IInv, Domain
<1>2. script[d] \in Seq(Command(card.vendor))
  BY DEF IInv
<1>3. vm \in {"prepare", "release"}
  BY <1>1 DEF IInv, ScriptOf, TypeOK
<1>4. ASSUME NEW s \in Seq(Command(card.vendor)), s # <<>>
      PROVE  /\ Head(s) \in Command(card.vendor) /\ Tail(s) \in Seq(Command(card.vendor))
             /\ Tail(s) = <<>> => Len(s) = 1
  <2>1. Head(s) \in Command(card.vendor) /\ Tail(s) \in Seq(Command(card.vendor))
    BY <1>4, HeadTailProperties
  <2>2. Len(<<>>) = 0
    OBVIOUS
  <2>3. \A n \in Nat : n - 1 = 0 => n = 1
    OBVIOUS
  <2>4. Tail(s) = <<>> => Len(s) = 1
    <3>1. Len(Tail(s)) = Len(s) - 1 /\ Len(s) \in Nat
      BY <1>4, HeadTailProperties
    <3> QED BY <2>2, <2>3, <3>1, Zenon
  <2> QED BY <2>1, <2>4
<1> QED BY <1>1, <1>2, <1>3, <1>4

\* The display manager stays stopped through the rest of a release script.
LEMMA PrepareRuns ==
  ASSUME TypeOK, IInv, Next, vm = "prepare", run_command("vm") \/ ignore_failure("vm")
  PROVE  /\ Tail(script["vm"]) \in Seq(ReleaseCmd(card.vendor)) /\ "dm" \notin sys'.up
         /\ Tail(script["vm"]) = <<>> => last' = "released"
<1> DEFINE s == script["vm"]
<1>0. s # <<>> /\ "vm" \in Domain /\ card.vendor \in DOMAIN Modules /\ sys \in System(card.vendor)
  BY Vendor DEF run_command, ignore_failure, MayFail, Domain, IInv
<1>1. Tail(s) = <<>> => last' = "released"
  BY <1>0, HasCommand DEF run_command, ignore_failure, Finished
<1>2. CASE s = release_script(card.vendor)
  <2>1. Head(s) = Cmd("stop", "dm") /\ Tail(s) \in Seq(ReleaseCmd(card.vendor))
    BY <1>0, <1>2, ReleaseScript
  <2>2. run_command("vm")
    BY <2>1 DEF ignore_failure, Cmd
  <2>3. ASSUME NEW c, c = Cmd("stop", "dm") PROVE "dm" \notin Effect(c).up
    <3>1. c.do = "stop" /\ c.arg = "dm"
      BY <2>3 DEF Cmd
    <3> QED BY <1>0, <3>1 DEF Effect, System
  <2>4. "dm" \notin sys'.up
    BY <2>1, <2>2, <2>3 DEF run_command
  <2> QED BY <1>1, <2>1, <2>4
<1>3. CASE s \in Seq(ReleaseCmd(card.vendor)) /\ "dm" \notin sys.up
  <2>1. Head(s) \in ReleaseCmd(card.vendor) /\ Tail(s) \in Seq(ReleaseCmd(card.vendor))
    BY <1>0, <1>3, HeadTailProperties
  <2>2. "dm" \notin sys'.up
    BY <1>0, <1>3, <2>1, ReleaseKeepsDark DEF run_command, ignore_failure
  <2> QED BY <1>1, <2>1, <2>2
<1> QED BY <1>0, <1>2, <1>3 DEF IInv, ScriptOf

\* A remove_id that the kernel refuses finds no id to remove, so that after the
\* first commands of a reattach script the table is empty either way.
LEMMA ReleaseRuns ==
  ASSUME TypeOK, IInv, Next, vm = "release", run_command("vm") \/ ignore_failure("vm")
  PROVE  \/ Tail(script["vm"]) = Tail(reattach_script(card.vendor)) /\ "gpu" \notin sys'.table
         \/ Tail(script["vm"]) \in Seq(RebindCmd(card.vendor)) /\ sys'.table = {}
<1> DEFINE s == script["vm"]
<1>0. s # <<>> /\ "vm" \in Domain /\ card.vendor \in DOMAIN Modules /\ sys \in System(card.vendor)
  BY Vendor DEF run_command, ignore_failure, MayFail, Domain, IInv
<1>1. ASSUME NEW d \in Device, Head(s) = OrTrue("remove_id", d)
      PROVE  sys'.table = sys.table \ {d}
  <2>1. CASE run_command("vm")
    <3>1. ASSUME NEW c, c = OrTrue("remove_id", d) PROVE Effect(c).table = sys.table \ {d}
      <4>1. c.do = "remove_id" /\ c.arg = d
        BY <3>1 DEF OrTrue
      <4> QED BY <1>0, <4>1 DEF Effect, System
    <3> QED BY <1>1, <2>1, <3>1 DEF run_command
  <2>2. CASE ignore_failure("vm")
    <3>1. sys' = sys /\ d \notin sys.table
      BY <1>1, <2>2 DEF ignore_failure, MayFail, Refuses, OrTrue
    <3> QED BY <3>1
  <2> QED BY <2>1, <2>2
<1>2. CASE s = reattach_script(card.vendor)
  BY <1>0, <1>1, <1>2, ReattachScript DEF Device
<1>3. CASE s = Tail(reattach_script(card.vendor)) /\ "gpu" \notin sys.table
  <2>1. sys'.table = sys.table \ {"audio"} /\ sys.table \subseteq Device
    BY <1>0, <1>1, <1>3, ReattachScript DEF Device, System
  <2> QED BY <1>0, <1>3, <2>1, ReattachScript DEF Device
<1>4. CASE s \in Seq(RebindCmd(card.vendor)) /\ sys.table = {}
  <2>1. Head(s) \in RebindCmd(card.vendor) /\ Tail(s) \in Seq(RebindCmd(card.vendor))
    BY <1>0, <1>4, HeadTailProperties
  <2>2. sys'.table = sys.table
    BY <1>0, <2>1, RebindKeepsTable DEF run_command, ignore_failure
  <2> QED BY <1>4, <2>1, <2>2
<1> QED BY <1>2, <1>3, <1>4 DEF IInv, ScriptOf

\* The recovery trap of a reattach script runs only when the ids are removed.
LEMMA ReleaseTrapped ==
  ASSUME TypeOK, IInv, Next, vm = "release", recovery_trap("vm")
  PROVE  sys.table = {}
<1>0. card.vendor \in DOMAIN Modules /\ ~Head(script["vm"]).tolerated
  BY Vendor DEF recovery_trap
<1>1. OrTrue("remove_id", "gpu").tolerated /\ OrTrue("remove_id", "audio").tolerated
  BY DEF OrTrue
<1>2. /\ script["vm"] # reattach_script(card.vendor)
      /\ script["vm"] # Tail(reattach_script(card.vendor))
  BY <1>0, <1>1, ReattachScript
<1> QED BY <1>2 DEF IInv, ScriptOf

\* A command of a script that runs, fails and is passed over, or ends the script.
LEMMA StepNext ==
  ASSUME TypeOK, IInv, Next, NEW d \in Domain, Step(d)
  PROVE  TypeOK' /\ IInv'
<1>0. /\ d = "vm" /\ vm \in {"prepare", "release"} /\ card.vendor \in DOMAIN Modules
      /\ Head(script[d]) \in Command(card.vendor) /\ Tail(script[d]) \in Seq(Command(card.vendor))
      /\ UNCHANGED <<card, claimed, vm, mine, other>>
  BY Vendor, HasCommand DEF Step, run_command, ignore_failure, recovery_trap, MayFail
<1>1. sys' \in System(card.vendor)
  BY <1>0, EffectType DEF Step, run_command, ignore_failure, recovery_trap, IInv
<1>2. last' \in {last, "released", "returned", "failed"} /\ told' \in BOOLEAN
  BY DEF Step, run_command, ignore_failure, recovery_trap, Finished, TypeOK
<1>3. CASE run_command(d) \/ ignore_failure(d)
  <2>1. script' = [script EXCEPT !["vm"] = Tail(script["vm"])]
    BY <1>0, <1>3 DEF run_command, ignore_failure
  <2>2. /\ script' \in [Domain -> Seq(Command(card.vendor))] /\ script'["other"] = <<>>
        /\ script'["vm"] = Tail(script["vm"])
    BY <1>0, <2>1 DEF IInv, Domain
  <2>3. ScriptOf(script["vm"])'
    BY <1>0, <1>3, <2>2, PrepareRuns, ReleaseRuns DEF ScriptOf
  <2> QED BY <1>0, <1>1, <1>2, <2>2, <2>3 DEF IInv, TypeOK, System, Device, Service
<1>4. CASE recovery_trap(d)
  <2>1. script' = [script EXCEPT !["vm"] = <<>>] /\ last' = "failed" /\ sys' = sys
    BY <1>0, <1>4 DEF recovery_trap
  <2>2. /\ script' \in [Domain -> Seq(Command(card.vendor))] /\ script'["other"] = <<>>
        /\ script'["vm"] = <<>>
    BY <1>0, <2>1 DEF IInv, Domain
  <2>3. ScriptOf(script["vm"])'
    BY <1>0, <1>4, <2>1, <2>2, ReleaseTrapped DEF ScriptOf
  <2> QED BY <1>0, <1>1, <1>2, <2>2, <2>3 DEF IInv, TypeOK, System, Device, Service
<1> QED BY <1>3, <1>4 DEF Step

\* libvirt starts the VM, moves its devices, gives up a start, ends the guest.
LEMMA LibvirtNext ==
  ASSUME TypeOK, IInv, Next,
         virsh_start \/ attach_devices \/ abort_start \/ guest_ends \/ domain_off \/ other_domain
  PROVE  TypeOK' /\ IInv'
<1> DEFINE v == card.vendor
<1>0. v \in DOMAIN Modules /\ UNCHANGED <<card, claimed>> /\ sys \in System(v)
  BY Vendor DEF IInv
<1>1. /\ release_script(v) \in Seq(Command(v)) /\ reattach_script(v) \in Seq(Command(v))
      /\ <<>> \in Seq(Command(v)) /\ <<>> \o reattach_script(v) = reattach_script(v)
  BY <1>0, ScriptTypes, ConcatEmptySeq
<1>2. DOMAIN sys.bound = Device
  BY <1>0 DEF System
<1>3. CASE virsh_start
  <2>1. script' = [script EXCEPT !["vm"] = release_script(v)] /\ vm' = "prepare"
    BY <1>3, Dispatched DEF virsh_start
  <2>2. /\ script' \in [Domain -> Seq(Command(v))] /\ script'["other"] = <<>>
        /\ script'["vm"] = release_script(v)
    BY <1>1, <2>1 DEF IInv, Domain
  <2> QED BY <1>0, <1>3, <2>1, <2>2 DEF virsh_start, IInv, ScriptOf, TypeOK
<1>4. CASE attach_devices
  <2>1. script' = [script EXCEPT !["vm"] = <<>>] /\ vm' = "running"
    BY <1>4, Dispatched DEF attach_devices
  <2>2. /\ script' \in [Domain -> Seq(Command(v))] /\ script'["other"] = <<>> /\ script'["vm"] = <<>>
    BY <1>1, <2>1 DEF IInv, Domain
  <2>3. last = "released" /\ script["vm"] = <<>> /\ vm = "prepare" /\ UNCHANGED <<last, told, other>>
    BY <1>4 DEF attach_devices
  <2>4. "dm" \notin sys.up
    BY <1>0, <2>3, ReleaseScript DEF IInv, ScriptOf
  <2>5. mine' \subseteq Device
    BY <1>2, <1>4 DEF attach_devices
  <2>6. /\ sys' \in System(v) /\ sys'.up = sys.up
        /\ \A d \in DOMAIN sys'.bound : sys'.bound[d] = "vfio-pci"
    BY <1>0, <1>2, <1>4 DEF attach_devices, System, Binding
  <2> QED BY <1>0, <2>1, <2>2, <2>3, <2>4, <2>5, <2>6 DEF IInv, ScriptOf, TypeOK, System, Device, Service
<1>5. CASE abort_start
  <2>1. script' = [script EXCEPT !["vm"] = reattach_script(v)] /\ vm' = "release"
    BY <1>1, <1>5, Dispatched DEF abort_start
  <2>2. /\ script' \in [Domain -> Seq(Command(v))] /\ script'["other"] = <<>>
        /\ script'["vm"] = reattach_script(v)
    BY <1>1, <2>1 DEF IInv, Domain
  <2> QED BY <1>0, <1>5, <2>1, <2>2 DEF abort_start, IInv, ScriptOf, TypeOK
<1>6. CASE guest_ends
  <2>1. script' = [script EXCEPT !["vm"] = reattach_script(v)] /\ vm' = "release" /\ mine' = {}
        /\ UNCHANGED <<last, told, other>>
    BY <1>1, <1>6, Dispatched DEF guest_ends
  <2>2. /\ script' \in [Domain -> Seq(Command(v))] /\ script'["other"] = <<>>
        /\ script'["vm"] = reattach_script(v)
    BY <1>1, <2>1 DEF IInv, Domain
  <2>3. sys' \in System(v)
    BY <1>0, <1>2, <1>6 DEF guest_ends, System
  <2> QED BY <1>0, <2>1, <2>2, <2>3 DEF IInv, ScriptOf, TypeOK, System, Device, Service
<1>7. CASE domain_off
  <2>1. /\ vm = "release" /\ script["vm"] = <<>> /\ vm' = "off"
        /\ UNCHANGED <<sys, mine, script, last, told, other>>
    BY <1>7 DEF domain_off
  <2>2. sys.table = {}
    BY <1>0, <2>1, ReattachScript DEF IInv, ScriptOf
  <2> QED BY <1>0, <2>1, <2>2 DEF IInv, ScriptOf, TypeOK
<1>8. CASE other_domain
  <2>1. script' = [script EXCEPT !["other"] = <<>>]
    BY <1>8, Dispatched DEF other_domain
  <2>2. script' = script
    BY <2>1 DEF IInv, Domain
  <2>3. other' \in BOOLEAN
    BY <1>8 DEF other_domain, TypeOK
  <2> QED BY <1>0, <1>8, <2>2, <2>3 DEF other_domain, IInv, ScriptOf, TypeOK
<1> QED BY <1>3, <1>4, <1>5, <1>6, <1>7, <1>8

\* The state after a boot.
LEMMA BootType ==
  ASSUME NEW c \in Cards, NEW b \in BOOLEAN
  PROVE  Boot(c, b) \in System(c.vendor)
<1>1. c.vendor \in DOMAIN Modules
  BY HookAssumption
<1> QED BY <1>1 DEF Boot, System, Service, Device, Binding

\* The user follows the instructions or reboots.
LEMMA UserNext ==
  ASSUME TypeOK, IInv, Next, start_by_hand \/ unload_vfio \/ reboot
  PROVE  TypeOK' /\ IInv'
<1> DEFINE v == card.vendor
<1>0. v \in DOMAIN Modules /\ UNCHANGED <<card, claimed>> /\ sys \in System(v)
  BY Vendor DEF IInv
<1>1. CASE start_by_hand
  <2>1. sys' \in System(v) /\ sys'.table = sys.table
    BY <1>0, <1>1 DEF start_by_hand, System, Service
  <2> QED BY <1>0, <1>1, <2>1 DEF start_by_hand, IInv, ScriptOf, TypeOK, System, Device, Service
<1>2. CASE unload_vfio
  <2>1. sys' \in System(v) /\ sys'.table = {}
    BY <1>0, <1>2 DEF unload_vfio, System, Binding
  <2> QED BY <1>0, <1>2, <2>1 DEF unload_vfio, IInv, ScriptOf, TypeOK, System, Device, Service
<1>3. CASE reboot
  <2>1. sys' \in System(v)
    BY <1>0, <1>3, BootType, HookAssumption DEF reboot, TypeOK
  <2>2. script' \in [Domain -> Seq(Command(v))] /\ script'["other"] = <<>> /\ script'["vm"] = <<>>
    BY <1>3 DEF reboot, Domain
  <2> QED BY <1>0, <1>3, <2>1, <2>2 DEF reboot, IInv, ScriptOf, TypeOK, System, Device, Service
<1> QED BY <1>1, <1>2, <1>3

-----------------------------------------------------------------------------
(* Theorems *)

\* Types and the inductive invariant hold in every state of the hand-over.
THEOREM Invariance == Spec => [](TypeOK /\ IInv)
<1>1. Init => TypeOK /\ IInv
  <2> SUFFICES ASSUME Init PROVE TypeOK /\ IInv
    OBVIOUS
  <2>1. sys \in System(card.vendor)
    BY BootType, HookAssumption DEF Init
  <2>2. script \in [Domain -> Seq(Command(card.vendor))] /\ script["other"] = <<>> /\ script["vm"] = <<>>
    BY DEF Init, Domain
  <2> QED BY <2>1, <2>2 DEF Init, IInv, ScriptOf, TypeOK, System, Device, Service
<1>2. TypeOK /\ IInv /\ [Next]_vars => (TypeOK /\ IInv)'
  <2>1. ASSUME TypeOK, IInv, Next PROVE (TypeOK /\ IInv)'
    BY <2>1, StepNext, LibvirtNext, UserNext DEF Next
  <2>2. ASSUME TypeOK, IInv, UNCHANGED vars PROVE (TypeOK /\ IInv)'
    BY <2>2 DEF vars, TypeOK, IInv, ScriptOf
  <2> QED BY <2>1, <2>2
<1> QED BY <1>1, <1>2, PTL DEF Spec

\* All variables have their types; a running guest has all its devices.
THEOREM TypeCorrect == Spec => []TypeOK
BY Invariance, PTL

\* No display manager runs while the guest has the GPU, whichever commands of the
\* release script failed on the way (release_script, hooks.rs).
THEOREM DisplayReleasedAlways == Spec => []DisplayReleased
<1>1. IInv => DisplayReleased
  BY DEF IInv, DisplayReleased
<1> QED BY <1>1, Invariance, PTL

\* After a release/end hook vfio-pci has no id left that could refuse the next
\* start, also when the reattach script ended early (reattach_script, hooks.rs).
THEOREM NextStartUnblockedAlways == Spec => []NextStartUnblocked
<1>1. IInv => NextStartUnblocked
  BY DEF IInv, NextStartUnblocked
<1> QED BY <1>1, Invariance, PTL
=============================================================================
