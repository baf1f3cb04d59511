---------------------------- MODULE WizardProofs ----------------------------
(***************************************************************************)
(* Proofs of the safety properties of Wizard, for any host: whatever the   *)
(* user does, the preview belongs to the configuration that is printed at  *)
(* the end, roles agree with the mode, and what is confirmed can be        *)
(* rendered and leaves the host its reserve.                               *)
(***************************************************************************)
EXTENDS Wizard, DecisionProofs

-----------------------------------------------------------------------------
(* Hosts *)

\* A list of roles for n GPUs.
LEMMA RoleList ==
  ASSUME NEW n \in Nat, NEW r \in [1..n -> Role]
  PROVE  r \in Seq(Role) /\ Len(r) = n /\ DOMAIN r = 1..n
<1>1. r \in Seq(Role)
  BY SeqDef
<1> QED BY <1>1, LenProperties

\* A scanned host: its GPUs are a list, so their positions are those of the list.
LEMMA HostType ==
  ASSUME NEW h \in Hosts
  PROVE  /\ Len(h.gpus) \in Nat /\ DOMAIN h.gpus = 1..Len(h.gpus)
         /\ h.gpus = <<>> <=> Len(h.gpus) = 0
         /\ h.ram \in Nat /\ h.threads \in Nat /\ h.cores \in Nat
         /\ \A t : OfType(h, t) \in SUBSET (1..Len(h.gpus))
<1>1. h.gpus \in Seq(ToSet(h.gpus)) /\ h.ram \in Nat /\ h.threads \in Nat /\ h.cores \in Nat
  BY WizardAssumption
<1>2. Len(h.gpus) \in Nat /\ DOMAIN h.gpus = 1..Len(h.gpus) /\ (h.gpus = <<>> <=> Len(h.gpus) = 0)
  BY <1>1, LenProperties, EmptySeq
<1> QED BY <1>1, <1>2 DEF OfType

-----------------------------------------------------------------------------
(* Roles and modes *)

OfferedMode == {"IgpuHost", "DualGpu", "SingleGpu"}

\* The modes offered on a host: iGPU mode only where there is an integrated GPU.
LEMMA Offered ==
  ASSUME NEW h \in Hosts
  PROVE  /\ AvailableModes(h) \in Seq(OfferedMode) /\ Len(AvailableModes(h)) \in 1..3
         /\ "SingleGpu" \in ToSet(AvailableModes(h))
         /\ "DualGpu" \in ToSet(AvailableModes(h)) <=> Len(h.gpus) >= 2
         /\ "IgpuHost" \in ToSet(AvailableModes(h)) <=> Len(h.gpus) >= 2 /\ OfType(h, "Integrated") # {}
         /\ ToSet(AvailableModes(h)) \subseteq OfferedMode
<1> DEFINE several == Len(h.gpus) >= 2
           a == IF OfType(h, "Integrated") # {} /\ several THEN <<"IgpuHost">> ELSE <<>>
           b == IF several THEN <<"DualGpu">> ELSE <<>>
           d == <<"SingleGpu">>
<1>0. \A x, y \in Seq(OfferedMode) : ToSet(x \o y) = ToSet(x) \cup ToSet(y)
  BY ElementsOfConcat
<1>1. AvailableModes(h) = (a \o b) \o d
  BY DEF AvailableModes, OfType
<1>2. \A x \in OfferedMode : <<x>> \in Seq(OfferedMode) /\ Len(<<x>>) = 1 /\ ToSet(<<x>>) = {x}
  BY DEF ToSet
<1>3. <<>> \in Seq(OfferedMode) /\ Len(<<>>) = 0 /\ ToSet(<<>>) = {}
  BY DEF ToSet
<1>4. {"IgpuHost", "DualGpu", "SingleGpu"} \subseteq OfferedMode
  BY DEF OfferedMode
<1>5. /\ a \in Seq(OfferedMode) /\ Len(a) \in {0, 1}
      /\ ToSet(a) = IF OfType(h, "Integrated") # {} /\ several THEN {"IgpuHost"} ELSE {}
  <2>1. CASE OfType(h, "Integrated") # {} /\ several
    BY <1>2, <1>4, <2>1, Zenon
  <2>2. CASE ~(OfType(h, "Integrated") # {} /\ several)
    BY <1>3, <2>2, Zenon
  <2> QED BY <2>1, <2>2
<1>6. b \in Seq(OfferedMode) /\ Len(b) \in {0, 1} /\ ToSet(b) = IF several THEN {"DualGpu"} ELSE {}
  <2>1. CASE several
    BY <1>2, <1>4, <2>1, Zenon
  <2>2. CASE ~several
    BY <1>3, <2>2, Zenon
  <2> QED BY <2>1, <2>2
<1>7. d \in Seq(OfferedMode) /\ Len(d) = 1 /\ ToSet(d) = {"SingleGpu"}
  BY <1>2, <1>4
<1> HIDE DEF a, b, d
<1> DEFINE ab == a \o b
<1>8. ab \in Seq(OfferedMode) /\ Len(ab) \in 0..2
  BY <1>5, <1>6, ConcatProperties
<1>9. ToSet(ab) = ToSet(a) \cup ToSet(b)
  BY <1>0, <1>5, <1>6, Zenon
<1>10. AvailableModes(h) = ab \o d
  BY <1>1
<1> HIDE DEF ab, several
<1>11. ab \o d \in Seq(OfferedMode) /\ Len(ab \o d) \in 1..3
  BY <1>7, <1>8, ConcatProperties
<1>12. ToSet(ab \o d) = ToSet(ab) \cup ToSet(d)
  BY <1>0, <1>7, <1>8, Zenon
<1>13. ToSet(AvailableModes(h)) = (ToSet(a) \cup ToSet(b)) \cup ToSet(d)
  BY <1>9, <1>10, <1>12, Zenon
<1>14. \A x : x \in ToSet(AvailableModes(h)) <=>
         \/ x = "IgpuHost" /\ OfType(h, "Integrated") # {} /\ several
         \/ x = "DualGpu" /\ several
         \/ x = "SingleGpu"
  BY <1>5, <1>6, <1>7, <1>13
<1>15. ToSet(AvailableModes(h)) \subseteq OfferedMode
  BY <1>4, <1>14
<1> QED BY <1>10, <1>11, <1>14, <1>15 DEF several

\* What align_gpu_roles_to_mode makes of any roles: who holds what, and that doing
\* it again changes nothing.
LEMMA Alignment ==
  ASSUME NEW h \in Hosts, NEW mode \in OfferedMode, NEW r \in [1..Len(h.gpus) -> Role],
         NEW q, q = align_gpu_roles_to_mode(h, r, mode)
  PROVE  /\ q \in [1..Len(h.gpus) -> Role]
         /\ \E k \in 0..Len(h.gpus) : Held(q, "Passthrough") = {k} \ {0}
         /\ mode = "SingleGpu" => Held(q, "Host") = {}
         /\ mode = "IgpuHost" => Held(q, "Host") = OfType(h, "Integrated")
         /\ mode = "DualGpu" /\ Held(q, "Passthrough") # {} =>
              \E k \in OfType(h, "Discrete") : Held(q, "Host") = {k}
         /\ align_gpu_roles_to_mode(h, q, mode) = q
<1> DEFINE n == Len(h.gpus)
           discrete == OfType(h, "Discrete")
           first == First(discrete)
<1>0. n \in Nat /\ discrete \in SUBSET (1..n) /\ OfType(h, "Integrated") \in SUBSET (1..n)
  BY HostType
<1>00. discrete \in SUBSET (Nat \ {0})
  BY <1>0
<1>1. first \in 0..n /\ (first # 0 => first \in discrete) /\ (discrete = {} <=> first = 0)
  BY <1>0, <1>00, FirstIsLeast
<1>2. Len(r) = n /\ DOMAIN r = 1..n
  BY <1>0, RoleList
<1> HIDE DEF n, discrete, first
<1>3. CASE mode = "SingleGpu"
  <2> DEFINE kept == First({i \in DOMAIN r : r[i] = "Passthrough"})
             k == OrElse(kept, first)
  <2>1. kept \in 0..n
    <3>1. {i \in DOMAIN r : r[i] = "Passthrough"} \in SUBSET (Nat \ {0})
      BY <1>0, <1>2
    <3> QED BY <1>0, <1>2, <3>1, FirstIsLeast
  <2>2. k \in 0..n
    BY <1>1, <2>1 DEF OrElse
  <2>3. q = Roles(n, 0, k)
    BY <1>2, <1>3 DEF align_gpu_roles_to_mode, first, discrete
  <2>4. k = 0 => first = 0
    BY DEF OrElse
  <2> HIDE DEF k
  <2>5. /\ q \in [1..n -> Role] /\ Held(q, "Host") = {} /\ Held(q, "Passthrough") = {k} \ {0}
    BY <1>0, <2>2, <2>3, RolesOf
  <2>6. OrElse(First({i \in DOMAIN q : q[i] = "Passthrough"}), first) = k
    <3>1. First({i \in DOMAIN q : q[i] = "Passthrough"}) = k
      BY <2>2, <2>5, FirstOfOne, FirstIsLeast DEF Held
    <3> QED BY <2>4, <3>1 DEF OrElse
  <2>7. Len(q) = n
    BY <1>0, <2>5, RoleList
  <2>8. align_gpu_roles_to_mode(h, q, mode) = Roles(n, 0, k)
    BY <1>3, <2>6, <2>7 DEF align_gpu_roles_to_mode, first, discrete
  <2> QED BY <1>3, <2>2, <2>3, <2>5, <2>8 DEF n
<1>4. CASE mode = "DualGpu"
  <2> DEFINE k == First(discrete \ {first})
  <2>1. k \in 0..n /\ (k # 0 => k \in discrete /\ k # first)
    <3>1. discrete \ {first} \in SUBSET (Nat \ {0})
      BY <1>00
    <3> QED BY <1>0, <3>1, FirstIsLeast
  <2>2. q = Roles(n, first, k)
    BY <1>2, <1>4 DEF align_gpu_roles_to_mode, first, discrete
  <2> HIDE DEF k
  <2>3. /\ q \in [1..n -> Role] /\ Held(q, "Host") = {first} \ {0} /\ Held(q, "Passthrough") = {k} \ {0, first}
    BY <1>0, <1>1, <2>1, <2>2, RolesOf
  <2>4. Held(q, "Passthrough") = {k} \ {0}
    BY <2>1, <2>3
  <2>5. Len(q) = n
    BY <1>0, <2>3, RoleList
  <2>6. align_gpu_roles_to_mode(h, q, mode) = Roles(n, first, k)
    BY <1>4, <2>5 DEF align_gpu_roles_to_mode, first, discrete, k
  <2>7. Held(q, "Passthrough") # {} => \E i \in discrete : Held(q, "Host") = {i}
    BY <1>1, <2>1, <2>3, <2>4
  <2> QED BY <1>4, <2>1, <2>2, <2>3, <2>4, <2>6, <2>7 DEF n, discrete
<1>5. CASE mode = "IgpuHost"
  <2>1. q = [i \in 1..n |-> CASE i \in OfType(h, "Integrated") -> "Host"
                              [] i = first -> "Passthrough"
                              [] OTHER -> "Ignored"]
    BY <1>2, <1>5 DEF align_gpu_roles_to_mode, first, discrete
  <2>2. first \notin OfType(h, "Integrated")
    BY <1>0, <1>1 DEF OfType, discrete
  <2>3. q \in [1..n -> Role] /\ DOMAIN q = 1..n
    BY <2>1 DEF Role
  <2>4. Held(q, "Host") = OfType(h, "Integrated") /\ Held(q, "Passthrough") = {first} \ {0}
    BY <1>0, <1>1, <2>1, <2>2 DEF Held
  <2>5. align_gpu_roles_to_mode(h, q, mode) = q
    BY <1>5, <2>1, <2>3 DEF align_gpu_roles_to_mode, first, discrete
  <2> QED BY <1>1, <1>5, <2>3, <2>4, <2>5 DEF n
<1> QED BY <1>3, <1>4, <1>5 DEF OfferedMode

\* The mode that aligned roles imply is the chosen one, or there is none: nothing is
\* passed through, or several integrated GPUs are kept.
LEMMA AlignedMode ==
  ASSUME NEW h \in Hosts, NEW mode \in ToSet(AvailableModes(h)), NEW c,
         c.roles \in [1..Len(h.gpus) -> Role], c.roles = align_gpu_roles_to_mode(h, c.roles, mode)
  PROVE  /\ derived_mode(h, c) \in {"None", mode}
         /\ With(c, "Passthrough") # {} /\ Cardinality(OfType(h, "Integrated")) <= 1 =>
              derived_mode(h, c) = mode /\ (mode # "SingleGpu" => Cardinality(With(c, "Host")) = 1)
<1> DEFINE pass == With(c, "Passthrough")
           keep == With(c, "Host")
<1>0. mode \in OfferedMode /\ (mode = "IgpuHost" => OfType(h, "Integrated") # {})
  BY Offered
<1>1. /\ \E k \in 0..Len(h.gpus) : pass = {k} \ {0}
      /\ mode = "SingleGpu" => keep = {}
      /\ mode = "IgpuHost" => keep = OfType(h, "Integrated")
      /\ mode = "DualGpu" /\ pass # {} => \E k \in OfType(h, "Discrete") : keep = {k}
  BY <1>0, Alignment DEF With, Held
<1>2. pass = {} \/ Cardinality(pass) = 1
  <2>1. PICK k \in 0..Len(h.gpus) : pass = {k} \ {0}
    BY <1>1
  <2>2. k # 0 => pass = {k}
    BY <2>1
  <2> QED BY <2>1, <2>2, FS_Singleton
<1>3. IsFiniteSet(OfType(h, "Integrated"))
  <2>1. OfType(h, "Integrated") \in SUBSET (1..Len(h.gpus)) /\ Len(h.gpus) \in Int
    BY HostType
  <2>2. IsFiniteSet(1..Len(h.gpus))
    BY <2>1, FS_Interval
  <2> QED BY <2>1, <2>2, FS_Subset
<1>4. Cardinality({}) = 0
  BY FS_EmptySet
<1>5. CASE pass = {}
  <2>0. Cardinality(pass) = 0
    BY <1>4, <1>5
  <2>1. derived_mode(h, c) = "None"
    BY <1>5, <2>0 DEF derived_mode
  <2> QED BY <1>5, <2>1
<1>6. CASE pass # {} /\ mode = "SingleGpu"
  <2>1. Cardinality(pass) = 1 /\ keep = {}
    BY <1>1, <1>2, <1>6
  <2>0. Cardinality(keep) = 0
    BY <1>4, <2>1, Zenon
  <2>2. derived_mode(h, c) = "SingleGpu"
    BY <1>6, <2>0, <2>1 DEF derived_mode
  <2> QED BY <1>6, <2>2
<1>7. CASE pass # {} /\ mode = "DualGpu"
  <2>1. PICK k \in OfType(h, "Discrete") : keep = {k}
    BY <1>1, <1>7
  <2>2. Cardinality(keep) = 1 /\ keep # {} /\ ~\E i \in keep : h.gpus[i].type = "Integrated"
    BY <2>1, FS_Singleton DEF OfType
  <2> QED BY <1>2, <1>7, <2>2 DEF derived_mode
<1>8. CASE pass # {} /\ mode = "IgpuHost"
  <2>1. keep # {} /\ IsFiniteSet(keep) /\ \E i \in keep : h.gpus[i].type = "Integrated"
    BY <1>0, <1>1, <1>3, <1>8 DEF OfType
  <2>2. Cardinality(keep) \in Nat /\ Cardinality(keep) # 0
    BY <2>1, FS_CardinalityType, FS_EmptySet
  <2>3. keep = OfType(h, "Integrated")
    BY <1>1, <1>8
  <2> HIDE DEF pass, keep
  <2>4. derived_mode(h, c) = IF Cardinality(keep) >= 2 THEN "None" ELSE "IgpuHost"
    BY <1>2, <1>8, <2>1, <2>2 DEF derived_mode, pass, keep
  <2> QED BY <1>8, <2>2, <2>3, <2>4 DEF keep
<1> QED BY <1>0, <1>5, <1>6, <1>7, <1>8 DEF OfferedMode

-----------------------------------------------------------------------------
(* Choices, configuration, preview *)

IsConfig(c) ==
  c = [vm_name |-> c.vm_name, gpu_mode |-> c.gpu_mode, roles |-> c.roles, monitor |-> c.monitor,
       looking_glass |-> c.looking_glass, ram_mb |-> c.ram_mb, vcpu |-> c.vcpu, disk |-> c.disk,
       devices |-> c.devices]

IsChoices(s) ==
  s = [selected |-> s.selected, mode |-> s.mode, monitor |-> s.monitor, ram_mb |-> s.ram_mb, vcpu |-> s.vcpu]

IsPreview(p) ==
  p = [errors |-> p.errors, steps |-> p.steps, offset |-> p.offset, confirmed |-> p.confirmed]

\* What apply_to writes into a configuration.
LEMMA Applied ==
  ASSUME NEW h, NEW s, NEW c, IsConfig(c), NEW d, d = apply_to(h, s, c)
  PROVE  /\ IsConfig(d)
         /\ d.gpu_mode = s.mode /\ d.roles = align_gpu_roles_to_mode(h, c.roles, s.mode)
         /\ d.monitor = monitor_plan_from_choice(h, s.monitor) /\ d.ram_mb = s.ram_mb /\ d.vcpu = s.vcpu
         /\ d.vm_name = c.vm_name /\ d.looking_glass = c.looking_glass
         /\ d.disk = c.disk /\ d.devices = c.devices
<1>1. d = [vm_name |-> c.vm_name, gpu_mode |-> s.mode, roles |-> align_gpu_roles_to_mode(h, c.roles, s.mode),
           monitor |-> monitor_plan_from_choice(h, s.monitor), looking_glass |-> c.looking_glass,
           ram_mb |-> s.ram_mb, vcpu |-> s.vcpu, disk |-> c.disk, devices |-> c.devices]
  BY DEF IsConfig, apply_to
<1> QED BY <1>1 DEF IsConfig

\* Committing the choices again changes nothing.
LEMMA CommitTwice ==
  ASSUME NEW h \in Hosts, NEW s, s.mode \in OfferedMode, NEW c, IsConfig(c),
         c.roles \in [1..Len(h.gpus) -> Role], NEW d, d = apply_to(h, s, c)
  PROVE  /\ IsConfig(d) /\ d.roles \in [1..Len(h.gpus) -> Role]
         /\ d = apply_to(h, s, d)
<1>1. IsConfig(d) /\ d.roles = align_gpu_roles_to_mode(h, c.roles, s.mode)
  BY Applied
<1>2. d.roles \in [1..Len(h.gpus) -> Role] /\ align_gpu_roles_to_mode(h, d.roles, s.mode) = d.roles
  BY <1>1, Alignment
<1>3. PICK e : e = apply_to(h, s, d)
  OBVIOUS
<1>4. /\ e.gpu_mode = d.gpu_mode /\ e.roles = d.roles /\ e.monitor = d.monitor /\ e.ram_mb = d.ram_mb
      /\ e.vcpu = d.vcpu /\ e.vm_name = d.vm_name /\ e.looking_glass = d.looking_glass
      /\ e.disk = d.disk /\ e.devices = d.devices /\ IsConfig(e)
  BY <1>1, <1>2, <1>3, Applied
<1>5. e = d
  BY <1>1, <1>4 DEF IsConfig
<1> QED BY <1>1, <1>2, <1>3, <1>5

\* The neighbour in a cycle is one of its values.
LEMMA CycleType ==
  ASSUME NEW S, NEW seq \in Seq(S), Len(seq) \in 1..3, NEW value, NEW by \in {-1, 1}
  PROVE  Cycle(seq, value, by) \in ToSet(seq)
<1> DEFINE P  == {i \in DOMAIN seq : seq[i] = value}
           at == OrElse(First(P), 1)
<1>0. DOMAIN seq = 1..Len(seq)
  BY LenProperties
<1>1. P \in SUBSET (Nat \ {0}) /\ P \subseteq 1..Len(seq)
  BY <1>0
<1>2. First(P) \in {0} \cup P
  BY <1>1, FirstIsLeast
<1>3. at \in 1..Len(seq)
  BY <1>1, <1>2 DEF OrElse
<1>4. Cycle(seq, value, by) = seq[((at - 1 + by) % Len(seq)) + 1]
  BY DEF Cycle
<1> HIDE DEF at
<1>5. ((at - 1 + by) % Len(seq)) + 1 \in 1..Len(seq)
  BY <1>3
<1> QED BY <1>0, <1>4, <1>5 DEF ToSet

\* A choice the screen offers, and the memory it leaves.
ChoiceOK(h, s) ==
  /\ IsChoices(s)
  /\ s.selected \in 1..4
  /\ s.mode \in ToSet(AvailableModes(h))
  /\ s.monitor \in ToSet(MonitorPlanChoice)
  /\ s.ram_mb \in Nat /\ s.vcpu \in Nat \ {0}
  /\ h.gpus # <<>> => s.ram_mb <= Largest(h.ram - 4096, 2048)

\* Moving between the fields.
LEMMA MovedOK ==
  ASSUME NEW h \in Hosts, NEW s, ChoiceOK(h, s), NEW by \in {-1, 1}, NEW t, t = Moved(s, by)
  PROVE  ChoiceOK(h, t)
<1>1. Len(Field) = 4
  BY DEF Field
<1>2. ((s.selected - 1 + by) % 4) + 1 \in 1..4
  BY DEF ChoiceOK
<1>3. t = [selected |-> ((s.selected - 1 + by) % 4) + 1, mode |-> s.mode, monitor |-> s.monitor,
           ram_mb |-> s.ram_mb, vcpu |-> s.vcpu]
  BY <1>1 DEF ChoiceOK, IsChoices, Moved
<1> QED BY <1>2, <1>3 DEF ChoiceOK, IsChoices

\* Stepping the highlighted field up or down.
LEMMA SteppedOK ==
  ASSUME NEW h \in Hosts, NEW s, ChoiceOK(h, s), NEW by \in {-1, 1}, NEW t, t = Stepped(h, s, by)
  PROVE  ChoiceOK(h, t)
<1>0. h.ram \in Nat /\ h.threads \in Nat
  BY HostType
<1>1. CASE s.selected = 1
  <2>1. t = [s EXCEPT !.mode = Cycle(AvailableModes(h), @, by)]
    BY <1>1 DEF Stepped, Field
  <2>2. Cycle(AvailableModes(h), s.mode, by) \in ToSet(AvailableModes(h))
    BY Offered, CycleType
  <2>3. t = [selected |-> s.selected, mode |-> Cycle(AvailableModes(h), s.mode, by), monitor |-> s.monitor,
             ram_mb |-> s.ram_mb, vcpu |-> s.vcpu]
    BY <2>1 DEF ChoiceOK, IsChoices
  <2> QED BY <2>2, <2>3 DEF ChoiceOK, IsChoices
<1>2. CASE s.selected = 2
  <2>1. t = [s EXCEPT !.monitor = Cycle(MonitorPlanChoice, @, by)]
    BY <1>2 DEF Stepped, Field
  <2>2. Cycle(MonitorPlanChoice, s.monitor, by) \in ToSet(MonitorPlanChoice)
    <3>1. MonitorPlanChoice \in Seq({"TwoMonitors", "HookHandoff", "SwitchInputs"}) /\ Len(MonitorPlanChoice) = 3
      BY DEF MonitorPlanChoice
    <3> QED BY <3>1, CycleType
  <2>3. t = [selected |-> s.selected, mode |-> s.mode, monitor |-> Cycle(MonitorPlanChoice, s.monitor, by),
             ram_mb |-> s.ram_mb, vcpu |-> s.vcpu]
    BY <2>1 DEF ChoiceOK, IsChoices
  <2> QED BY <2>2, <2>3 DEF ChoiceOK, IsChoices
<1>3. CASE s.selected = 3
  <2>1. t = [s EXCEPT !.ram_mb = StepRam(h, @, by)]
    BY <1>3 DEF Stepped, Field
  <2>2. StepRam(h, s.ram_mb, by) \in Nat /\ StepRam(h, s.ram_mb, by) <= Largest(h.ram - 4096, 2048)
    <3>1. PICK high \in Nat : high = Largest(h.ram - 4096, 2048) /\ high >= 2048
      BY <1>0 DEF Largest
    <3>2. PICK x \in Nat : x = Largest(s.ram_mb + by * 1024, 0)
      <4>1. s.ram_mb \in Nat
        BY DEF ChoiceOK
      <4>2. s.ram_mb + by * 1024 \in Int
        BY <4>1
      <4> QED BY <4>2 DEF Largest
    <3>3. Clamp(x, 2048, high) \in 2048..high
      BY <3>1 DEF Clamp, Largest, Least
    <3>4. StepRam(h, s.ram_mb, by) \in 2048..high
      <4>1. StepRam(h, s.ram_mb, by) = Clamp(x, 2048, high)
        BY <3>1, <3>2 DEF StepRam
      <4> QED BY <3>3, <4>1
    <3> QED BY <1>0, <3>1, <3>4
  <2>3. t = [selected |-> s.selected, mode |-> s.mode, monitor |-> s.monitor,
             ram_mb |-> StepRam(h, s.ram_mb, by), vcpu |-> s.vcpu]
    BY <2>1 DEF ChoiceOK, IsChoices
  <2> QED BY <2>2, <2>3 DEF ChoiceOK, IsChoices
<1>4. CASE s.selected = 4
  <2>1. t = [s EXCEPT !.vcpu = StepVcpu(h, @, by)]
    BY <1>4 DEF Stepped, Field
  <2>2. StepVcpu(h, s.vcpu, by) \in Nat \ {0}
    BY <1>0 DEF StepVcpu, Clamp, Largest, Least, ChoiceOK
  <2>3. t = [selected |-> s.selected, mode |-> s.mode, monitor |-> s.monitor,
             ram_mb |-> s.ram_mb, vcpu |-> StepVcpu(h, s.vcpu, by)]
    BY <2>1 DEF ChoiceOK, IsChoices
  <2> QED BY <2>2, <2>3 DEF ChoiceOK, IsChoices
<1> QED BY <1>1, <1>2, <1>3, <1>4 DEF ChoiceOK

\* The configuration and the choices the wizard starts with.
LEMMA StartOK ==
  ASSUME NEW h \in Hosts, NEW c, c = Start(h), NEW s, s = ChoiceState(c)
  PROVE  IsConfig(c) /\ c.roles \in [1..Len(h.gpus) -> Role] /\ ChoiceOK(h, s)
<1>0. /\ Len(h.gpus) \in Nat /\ h.ram \in Nat /\ h.threads \in Nat /\ h.cores \in Nat
      /\ DOMAIN h.gpus = 1..Len(h.gpus) /\ (h.gpus = <<>> <=> Len(h.gpus) = 0)
  BY HostType
<1>1. ToSet(MonitorPlanChoice) = {"TwoMonitors", "HookHandoff", "SwitchInputs"}
  BY DEF ToSet, MonitorPlanChoice
<1>2. s = [selected |-> 1, mode |-> c.gpu_mode, monitor |-> monitor_choice_from(c.monitor),
           ram_mb |-> c.ram_mb, vcpu |-> c.vcpu]
  BY DEF ChoiceState
<1>3. SUFFICES /\ IsConfig(c) /\ c.roles \in [1..Len(h.gpus) -> Role]
               /\ c.gpu_mode \in ToSet(AvailableModes(h))
               /\ c.monitor.plan \in {"TwoMonitors", "SwitchInputs", "LookingGlassOnly"}
               /\ c.ram_mb \in Nat /\ c.vcpu \in Nat \ {0}
               /\ h.gpus # <<>> => c.ram_mb <= Largest(h.ram - 4096, 2048)
  BY <1>1, <1>2 DEF ChoiceOK, IsChoices, monitor_choice_from
<1>4. CASE h.gpus = <<>>
  <2>1. c = [vm_name |-> 1, gpu_mode |-> "SingleGpu", roles |-> <<>>, monitor |-> OneMonitor("SwitchInputs"),
             looking_glass |-> FALSE, ram_mb |-> 8192, vcpu |-> 4, disk |-> "Create", devices |-> "ok"]
    BY <1>4 DEF Start, synthetic_empty_config
  <2>2. <<>> \in [1..Len(h.gpus) -> Role]
    <3>1. Len(h.gpus) = 0
      BY <1>0, <1>4
    <3>2. <<>> \in [1..0 -> Role]
      OBVIOUS
    <3> QED BY <3>1, <3>2, Zenon
  <2>3. c.monitor.plan = "SwitchInputs"
    <3>1. c.monitor = OneMonitor("SwitchInputs")
      BY <2>1
    <3>2. OneMonitor("SwitchInputs").plan = "SwitchInputs"
      BY DEF OneMonitor
    <3> QED BY <3>1, <3>2, Zenon
  <2> QED BY <1>4, <2>1, <2>2, <2>3, Offered DEF IsConfig
<1>5. CASE h.gpus # <<>>
  <2>0. Len(h.gpus) # 1 => Len(h.gpus) >= 2
    <3>1. Len(h.gpus) = 0 => h.gpus = <<>>
      BY <1>0
    <3>2. Len(h.gpus) # 0
      BY <1>5, <3>1, Zenon
    <3>3. Len(h.gpus) \in Nat
      BY <1>0
    <3>4. \A n \in Nat : n # 0 /\ n # 1 => n >= 2
      OBVIOUS
    <3> QED BY <3>2, <3>3, <3>4, Zenon
  <2> DEFINE r == recommend_gpu_assignment(h.gpus)
             m == recommend_monitor_plan(h, r.roles)
  <2>1. r.mode \in ToSet(AvailableModes(h)) /\ r.roles \in [1..Len(h.gpus) -> Role]
    <3> DEFINE igpu == First({i \in DOMAIN h.gpus : h.gpus[i].type = "Integrated"})
               dgpu == candidate_dgpu(h.gpus)
    <3>0. \A a, b : Roles(Len(h.gpus), a, b) \in [1..Len(h.gpus) -> Role]
      BY DEF Roles, Role
    <3>1. CASE Len(h.gpus) = 1
      <4>1. r = [mode |-> "SingleGpu", roles |-> <<"Passthrough">>]
        BY <3>1 DEF recommend_gpu_assignment
      <4>2. <<"Passthrough">> \in [1..1 -> Role]
        BY DEF Role
      <4> QED BY <3>1, <4>1, <4>2, Offered
    <3>2. CASE Len(h.gpus) # 1 /\ igpu # 0 /\ dgpu # 0
      <4>1. r = [mode |-> "IgpuHost", roles |-> Roles(Len(h.gpus), igpu, dgpu)]
        BY <3>2 DEF recommend_gpu_assignment
      <4>2. OfType(h, "Integrated") # {}
        <5>1. igpu = First(OfType(h, "Integrated")) /\ First({}) = 0
          BY FirstIsLeast DEF OfType
        <5> QED BY <3>2, <5>1, Zenon
      <4>3. Len(h.gpus) >= 2
        BY <2>0, <3>2
      <4>4. r.mode = "IgpuHost" /\ r.roles = Roles(Len(h.gpus), igpu, dgpu)
        BY <4>1
      <4>5. "IgpuHost" \in ToSet(AvailableModes(h))
        BY <4>2, <4>3, Offered, Zenon
      <4> QED BY <3>0, <4>4, <4>5, Zenon
    <3>3. CASE Len(h.gpus) # 1 /\ ~(igpu # 0 /\ dgpu # 0)
      <4>1. \E a, b : r = [mode |-> "DualGpu", roles |-> Roles(Len(h.gpus), a, b)]
        BY <3>3, Zenon DEF recommend_gpu_assignment
      <4>2. PICK a, b : r = [mode |-> "DualGpu", roles |-> Roles(Len(h.gpus), a, b)]
        BY <4>1
      <4>3. Len(h.gpus) >= 2
        BY <2>0, <3>3
      <4> HIDE DEF r
      <4>4. r.mode = "DualGpu" /\ r.roles = Roles(Len(h.gpus), a, b)
        BY <4>2
      <4>5. "DualGpu" \in ToSet(AvailableModes(h))
        BY <4>3, Offered, Zenon
      <4> QED BY <3>0, <4>4, <4>5, Zenon
    <3> QED BY <3>1, <3>2, <3>3
  <2>2. m.plan \in {"TwoMonitors", "LookingGlassOnly"}
    BY DEF recommend_monitor_plan, OneMonitor
  <2>3. /\ recommended_vm_ram_mb(h.ram) \in Nat
        /\ recommended_vm_ram_mb(h.ram) <= Largest(h.ram - 4096, 2048)
    BY <1>0 DEF recommended_vm_ram_mb, Largest, Least
  <2>4. recommend_vcpu_count(h) \in Nat \ {0}
    BY <1>0 DEF recommend_vcpu_count, Largest, Least
  <2>5. c = [vm_name |-> default_vm_name(h), gpu_mode |-> r.mode, roles |-> r.roles, monitor |-> m,
             looking_glass |-> m.plan = "LookingGlassOnly", ram_mb |-> recommended_vm_ram_mb(h.ram),
             vcpu |-> recommend_vcpu_count(h), disk |-> "Create", devices |-> "ok"]
    BY <1>5 DEF Start, recommended_defaults
  <2> HIDE DEF r, m
  <2> QED BY <2>1, <2>2, <2>3, <2>4, <2>5 DEF IsConfig
<1> QED BY <1>4, <1>5

-----------------------------------------------------------------------------
(* The list of the preview *)

\* An issue, or none.
LEMMA IssueFinite ==
  ASSUME NEW id, NEW when PROVE IsFiniteSet(Issue(id, when))
<1>1. Issue(id, when) = {} \/ Issue(id, when) = {id}
  BY Zenon DEF Issue
<1>2. IsFiniteSet({}) /\ IsFiniteSet({id})
  BY FS_EmptySet, FS_Singleton
<1> QED BY <1>1, <1>2, Zenon

\* Validation reports finitely many issues.
LEMMA ValidateFinite ==
  ASSUME NEW h, NEW c PROVE IsFiniteSet(validate(h, c))
<1>1. \A S, T : IsFiniteSet(S) /\ IsFiniteSet(T) => IsFiniteSet(S \cup T)
  BY FS_Union
<1>0. \A id, when : IsFiniteSet(Issue(id, when))
  BY IssueFinite
<1>2. IsFiniteSet(check_gpu_roles(h, c))
  BY <1>1, IssueFinite, Zenon DEF check_gpu_roles
<1>3. IsFiniteSet(check_monitors(h, c))
  <2>1. IsFiniteSet({})
    BY FS_EmptySet
  <2>2. CASE c.monitor.plan = "HookHandoff"
    <3>1. check_monitors(h, c) = Issue("HookHandoffRequiresSingleGpu", derived_mode(h, c) # "SingleGpu")
                                 \cup Issue("HookHandoffRequiresKnownDisplayManager", h.dm \in {"Unknown", "None"})
      BY <2>2 DEF check_monitors
    <3> QED BY <1>1, <3>1, IssueFinite, Zenon
  <2>3. CASE c.monitor.plan = "TwoMonitors"
    <3> DEFINE known == {h.monitors[i].name : i \in DOMAIN h.monitors}
    <3>1. check_monitors(h, c) = Issue("MonitorConnectorsCollide", c.monitor.host = c.monitor.vm)
                 \cup Issue("MonitorConnectorUnknown", ~({c.monitor.host, c.monitor.vm} \subseteq known))
      BY <2>3 DEF check_monitors
    <3>2. ASSUME NEW a, NEW b PROVE IsFiniteSet(Issue("MonitorConnectorsCollide", a) \cup Issue("MonitorConnectorUnknown", b))
      BY <1>0, <1>1, Zenon
    <3> QED BY <3>1, <3>2
  <2>4. CASE c.monitor.plan \notin {"HookHandoff", "TwoMonitors"}
    <3>1. check_monitors(h, c) = {}
      BY <2>4 DEF check_monitors
    <3> QED BY <2>1, <3>1, Zenon
  <2> QED BY <2>2, <2>3, <2>4
<1>4. IsFiniteSet(check_resources(h, c))
  <2> DEFINE A == Issue("RamTooSmall", c.ram_mb < 2048) \cup Issue("RamExceedsHost", h.ram > 0 /\ c.ram_mb >= h.ram)
             B == A \cup Issue("VcpuTooLow", c.vcpu < 2) \cup Issue("VcpuExceedsHost", c.vcpu >= Largest(h.threads, 1))
             C == B \cup Issue("DiskPathExistsForCreate", c.disk = "Create" /\ h.disk)
             D == C \cup Issue("StorageInsufficient", c.disk = "Create" /\ h.free_gb > 0 /\ 100 > h.free_gb)
  <2>1. check_resources(h, c) = D \cup Issue("DiskPathMissingForExisting", c.disk = "Existing" /\ ~h.disk)
    BY DEF check_resources
  <2>2. IsFiniteSet(A)
    BY <1>0, <1>1
  <2> HIDE DEF A
  <2>3. IsFiniteSet(B)
    BY <1>0, <1>1, <2>2
  <2> HIDE DEF B
  <2>4. IsFiniteSet(C)
    BY <1>0, <1>1, <2>3
  <2> HIDE DEF C
  <2>5. IsFiniteSet(D)
    BY <1>0, <1>1, <2>4
  <2> HIDE DEF D
  <2> QED BY <1>0, <1>1, <2>1, <2>5
<1>5. IsFiniteSet(check_vm_name(h, c)) /\ IsFiniteSet(check_looking_glass(h, c)) /\ IsFiniteSet(check_devices(c))
  BY IssueFinite, Zenon DEF check_vm_name, check_looking_glass, check_devices
<1> QED BY <1>1, <1>2, <1>3, <1>4, <1>5, IssueFinite, Zenon DEF validate

\* A plan has at least one step.
LEMMA PlanNotEmpty ==
  ASSUME NEW h, NEW c PROVE Len(plan(h, c)) \in Nat \ {0}
BY PlanShape DEF PlanOK

\* The preview lists at least one entry: a step of the plan, or an issue.
LEMMA StepCount ==
  ASSUME NEW h, NEW c, NEW p, p.errors = validate(h, c), p.errors = {} => p.steps = plan(h, c)
  PROVE  step_count(p) \in Nat \ {0}
<1>1. CASE p.errors = {}
  <2>1. step_count(p) = Len(plan(h, c))
    BY <1>1, Zenon DEF step_count
  <2> QED BY <2>1, PlanNotEmpty, Zenon
<1>2. CASE p.errors # {}
  <2>1. step_count(p) = Cardinality(validate(h, c)) /\ validate(h, c) # {}
    BY <1>2, Zenon DEF step_count
  <2>2. Cardinality(validate(h, c)) \in Nat /\ Cardinality(validate(h, c)) # 0
    BY <2>1, ValidateFinite, FS_CardinalityType, FS_EmptySet, Zenon
  <2> QED BY <2>1, <2>2, Zenon
<1> QED BY <1>1, <1>2

\* Every offset the keys lead to is an entry of the list.
LEMMA OffsetsInList ==
  ASSUME NEW p, step_count(p) \in Nat \ {0}, p.offset \in 0..(step_count(p) - 1), NEW o \in Offsets(p)
  PROVE  o \in 0..(step_count(p) - 1)
BY DEF Offsets, scroll_down, page_down, Largest, Least

\* When validation reports the issues that the theorems are about.
LEMMA Reported ==
  ASSUME NEW h, NEW c
  PROVE  /\ "CompatibilityBlocked" \in validate(h, c) <=> build_compatibility_report(h) # {}
         /\ "GpuRoleMissing" \in validate(h, c) <=> With(c, "Passthrough") = {}
         /\ "GpuModeMismatch" \in validate(h, c) <=> derived_mode(h, c) \notin {"None", c.gpu_mode}
         /\ "MultiGpuNotImplemented" \in validate(h, c) <=> derived_mode(h, c) = "MultiGpu"
         /\ "RamExceedsHost" \in validate(h, c) <=> h.ram > 0 /\ c.ram_mb >= h.ram
         /\ "VcpuTooLow" \in validate(h, c) <=> c.vcpu < 2
         /\ "VcpuExceedsHost" \in validate(h, c) <=> c.vcpu >= Largest(h.threads, 1)
<1> DEFINE few == {"CompatibilityBlocked", "GpuRoleMissing", "GpuModeMismatch", "MultiGpuNotImplemented",
                   "RamExceedsHost", "VcpuTooLow", "VcpuExceedsHost"}
<1>1. \A x \in few : x \notin check_monitors(h, c)
  <2>1. CASE c.monitor.plan = "HookHandoff"
    BY <2>1 DEF check_monitors, Issue
  <2>2. CASE c.monitor.plan = "TwoMonitors"
    BY <2>2 DEF check_monitors, Issue
  <2>3. CASE c.monitor.plan \notin {"HookHandoff", "TwoMonitors"}
    BY <2>3 DEF check_monitors, Issue
  <2> QED BY <2>1, <2>2, <2>3
<1>2. \A x \in few : x \notin check_vm_name(h, c) /\ x \notin check_looking_glass(h, c) /\ x \notin check_devices(c)
  BY DEF check_vm_name, check_looking_glass, check_devices, Issue
<1>3. \A x : x \in validate(h, c) <=>
         \/ x = "CompatibilityBlocked" /\ build_compatibility_report(h) # {}
         \/ x \in check_vm_name(h, c) \/ x \in check_gpu_roles(h, c) \/ x \in check_monitors(h, c)
         \/ x \in check_looking_glass(h, c) \/ x \in check_resources(h, c) \/ x \in check_devices(c)
  BY DEF validate, Issue
<1>4. \A x \in few : x \in check_gpu_roles(h, c) <=>
         \/ x = "GpuRoleMissing" /\ With(c, "Passthrough") = {}
         \/ x = "GpuModeMismatch" /\ derived_mode(h, c) \notin {"None", c.gpu_mode}
         \/ x = "MultiGpuNotImplemented" /\ derived_mode(h, c) = "MultiGpu"
  BY DEF check_gpu_roles, Issue
<1>5. \A x \in few : x \in check_resources(h, c) <=>
         \/ x = "RamExceedsHost" /\ h.ram > 0 /\ c.ram_mb >= h.ram
         \/ x = "VcpuTooLow" /\ c.vcpu < 2
         \/ x = "VcpuExceedsHost" /\ c.vcpu >= Largest(h.threads, 1)
  BY DEF check_resources, Issue
<1>6. \A x \in few : x \in validate(h, c) <=>
         \/ x = "CompatibilityBlocked" /\ build_compatibility_report(h) # {}
         \/ x \in check_gpu_roles(h, c) \/ x \in check_resources(h, c)
  BY <1>1, <1>2, <1>3, Zenon
<1> QED BY <1>4, <1>5, <1>6

-----------------------------------------------------------------------------
(* The inductive invariant *)

\* A preview is shown exactly from entering it to leaving it, and what is confirmed is valid.
PreviewOK ==
  /\ screen \in {"Detection", "Choices"} => preview = NoPreview
  /\ screen = "Preview" => Shown
  /\ Shown => /\ IsPreview(preview)
              /\ preview.offset \in 0..(step_count(preview) - 1)
              /\ preview.confirmed => preview.errors = {}

IInv ==
  /\ host \in Hosts
  /\ screen \in {"Detection", "Choices", "Preview", "Exiting"}
  /\ IsConfig(config) /\ config.roles \in [1..Len(host.gpus) -> Role]
  /\ ChoiceOK(host, choices)
  /\ PreviewOK
  /\ PreviewCurrent

\* The first screen.
LEMMA InitInv == Init => IInv
<1> SUFFICES ASSUME Init PROVE IInv
  OBVIOUS
<1>1. PICK h \in Hosts : host = h /\ config = Start(h) /\ choices = ChoiceState(Start(h))
  BY DEF Init
<1>2. IsConfig(config) /\ config.roles \in [1..Len(host.gpus) -> Role] /\ ChoiceOK(host, choices)
  BY <1>1, StartOK
<1>3. screen = "Detection" /\ ~Shown /\ preview = NoPreview
  BY DEF Init, Shown
<1> QED BY <1>1, <1>2, <1>3 DEF IInv, PreviewOK, PreviewCurrent

\* Choosing, on either event of the choice screen.
LEMMA ChoosingInv ==
  ASSUME IInv, screen = "Choices", ChoiceOK(host, choices'), config' = apply_to(host, choices', config),
         UNCHANGED <<host, screen, preview>>
  PROVE  IInv'
<1>1. choices'.mode \in OfferedMode
  BY Offered DEF IInv, ChoiceOK
<1>2. IsConfig(config') /\ config'.roles \in [1..Len(host.gpus) -> Role]
  BY <1>1, CommitTwice DEF IInv
<1>3. preview = NoPreview
  BY DEF IInv, PreviewOK
<1> QED BY <1>2, <1>3 DEF IInv, PreviewOK, PreviewCurrent, Shown

\* Entering the preview.
LEMMA EnterInv == IInv /\ enter_preview => IInv'
<1> SUFFICES ASSUME IInv, enter_preview PROVE IInv'
  OBVIOUS
<1>1. choices.mode \in OfferedMode /\ config' = apply_to(host, choices, config)
  BY Offered DEF IInv, ChoiceOK, enter_preview
<1>2. IsConfig(config') /\ config'.roles \in [1..Len(host.gpus) -> Role] /\ config' = apply_to(host, choices, config')
  BY <1>1, CommitTwice DEF IInv
<1> DEFINE errors == validate(host, config')
           steps  == IF errors = {} THEN plan(host, config') ELSE <<>>
<1>3. preview' = [errors |-> errors, steps |-> steps, offset |-> 0, confirmed |-> FALSE]
  BY DEF enter_preview, PreviewState
<1> HIDE DEF errors, steps
<1>4. IsPreview(preview') /\ preview'.errors = errors /\ preview'.steps = steps /\ preview'.offset = 0 /\ ~preview'.confirmed
  BY <1>3 DEF IsPreview
<1>5. preview'.errors = validate(host, config')
  BY <1>4 DEF errors
<1>6. preview'.errors = {} => preview'.steps = plan(host, config')
  BY <1>4, Zenon DEF steps
<1>7. step_count(preview') \in Nat \ {0}
  BY <1>5, <1>6, StepCount
<1>8. preview' # NoPreview
  <2>1. "errors" \in DOMAIN preview'
    BY <1>3
  <2>2. DOMAIN NoPreview = {}
    BY DEF NoPreview
  <2> QED BY <2>1, <2>2
<1>9. host' = host /\ choices' = choices /\ screen' = "Preview"
  BY DEF enter_preview
<1>10. PreviewOK'
  BY <1>4, <1>7, <1>8, <1>9 DEF PreviewOK, Shown
<1>11. PreviewCurrent'
  BY <1>2, <1>5, <1>6, <1>9, Zenon DEF PreviewCurrent
<1> QED BY <1>2, <1>9, <1>10, <1>11 DEF IInv

\* Scrolling and confirming, which leave the entries of the preview alone.
LEMMA ReadingInv ==
  ASSUME IInv, screen = "Preview", NEW o \in 0..(step_count(preview) - 1), NEW b,
         b => preview.errors = {},
         preview' = [errors |-> preview.errors, steps |-> preview.steps, offset |-> o, confirmed |-> b],
         screen' \in {"Preview", "Exiting"}, UNCHANGED <<host, choices, config>>
  PROVE  IInv'
<1>1. /\ preview'.errors = preview.errors /\ preview'.steps = preview.steps /\ preview'.offset = o
      /\ preview'.confirmed = b /\ IsPreview(preview')
  BY DEF IsPreview
<1>2. step_count(preview') = step_count(preview)
  BY <1>1, Zenon DEF step_count
<1>3. preview' # NoPreview
  <2>1. "errors" \in DOMAIN preview'
    OBVIOUS
  <2>2. DOMAIN NoPreview = {}
    BY DEF NoPreview
  <2> QED BY <2>1, <2>2
<1>4. PreviewOK'
  BY <1>1, <1>2, <1>3 DEF PreviewOK, Shown
<1>5. PreviewCurrent'
  BY <1>1, Zenon DEF PreviewCurrent, IInv, PreviewOK
<1> QED BY <1>4, <1>5 DEF IInv

\* Every event keeps the invariant.
LEMMA NextInv == IInv /\ [Next]_vars => IInv'
<1> SUFFICES ASSUME IInv, [Next]_vars PROVE IInv'
  OBVIOUS
<1>1. CASE to_choices
  BY <1>1 DEF IInv, to_choices, PreviewOK, PreviewCurrent, Shown
<1>2. ASSUME NEW by \in {-1, 1}, move(by) PROVE IInv'
  <2>1. ChoiceOK(host, choices')
    BY <1>2, MovedOK DEF IInv, move
  <2> QED BY <1>2, <2>1, ChoosingInv DEF move
<1>3. ASSUME NEW by \in {-1, 1}, edit(by) PROVE IInv'
  <2>1. ChoiceOK(host, choices')
    BY <1>3, SteppedOK DEF IInv, edit
  <2> QED BY <1>3, <2>1, ChoosingInv DEF edit
<1>4. CASE enter_preview
  BY <1>4, EnterInv
<1>5. CASE scroll
  <2>1. PICK o \in Offsets(preview) : preview' = [preview EXCEPT !.offset = o]
    BY <1>5 DEF scroll
  <2>2. /\ IsPreview(preview) /\ step_count(preview) \in Nat \ {0}
        /\ preview.offset \in 0..(step_count(preview) - 1) /\ (preview.confirmed => preview.errors = {})
    BY <1>5, StepCount DEF IInv, PreviewOK, PreviewCurrent, scroll
  <2>3. o \in 0..(step_count(preview) - 1)
    BY <2>2, OffsetsInList
  <2>4. preview' = [errors |-> preview.errors, steps |-> preview.steps, offset |-> o, confirmed |-> preview.confirmed]
    BY <2>1, <2>2 DEF IsPreview
  <2> QED BY <1>5, <2>2, <2>3, <2>4, ReadingInv DEF scroll
<1>6. CASE confirm
  <2>1. IsPreview(preview) /\ preview.offset \in 0..(step_count(preview) - 1) /\ preview.errors = {}
    BY <1>6 DEF IInv, PreviewOK, confirm, can_confirm
  <2>2. preview' = [errors |-> preview.errors, steps |-> preview.steps, offset |-> preview.offset, confirmed |-> TRUE]
    BY <1>6, <2>1 DEF IsPreview, confirm
  <2> QED BY <1>6, <2>1, <2>2, ReadingInv DEF confirm
<1>7. CASE back
  BY <1>7 DEF IInv, back, PreviewOK, PreviewCurrent, Shown
<1>8. CASE quit
  BY <1>8 DEF IInv, quit, PreviewOK, PreviewCurrent, Shown
<1>9. CASE UNCHANGED vars
  BY <1>9 DEF IInv, vars, PreviewOK, PreviewCurrent, Shown
<1> QED BY <1>1, <1>2, <1>3, <1>4, <1>5, <1>6, <1>7, <1>8, <1>9 DEF Next

\* The invariant holds in every state of the wizard.
THEOREM Invariance == Spec => []IInv
BY InitInv, NextInv, PTL DEF Spec

\* The highlighted field, the choices and the offset of the preview are always ones the screens have.
THEOREM TypeCorrect == Spec => []TypeOK
<1>1. IInv => TypeOK
  <2> SUFFICES ASSUME IInv PROVE TypeOK
    OBVIOUS
  <2>1. screen = "Preview" => /\ preview # NoPreview
                              /\ step_count(preview) \in Nat \ {0}
                              /\ preview.offset \in 0..(step_count(preview) - 1)
    BY StepCount DEF IInv, PreviewOK, PreviewCurrent, Shown
  <2> QED BY <2>1 DEF IInv, ChoiceOK, TypeOK
<1> QED BY <1>1, Invariance, PTL

\* The preview shows the plan or the issues of the configuration that is printed at the end.
THEOREM PreviewCurrentAlways == Spec => []PreviewCurrent
<1>1. IInv => PreviewCurrent
  BY DEF IInv
<1> QED BY <1>1, Invariance, PTL

\* What a shown preview means for the configuration: its roles are aligned with its mode.
LEMMA ShownAligned ==
  ASSUME IInv, Shown
  PROVE  /\ config.gpu_mode = choices.mode /\ choices.mode \in ToSet(AvailableModes(host))
         /\ config.roles \in [1..Len(host.gpus) -> Role]
         /\ config.roles = align_gpu_roles_to_mode(host, config.roles, choices.mode)
         /\ config.ram_mb = choices.ram_mb /\ config.vcpu = choices.vcpu
         /\ preview.errors = validate(host, config)
<1>1. config = apply_to(host, choices, config) /\ preview.errors = validate(host, config) /\ IsConfig(config)
  BY DEF IInv, PreviewCurrent
<1> QED BY <1>1, Applied DEF IInv, ChoiceOK

\* No sequence of choices shows a preview whose roles contradict its mode.
THEOREM RolesAlignedAlways == Spec => []RolesAligned
<1>1. IInv => RolesAligned
  <2> SUFFICES ASSUME IInv, Shown PROVE preview.errors \cap {"GpuModeMismatch", "MultiGpuNotImplemented"} = {}
    BY DEF RolesAligned
  <2>1. derived_mode(host, config) \in {"None", config.gpu_mode}
    BY ShownAligned, AlignedMode DEF IInv
  <2>2. config.gpu_mode \in OfferedMode
    BY ShownAligned, Offered DEF IInv
  <2>3. derived_mode(host, config) # "MultiGpu"
    BY <2>1, <2>2 DEF OfferedMode
  <2>4. "GpuModeMismatch" \notin validate(host, config) /\ "MultiGpuNotImplemented" \notin validate(host, config)
    BY <2>1, <2>3, Reported, Zenon
  <2> QED BY <2>4, ShownAligned
<1> QED BY <1>1, Invariance, PTL

\* What is confirmed leaves the host a thread, memory, and beyond the minimum of 2 GiB for the guest its 4 GiB.
THEOREM ReserveKeptAlways == Spec => []ReserveKept
<1>1. IInv => ReserveKept
  <2> SUFFICES ASSUME IInv, Shown, preview.confirmed
               PROVE  /\ config.ram_mb <= Largest(host.ram - 4096, 2048)
                      /\ host.ram > 0 => config.ram_mb < host.ram
                      /\ config.vcpu < host.threads
    BY DEF ReserveKept
  <2>1. validate(host, config) = {}
    BY ShownAligned DEF IInv, PreviewOK
  <2>2. /\ build_compatibility_report(host) = {} /\ ~(config.vcpu < 2) /\ ~(config.vcpu >= Largest(host.threads, 1))
        /\ ~(host.ram > 0 /\ config.ram_mb >= host.ram)
    BY <2>1, Reported
  <2>3. host.gpus # <<>>
    <3>1. host.gpus = <<>> => "gpus-detected" \in build_compatibility_report(host)
      BY DEF build_compatibility_report, push_gpu_state
    <3> QED BY <2>2, <3>1
  <2>4. config.ram_mb = choices.ram_mb /\ config.vcpu = choices.vcpu /\ config.vcpu \in Nat /\ host.threads \in Nat
    BY ShownAligned, HostType DEF IInv, ChoiceOK
  <2>5. config.vcpu < host.threads
    BY <2>2, <2>4 DEF Largest
  <2>6. host.ram > 0 => config.ram_mb < host.ram
    <3>1. config.ram_mb \in Nat /\ host.ram \in Nat
      BY <2>4, HostType DEF IInv, ChoiceOK
    <3> QED BY <2>2, <3>1
  <2>7. config.ram_mb <= Largest(host.ram - 4096, 2048)
    BY <2>3, <2>4 DEF IInv, ChoiceOK
  <2> QED BY <2>5, <2>6, <2>7
<1> QED BY <1>1, Invariance, PTL

\* No host has two integrated GPUs: a consumer CPU package carries at most one.
OneIntegrated == \A h \in Hosts : Cardinality(OfType(h, "Integrated")) <= 1

\* What is confirmed can be rendered, on hosts with at most one integrated GPU: with
\* two, iGPU mode keeps both, validation accepts it, and no domain can be rendered.
THEOREM ConfirmedRendersAlways ==
  ASSUME OneIntegrated PROVE Spec => []ConfirmedRenders
<1>1. IInv => ConfirmedRenders
  <2> SUFFICES ASSUME IInv, Shown, preview.confirmed PROVE validate(host, config) = {} /\ vm_view(host, config)
    BY DEF ConfirmedRenders
  <2>1. validate(host, config) = {}
    BY ShownAligned DEF IInv, PreviewOK
  <2>2. With(config, "Passthrough") # {}
    BY <2>1, Reported
  <2>3. Cardinality(OfType(host, "Integrated")) <= 1
    BY DEF OneIntegrated, IInv
  <2>4. derived_mode(host, config) = choices.mode /\ (choices.mode # "SingleGpu" => Cardinality(With(config, "Host")) = 1)
    BY <2>2, <2>3, ShownAligned, AlignedMode DEF IInv
  <2>5. choices.mode \in OfferedMode
    BY ShownAligned, Offered DEF IInv
  <2> QED BY <2>1, <2>4, <2>5 DEF vm_view, OfferedMode
<1> QED BY <1>1, Invariance, PTL
=============================================================================
