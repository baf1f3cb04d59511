-------------------------------- MODULE Wizard --------------------------------
(***************************************************************************)
(* The interactive wizard (src/src/tui): detection, choices, plan preview, *)
(* confirmation.  One action is one event of run_event_loop on one screen; *)
(* drawing, key bindings and events that a screen ignores are left out.    *)
(* The profile is scanned once, before the first screen.  Decisions has    *)
(* the defaults, validation and the plan that the wizard works with.       *)
(***************************************************************************)
EXTENDS Decisions

CONSTANT Hosts  \* the scanned hosts the wizard is started on

ASSUME WizardAssumption ==
  \A h \in Hosts : /\ h.gpus \in Seq(ToSet(h.gpus))
                   /\ h.ram \in Nat /\ h.threads \in Nat /\ h.cores \in Nat

Field == <<"GpuMode", "MonitorPlan", "RamMb", "VcpuCount">>
MonitorPlanChoice == <<"TwoMonitors", "HookHandoff", "SwitchInputs">>

VARIABLES
  host,     \* the profile
  screen,   \* Detection, Choices, Preview or Exiting
  choices,  \* the choice screen: highlighted field and one value per field
  config,   \* the working configuration
  preview   \* none, or what the preview shows: issues, steps, offset, confirmed

vars == <<host, screen, choices, config, preview>>

NoPreview == <<>>

-----------------------------------------------------------------------------
(* The choice screen *)

\* The modes that are offered, most preferred first.
AvailableModes(h) ==
  LET several == Len(h.gpus) >= 2
      igpu    == \E i \in DOMAIN h.gpus : h.gpus[i].type = "Integrated"
  IN  (IF igpu /\ several THEN <<"IgpuHost">> ELSE <<>>)
      \o (IF several THEN <<"DualGpu">> ELSE <<>>) \o <<"SingleGpu">>

\* LookingGlassOnly cannot be chosen and shows as SwitchInputs.
monitor_choice_from(m) == IF m.plan = "LookingGlassOnly" THEN "SwitchInputs" ELSE m.plan

ChoiceState(c) ==
  [selected |-> 1, mode |-> c.gpu_mode, monitor |-> monitor_choice_from(c.monitor),
   ram_mb |-> c.ram_mb, vcpu |-> c.vcpu]

\* The neighbour of a value in a cycle; a value that is not there counts as the first.
Cycle(seq, value, by) ==
  LET at == OrElse(First({i \in DOMAIN seq : seq[i] = value}), 1)
  IN  seq[((at - 1 + by) % Len(seq)) + 1]

Clamp(x, low, high) == Largest(low, Least(x, high))

\* Mutant: more memory is only limited by what the host has.
StepRam_unreserved(h, ram, by) == Clamp(Largest(ram + by * 1024, 0), 2048, Largest(h.ram - 1024, 2048))

StepRam(h, ram, by)   == Clamp(Largest(ram + by * 1024, 0), 2048, Largest(h.ram - 4096, 2048))
StepVcpu(h, vcpu, by) == Clamp(Largest(vcpu + by, 0), 1, Largest(h.threads - 1, 1))

\* decrement (by = -1) and increment (by = 1) of the highlighted field
Stepped(h, s, by) ==
  CASE Field[s.selected] = "GpuMode"     -> [s EXCEPT !.mode = Cycle(AvailableModes(h), @, by)]
    [] Field[s.selected] = "MonitorPlan" -> [s EXCEPT !.monitor = Cycle(MonitorPlanChoice, @, by)]
    [] Field[s.selected] = "RamMb"       -> [s EXCEPT !.ram_mb = StepRam(h, @, by)]
    [] Field[s.selected] = "VcpuCount"   -> [s EXCEPT !.vcpu = StepVcpu(h, @, by)]

\* PrevField (by = -1) and NextField (by = 1)
Moved(s, by) == [s EXCEPT !.selected = ((@ - 1 + by) % Len(Field)) + 1]

\* The first two connected connectors, or the names DP-1 and DP-2.
monitor_plan_from_choice(h, choice) ==
  LET names == SelectSeq(h.monitors, LAMBDA m : m.connected)
  IN  IF choice # "TwoMonitors" THEN OneMonitor(choice)
      ELSE [plan |-> "TwoMonitors",
            host |-> IF Len(names) >= 1 THEN names[1].name ELSE "DP-1",
            vm   |-> IF Len(names) >= 2 THEN names[2].name ELSE "DP-2"]

OfType(h, type) == {i \in DOMAIN h.gpus : h.gpus[i].type = type}

\* Mutant: with several discrete GPUs every one of them is passed through.
align_gpu_roles_to_mode_all(h, roles, mode) ==
  IF mode = "IgpuHost"
  THEN [i \in DOMAIN roles |-> CASE i \in OfType(h, "Integrated") -> "Host"
                                 [] i \in OfType(h, "Discrete") -> "Passthrough"
                                 [] OTHER -> "Ignored"]
  ELSE Roles(Len(roles), IF mode = "DualGpu" THEN First(OfType(h, "Discrete")) ELSE 0,
             IF mode = "DualGpu" THEN First(OfType(h, "Discrete") \ {First(OfType(h, "Discrete"))})
             ELSE OrElse(First({i \in DOMAIN roles : roles[i] = "Passthrough"}), First(OfType(h, "Discrete"))))

align_gpu_roles_to_mode(h, roles, mode) ==
  LET discrete == OfType(h, "Discrete")
      kept     == First({i \in DOMAIN roles : roles[i] = "Passthrough"})
  IN  CASE mode = "SingleGpu" -> Roles(Len(roles), 0, OrElse(kept, First(discrete)))
        [] mode = "IgpuHost"  -> [i \in DOMAIN roles |->
                                    CASE i \in OfType(h, "Integrated") -> "Host"
                                      [] i = First(discrete) -> "Passthrough"
                                      [] OTHER -> "Ignored"]
        [] mode = "DualGpu"   -> Roles(Len(roles), First(discrete), First(discrete \ {First(discrete)}))
        [] mode = "MultiGpu"  -> roles

apply_to(h, s, c) ==
  [c EXCEPT !.gpu_mode = s.mode,
            !.roles    = align_gpu_roles_to_mode(h, @, s.mode),
            !.monitor  = monitor_plan_from_choice(h, s.monitor),
            !.ram_mb   = s.ram_mb,
            !.vcpu     = s.vcpu]

-----------------------------------------------------------------------------
(* The preview *)

\* Of plan's refusals (planner.rs lines 158-170) none is left once validate has
\* passed: it reports a blocked host and its own errors first, so PlanFailed
\* (preview.rs line 90) is no result here.
PreviewState(h, c) ==
  LET errors == validate(h, c) IN
  [errors |-> errors, steps |-> IF errors = {} THEN plan(h, c) ELSE <<>>, offset |-> 0, confirmed |-> FALSE]

\* Mutant: a plan with errors can be confirmed as well.
can_confirm_always(p) == TRUE

can_confirm(p) == p.errors = {}

\* The length of the scrolled list. The errors are the set of their ids: two
\* errors of one id, two unknown connectors say, are two lines on the screen and
\* count once here.
step_count(p)  == IF p.errors = {} THEN Len(p.steps) ELSE Cardinality(p.errors)

\* Mutant: a page further, past the end of the list.
page_down_unbounded(p) == p.offset + 5

page_down(p)   == Least(p.offset + 5, Largest(step_count(p) - 1, 0))
scroll_down(p) == IF p.offset + 1 < step_count(p) THEN p.offset + 1 ELSE p.offset

Offsets(p) == {Largest(p.offset - 1, 0), scroll_down(p), Largest(p.offset - 5, 0), page_down(p)}

-----------------------------------------------------------------------------
(* Events *)

\* What the wizard edits when there is no GPU.
synthetic_empty_config ==
  [vm_name |-> 1, gpu_mode |-> "SingleGpu", roles |-> <<>>, monitor |-> OneMonitor("SwitchInputs"),
   looking_glass |-> FALSE, ram_mb |-> 8192, vcpu |-> 4, disk |-> "Create", devices |-> "ok"]

Start(h) == IF h.gpus = <<>> THEN synthetic_empty_config ELSE recommended_defaults(h)

Init ==
  \E h \in Hosts :
    /\ host = h
    /\ config = Start(h)
    /\ choices = ChoiceState(Start(h))
    /\ screen = "Detection"
    /\ preview = NoPreview

to_choices ==
  /\ screen = "Detection"
  /\ screen' = "Choices"
  /\ UNCHANGED <<host, choices, config, preview>>

move(by) ==
  /\ screen = "Choices"
  /\ choices' = Moved(choices, by)
  /\ config' = apply_to(host, choices', config)
  /\ UNCHANGED <<host, screen, preview>>

edit(by) ==
  /\ screen = "Choices"
  /\ choices' = Stepped(host, choices, by)
  /\ config' = apply_to(host, choices', config)
  /\ UNCHANGED <<host, screen, preview>>

\* Mutant: the choices are not committed again.
enter_preview_uncommitted ==
  /\ screen = "Choices"
  /\ config' = config
  /\ preview' = PreviewState(host, config)
  /\ screen' = "Preview"
  /\ UNCHANGED <<host, choices>>

enter_preview ==
  /\ screen = "Choices"
  /\ config' = apply_to(host, choices, config)
  /\ preview' = PreviewState(host, config')
  /\ screen' = "Preview"
  /\ UNCHANGED <<host, choices>>

scroll ==
  /\ screen = "Preview"
  /\ \E o \in Offsets(preview) : preview' = [preview EXCEPT !.offset = o]
  /\ UNCHANGED <<host, screen, choices, config>>

confirm ==
  /\ screen = "Preview"
  /\ can_confirm(preview)
  /\ preview' = [preview EXCEPT !.confirmed = TRUE]
  /\ screen' = "Exiting"
  /\ UNCHANGED <<host, choices, config>>

back ==
  /\ screen = "Preview"
  /\ screen' = "Choices"
  /\ preview' = NoPreview
  /\ UNCHANGED <<host, choices, config>>

quit ==
  /\ screen \in {"Detection", "Choices"}
  /\ screen' = "Exiting"
  /\ UNCHANGED <<host, choices, config, preview>>

Next ==
  \/ to_choices
  \/ \E by \in {-1, 1} : move(by) \/ edit(by)
  \/ enter_preview
  \/ scroll \/ confirm \/ back
  \/ quit

Spec == Init /\ [][Next]_vars
-----------------------------------------------------------------------------
(* Properties *)

\* The highlighted field and the choices are ones the screen offers, and the
\* preview's offset is an entry of its list.
TypeOK ==
  /\ screen \in {"Detection", "Choices", "Preview", "Exiting"}
  /\ choices.selected \in 1..4
  /\ choices.mode \in ToSet(AvailableModes(host))
  /\ choices.monitor \in ToSet(MonitorPlanChoice)
  /\ choices.ram_mb \in Nat /\ choices.vcpu \in Nat \ {0}
  /\ screen = "Preview" => /\ preview # NoPreview
                           /\ step_count(preview) > 0
                           /\ preview.offset \in 0..(step_count(preview) - 1)

Shown == preview # NoPreview

\* The preview "sees current data" (tui/mod.rs lines 274-278): however the user
\* went back and forth, it shows the plan or the issues of the configuration that
\* is printed at the end, and that configuration is what the choices make of it.
PreviewCurrent ==
  Shown => /\ preview.errors = validate(host, config)
           /\ preview.errors = {} => preview.steps = plan(host, config)
           /\ config = apply_to(host, choices, config)

\* Cycling through the modes in any order never shows a plan whose roles
\* contradict its mode: "Doing the alignment here means the plan-preview screen
\* sees a consistent config" (choices.rs lines 384-385).
RolesAligned ==
  Shown => preview.errors \cap {"GpuModeMismatch", "MultiGpuNotImplemented"} = {}

\* What is confirmed leaves the host something on every machine, whatever the
\* recommendation was and however the fields were stepped from it (choices.rs
\* lines 164-217, validation.rs lines 546-576): the guest has what is left beyond
\* the host's 4 GiB or the minimum of 2 GiB, whichever is more, always less than
\* all of a known memory, and one thread at least stays with the host.
ReserveKept ==
  Shown /\ preview.confirmed =>
    /\ config.ram_mb <= Largest(host.ram - 4096, 2048)
    /\ host.ram > 0 => config.ram_mb < host.ram
    /\ config.vcpu < host.threads

\* What is confirmed can be carried out, whatever was shown before it: it is
\* valid, and it passes exactly one GPU through and names the one the host keeps,
\* so that a domain can be rendered from it ("gated on this so users cannot
\* accidentally accept a broken plan", preview.rs lines 126-127).
ConfirmedRenders ==
  Shown /\ preview.confirmed => validate(host, config) = {} /\ vm_view(host, config)
=============================================================================
