------------------------------ MODULE MC_Wizard ------------------------------
(* Hosts for Wizard: every GPU layout with the screens that matter to it, and *)
(* small ones, so that the limits of memory and processors are met.           *)
EXTENDS Wizard, HostCatalog

Small == [Base EXCEPT !.ram = 8192, !.cpuinfo = Cpu(2, 0)]

Layouts == {[Small EXCEPT !.pci = g, !.drm = m] : g \in {<<>>} \cup Single \cup Pairs \cup Foreign \cup Triples,
              m \in {<<>>, <<Connector("DP-1", 1, TRUE, FALSE), Connector("DP-2", 3, TRUE, FALSE)>>}}
Limits  == {[Small EXCEPT !.ram = r, !.cpuinfo = p] : r \in {0, 4096, 5120, 6144, 10240},
              p \in {Cpu(0, 1), Cpu(1, 0), Cpu(0, 3), Cpu(2, 1)}}
Lacking == {[Small EXCEPT !.dm = "Unknown"], [Small EXCEPT !.lacks = {"iommu"}], [Small EXCEPT !.defined = {1}],
            [Small EXCEPT !.disk = TRUE], [Small EXCEPT !.kind = "Refind"]}
\* The second card is already on vfio-pci.
Landed  == {[Small EXCEPT !.pci = [j \in DOMAIN g |-> IF g[j].id \in {5, 6} THEN [g[j] EXCEPT !.driver = "vfio-pci"]
                                                      ELSE g[j]]] : g \in Pairs}

WizardHosts == {scan_system(m) : m \in Layouts \cup Limits \cup Lacking \cup Landed}
=============================================================================
