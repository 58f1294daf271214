------------------------ MODULE KernelModulesProofs ------------------------
(***************************************************************************)
(* What every component that works on the kernel's modules relies on: the  *)
(* steps of the kernel and of modprobe keep it well typed and consistent.  *)
(***************************************************************************)
EXTENDS KernelModules, TLAPS

KernelInv == KernelTypeOK /\ KernelConsistent

(* Dependencies are transitive, and no module depends on itself.           *)
LEMMA UsesTransitive ==
    ASSUME NEW x \in Modules, NEW y \in Uses[x], NEW z \in Uses[y]
    PROVE  /\ y \in Modules /\ z \in Modules
           /\ z \in Uses[x] /\ z # x
BY KernelModulesAssumption

(* modprobe -r, and what it takes along, breaks no dependency: whatever    *)
(* still needs a module that goes would have kept that module from going.  *)
LEMMA RemoveConsistent ==
    ASSUME KernelInv, NEW m \in Modules, Removable(m), RemoveModule(m)
    PROVE  KernelInv'
<1> USE DEF KernelInv, KernelTypeOK, KernelConsistent
<1>1. ASSUME NEW x \in loaded', NEW y \in Uses[x] PROVE y \in loaded'
  <2>1. x \in loaded /\ x \in Modules /\ x # m /\ x \notin Orphaned(m) /\ y \in loaded
    BY <1>1 DEF RemoveModule
  <2>2. y # m
    BY <1>1, <2>1 DEF Removable, Holders
  <2>3. SUFFICES ASSUME y \in Orphaned(m) PROVE FALSE
    BY <2>1, <2>2 DEF RemoveModule
  <2>4. x \in Holders(y) \ {m}
    BY <1>1, <2>1 DEF Holders
  <2>5. x \in Uses[m] /\ x \notin opened
    BY <2>1, <2>3, <2>4 DEF Orphaned
  <2>6. Holders(x) \subseteq Holders(y)
    BY <1>1, <2>1, UsesTransitive DEF Holders
  <2> QED
    BY <2>1, <2>3, <2>5, <2>6 DEF Orphaned
<1>2. \A d \in bound' : ModuleOf[d] \in loaded'
  BY DEF RemoveModule
<1>3. opened' \subseteq loaded'
  BY DEF RemoveModule, Removable, Orphaned
<1> QED
  BY <1>1, <1>2, <1>3 DEF RemoveModule

(* What the kernel does on its own keeps it consistent.                    *)
LEMMA KernelStepConsistent ==
    ASSUME KernelInv, KernelNext
    PROVE  KernelInv'
<1> USE DEF KernelInv, KernelTypeOK, KernelConsistent
<1>1. ASSUME NEW d \in Drivers, BindDevice(d) \/ UnbindDevice(d) PROVE KernelInv'
  BY <1>1 DEF BindDevice, UnbindDevice
<1>2. ASSUME NEW m \in Modules, Open(m) \/ Close(m) PROVE KernelInv'
  BY <1>2 DEF Open, Close
<1>3. ASSUME NEW m \in Modules, Load(m) PROVE KernelInv'
  <2>1. Uses[m] \subseteq Modules
    BY KernelModulesAssumption
  <2>2. \A x \in loaded' : Uses[x] \subseteq loaded'
    BY <1>3, <2>1, UsesTransitive DEF Load
  <2> QED
    BY <1>3, <2>1, <2>2 DEF Load
<1>4. ASSUME NEW m \in Modules, Removable(m), RemoveModule(m) PROVE KernelInv'
  BY <1>4, RemoveConsistent
<1> QED
  BY <1>1, <1>2, <1>3, <1>4 DEF KernelNext

=============================================================================
