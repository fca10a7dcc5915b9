------------------------------ MODULE MsixProofs -------------------------------
(***************************************************************************)
(* Proofs about the interrupt layer, for every number of vectors: type      *)
(* correctness, and that nothing leaks, that the device is unmasked only    *)
(* over a complete set of handlers, and that no filter and no task outlives *)
(* what it uses.  The last one needs that a detach does not begin while a   *)
(* sysctl is inside a filter.                                               *)
(***************************************************************************)
EXTENDS Msix, TLAPS

(* Where the configuration thread may be.                                   *)
Bare == {"init_softc", "alloc_bar", "hw_attach_pci", "create_taskqueue"}
Down == {"hw_detach", "release_bar", "deinit_softc", "gone"}
Ladder == {"alloc_msix", "setup_vector", "unwind", "setup_msi", "setup_intx", "setup_failed"}
Up == {"enable", "make_dev", "publish", "attached", "destroy_dev", "mask"}
Teardown == {"teardown_vectors", "drain", "free_taskqueue", "release_msi"}
Labels == Bare \cup Down \cup Ladder \cup Up \cup Teardown

\* What the place of the configuration thread says about the devices it holds.
Held ==
    /\ pc \in Labels
    /\ softc \in BOOLEAN /\ (softc <=> pc \notin {"init_softc", "gone"})
    /\ bar \in BOOLEAN
    /\ bar <=> pc \notin {"init_softc", "alloc_bar", "deinit_softc", "gone"}
    /\ hw \in BOOLEAN
    /\ hw <=> pc \notin {"init_softc", "alloc_bar", "hw_attach_pci",
                         "release_bar", "deinit_softc", "gone"}
    /\ cdev \in BOOLEAN /\ (cdev <=> pc \in {"publish", "attached", "destroy_dev"})
    /\ pci_attached \in BOOLEAN /\ (pci_attached <=> pc = "attached")
    /\ intr_tq \in BOOLEAN
    /\ intr_tq <=> pc \in Ladder \cup Up \cup (Teardown \ {"release_msi"})
    /\ unmasked \in BOOLEAN /\ (unmasked <=> pc \in Up \ {"enable"})

\* The rung that was reached, while it is up or being taken down.
Rung ==
    /\ num_vectors = IF intr_mode = "msix" THEN MaxVectors ELSE 1
    /\ msi = IF intr_mode = "legacy" THEN "none" ELSE intr_mode

\* One of the two halves of a turn of a teardown loop.
Shrinking == irqs = 0 .. vec /\ handlers \in {0 .. vec, 0 .. vec - 1}

\* What it says about the messages, the interrupts and the handlers.
Reached ==
    /\ pc \in Bare \cup Down \cup {"alloc_msix", "setup_msi", "setup_intx", "setup_failed"} =>
         msi = "none" /\ irqs = {} /\ handlers = {}
    /\ pc = "setup_vector" =>
         msi = "msix" /\ vec \in Vectors /\ irqs = 0 .. vec - 1 /\ handlers = irqs
    /\ pc = "unwind" => msi = "msix" /\ Shrinking
    /\ pc \in Up => Rung /\ irqs = 0 .. num_vectors - 1 /\ handlers = irqs
    /\ pc \in Teardown => Rung
    /\ pc = "teardown_vectors" => Shrinking
    /\ pc \in Teardown \ {"teardown_vectors"} => irqs = {} /\ handlers = {}

\* What it says about those who run beside it.
Served ==
    /\ \A v \in Vectors : at[v] # "idle" => v \in irqs
    /\ at[Sysctl] # "idle" => pc = "attached"
    /\ queue # {} \/ task # "none" => pc \in Ladder \cup Up \cup (Teardown \ {"release_msi"})

\* The types that the rest of the argument needs.
Typed ==
    /\ vec \in -1 .. MaxVectors - 1 /\ num_vectors \in 0 .. MaxVectors
    /\ msi \in {"none", "msi", "msix"} /\ intr_mode \in {"legacy", "msi", "msix"}
    /\ admin_filter \in {"admin", "intr"}
    /\ at \in [Contexts -> {"idle", "filter", "enqueue"}] /\ slot \in Vectors
    /\ queue \subseteq {"rx", "data"} /\ task \in {"none", "rx", "data"}

MsixInv == Typed /\ Held /\ Reached /\ Served
------------------------------------------------------------------------------
(* Intervals.                                                               *)

LEMMA Grow ==
    ASSUME NEW n \in Nat
    PROVE  /\ (0 .. n - 1) \cup {n} = 0 .. n
           /\ (0 .. n) \ {n} = 0 .. n - 1
           /\ n \notin 0 .. n - 1
  OBVIOUS

LEMMA NoInterval == 0 .. -1 = {} /\ 0 .. 0 = {0}
  OBVIOUS

------------------------------------------------------------------------------
(* The initial state.                                                       *)

LEMMA InitInv == Init => MsixInv
  <1> SUFFICES ASSUME Init PROVE MsixInv
    OBVIOUS
  <1> USE MsixAssumption DEF Init
  <1>1. Typed
    BY DEF Typed, Vectors, Contexts, Admin
  <1>2. Held
    BY DEF Held, Labels, Bare, Down, Ladder, Up, Teardown
  <1>3. Reached
    BY DEF Reached, Bare, Down, Ladder, Up, Teardown
  <1>4. Served
    BY DEF Served, Contexts, Sysctl, Vectors
  <1> QED
    BY <1>1, <1>2, <1>3, <1>4 DEF MsixInv

------------------------------------------------------------------------------
(* Held: the configuration thread alone.                                    *)

LEMMA HeldStep == Held /\ (Config \/ detach) => Held'
  <1> SUFFICES ASSUME Held, Config \/ detach PROVE Held'
    OBVIOUS
  <1> USE DEF Held, Labels, Bare, Down, Ladder, Up, Teardown, Goto, devVars, modeVars, irqVars
  <1>1. CASE init_softc
    <2>1. CASE softc' = TRUE /\ pc' = "alloc_bar" BY <1>1, <2>1 DEF init_softc
    <2>2. CASE softc' = softc /\ pc' = "gone" BY <1>1, <2>2 DEF init_softc
    <2> QED BY <1>1, <2>1, <2>2 DEF init_softc
  <1>2. CASE alloc_bar
    <2>1. CASE bar' = TRUE /\ pc' = "hw_attach_pci" BY <1>2, <2>1 DEF alloc_bar
    <2>2. CASE bar' = bar /\ pc' = "deinit_softc" BY <1>2, <2>2 DEF alloc_bar
    <2> QED BY <1>2, <2>1, <2>2 DEF alloc_bar
  <1>3. CASE hw_attach_pci
    <2>1. CASE hw' = TRUE /\ pc' = "create_taskqueue" BY <1>3, <2>1 DEF hw_attach_pci
    <2>2. CASE hw' = hw /\ pc' = "release_bar" BY <1>3, <2>2 DEF hw_attach_pci
    <2> QED BY <1>3, <2>1, <2>2 DEF hw_attach_pci
  <1>4. CASE create_taskqueue BY <1>4 DEF create_taskqueue
  <1>5. CASE alloc_msix BY <1>5 DEF alloc_msix
  <1>6. CASE setup_vector BY <1>6 DEF setup_vector
  <1>7. CASE unwind BY <1>7 DEF unwind
  <1>8. CASE setup_msi BY <1>8 DEF setup_msi
  <1>9. CASE setup_intx BY <1>9 DEF setup_intx
  <1>10. CASE setup_failed BY <1>10 DEF setup_failed
  <1>11. CASE enable BY <1>11 DEF enable
  <1>12. CASE make_dev
    <2>1. CASE cdev' = TRUE /\ pc' = "publish" BY <1>12, <2>1 DEF make_dev
    <2>2. CASE cdev' = cdev /\ pc' = "mask" BY <1>12, <2>2 DEF make_dev
    <2> QED BY <1>12, <2>1, <2>2 DEF make_dev
  <1>13. CASE publish BY <1>13 DEF publish
  <1>14. CASE destroy_dev BY <1>14 DEF destroy_dev
  <1>15. CASE mask BY <1>15 DEF mask
  <1>16. CASE teardown_vectors BY <1>16 DEF teardown_vectors
  <1>17. CASE drain BY <1>17 DEF drain
  <1>18. CASE free_taskqueue BY <1>18 DEF free_taskqueue
  <1>19. CASE release_msi BY <1>19 DEF release_msi
  <1>20. CASE hw_detach BY <1>20 DEF hw_detach
  <1>21. CASE release_bar BY <1>21 DEF release_bar
  <1>22. CASE deinit_softc BY <1>22 DEF deinit_softc
  <1>23. CASE detach BY <1>23 DEF detach
  <1> QED
    BY <1>1, <1>2, <1>3, <1>4, <1>5, <1>6, <1>7, <1>8, <1>9, <1>10, <1>11, <1>12,
       <1>13, <1>14, <1>15, <1>16, <1>17, <1>18, <1>19, <1>20, <1>21, <1>22, <1>23
    DEF Config

------------------------------------------------------------------------------
(* Reached: the messages, the interrupts and the handlers.                  *)

\* The vectors with an interrupt are vectors, and those with a handler have one.
LEMMA Nested ==
    ASSUME Typed, Held, Reached
    PROVE  handlers \subseteq irqs /\ irqs \subseteq Vectors
  <1> USE MsixAssumption DEF Reached, Rung, Shrinking, Vectors, Typed
  <1>1. CASE pc \in Bare \cup Down \cup {"alloc_msix", "setup_msi", "setup_intx", "setup_failed"}
    BY <1>1
  <1>2. CASE pc = "setup_vector"
    BY <1>2
  <1>3. CASE pc = "unwind"
    BY <1>3
  <1>4. CASE pc \in Up
    BY <1>4
  <1>5. CASE pc = "teardown_vectors"
    BY <1>5
  <1>6. CASE pc \in Teardown \ {"teardown_vectors"}
    BY <1>6
  <1> QED
    BY <1>1, <1>2, <1>3, <1>4, <1>5, <1>6 DEF Held, Labels, Ladder

\* One half of a turn of a teardown loop, or its end.
LEMMA Turn ==
    ASSUME vec \in -1 .. MaxVectors - 1, Shrinking
    PROVE  /\ vec >= 0 /\ (RemoveHandler(vec) \/ ReleaseIrq(vec))
                => Shrinking' /\ vec' \in -1 .. MaxVectors - 1
           /\ ~(vec >= 0) => irqs = {} /\ handlers = {}
  <1>1. ASSUME vec >= 0, RemoveHandler(vec)
        PROVE  Shrinking' /\ vec' \in -1 .. MaxVectors - 1
    <2>1. vec \in Nat
      BY <1>1, MsixAssumption
    <2>2. handlers = 0 .. vec
      BY <1>1, <2>1, Grow DEF Shrinking, RemoveHandler
    <2>3. handlers' = 0 .. vec - 1 /\ irqs' = irqs /\ vec' = vec
      BY <1>1, <2>1, <2>2, Grow DEF RemoveHandler
    <2> QED
      BY <2>3 DEF Shrinking
  <1>2. ASSUME vec >= 0, ReleaseIrq(vec)
        PROVE  Shrinking' /\ vec' \in -1 .. MaxVectors - 1
    <2>1. vec \in Nat
      BY <1>2, MsixAssumption
    <2>2. handlers = 0 .. vec - 1
      BY <1>2, <2>1 DEF Shrinking, ReleaseIrq
    <2>3. irqs' = 0 .. vec - 1 /\ handlers' = handlers /\ vec' = vec - 1
      BY <1>2, <2>1, Grow DEF ReleaseIrq, Shrinking
    <2>4. irqs' = 0 .. vec' /\ handlers' = 0 .. vec'
      BY <2>2, <2>3
    <2>5. vec' \in -1 .. MaxVectors - 1
      BY <2>1, <2>3, MsixAssumption
    <2> QED
      BY <2>4, <2>5 DEF Shrinking
  <1>3. ASSUME ~(vec >= 0) PROVE irqs = {} /\ handlers = {}
    <2>1. vec = -1
      BY <1>3, MsixAssumption
    <2>2. 0 .. vec = {} /\ 0 .. vec - 1 = {}
      BY <2>1
    <2> QED
      BY <2>2 DEF Shrinking
  <1> QED
    BY <1>1, <1>2, <1>3

LEMMA ReachedStep ==
    ASSUME Typed, Held, Reached, Config \/ detach
    PROVE  Reached'
  <1> USE DEF Labels, Bare, Down, Ladder, Up, Teardown, Goto, devVars, modeVars, irqVars, Typed
  <1>1. CASE init_softc BY <1>1 DEF init_softc, Reached, Rung
  <1>2. CASE alloc_bar BY <1>2 DEF alloc_bar, Reached, Rung
  <1>3. CASE hw_attach_pci BY <1>3 DEF hw_attach_pci, Reached, Rung
  <1>4. CASE create_taskqueue BY <1>4 DEF create_taskqueue, Reached, Rung
  <1>5. CASE alloc_msix
    <2>1. pc = "alloc_msix" /\ irqs' = {} /\ handlers' = {} /\ msi = "none"
      BY <1>5 DEF alloc_msix, Reached
    <2>2. CASE msi' = "msix" /\ pc' = "setup_vector" /\ vec' = 0
      <3>1. vec' \in Vectors /\ irqs' = 0 .. vec' - 1
        BY <2>1, <2>2, MsixAssumption DEF Vectors
      <3> QED
        BY <2>1, <2>2, <3>1 DEF Reached
    <2>3. CASE msi' = msi /\ pc' = "setup_msi"
      BY <2>1, <2>3 DEF Reached
    <2> QED
      BY <1>5, <2>2, <2>3 DEF alloc_msix
  <1>6. CASE setup_vector
    <2>1. pc = "setup_vector" /\ msi' = "msix" /\ msi = "msix"
      BY <1>6 DEF setup_vector, Reached
    <2>2. vec \in Nat /\ vec < MaxVectors /\ irqs = 0 .. vec - 1 /\ handlers = irqs
      BY <2>1, MsixAssumption DEF Reached, Vectors
    <2>3. CASE Install(vec) /\ vec + 1 < MaxVectors /\ vec' = vec + 1 /\ UNCHANGED pc
      <3>1. irqs' = 0 .. vec' - 1 /\ handlers' = irqs'
        BY <2>2, <2>3, Grow DEF Install
      <3>2. vec' \in Vectors
        BY <2>2, <2>3, MsixAssumption DEF Vectors
      <3> QED
        BY <2>1, <2>3, <3>1, <3>2 DEF Reached
    <2>4. CASE /\ Install(vec) /\ ~(vec + 1 < MaxVectors) /\ pc' = "enable"
               /\ intr_mode' = "msix" /\ num_vectors' = MaxVectors
      <3>1. irqs' = 0 .. num_vectors' - 1 /\ handlers' = irqs'
        BY <2>2, <2>4, Grow, MsixAssumption DEF Install
      <3> QED
        BY <2>1, <2>4, <3>1 DEF Reached, Rung
    <2>5. CASE vec' = vec - 1 /\ pc' = "unwind" /\ UNCHANGED <<irqs, handlers>>
      <3>1. Shrinking'
        BY <2>2, <2>5 DEF Shrinking
      <3> QED
        BY <2>1, <2>5, <3>1 DEF Reached
    <2> QED
      BY <1>6, <2>3, <2>4, <2>5 DEF setup_vector
  <1>7. CASE unwind
    <2>1. pc = "unwind" /\ msi = "msix" /\ Shrinking /\ vec \in -1 .. MaxVectors - 1
      BY <1>7 DEF unwind, Reached
    <2>2. CASE vec >= 0
      <3>1. Shrinking' /\ pc' = "unwind" /\ msi' = "msix"
        BY <1>7, <2>1, <2>2, Turn DEF unwind
      <3> QED
        BY <3>1 DEF Reached
    <2>3. CASE ~(vec >= 0)
      <3>1. irqs' = {} /\ handlers' = {} /\ pc' = "setup_msi" /\ msi' = "none"
        BY <1>7, <2>1, <2>3, Turn DEF unwind, ReleaseMsi
      <3> QED
        BY <3>1 DEF Reached
    <2> QED
      BY <2>2, <2>3
  <1>8. CASE setup_msi
    <2>1. pc = "setup_msi" /\ msi = "none" /\ irqs = {} /\ handlers = {}
      BY <1>8 DEF setup_msi, Reached
    <2>2. CASE /\ Install(Admin) /\ msi' = "msi" /\ intr_mode' = "msi"
               /\ num_vectors' = 1 /\ pc' = "enable"
      <3>1. irqs' = 0 .. num_vectors' - 1 /\ handlers' = irqs'
        BY <2>1, <2>2, NoInterval DEF Install, Admin
      <3> QED
        BY <2>2, <3>1 DEF Reached, Rung
    <2>3. CASE UNCHANGED irqVars /\ pc' = "setup_intx"
      BY <2>1, <2>3 DEF Reached
    <2> QED
      BY <1>8, <2>1, <2>2, <2>3 DEF setup_msi
  <1>9. CASE setup_intx
    <2>1. pc = "setup_intx" /\ msi = "none" /\ irqs = {} /\ handlers = {}
      BY <1>9 DEF setup_intx, Reached
    <2>2. CASE /\ Install(Admin) /\ msi' = "none" /\ intr_mode' = "legacy"
               /\ num_vectors' = 1 /\ pc' = "enable"
      <3>1. irqs' = 0 .. num_vectors' - 1 /\ handlers' = irqs'
        BY <2>1, <2>2, NoInterval DEF Install, Admin
      <3> QED
        BY <2>2, <3>1 DEF Reached, Rung
    <2>3. CASE UNCHANGED irqVars /\ pc' = "setup_failed"
      BY <2>1, <2>3 DEF Reached
    <2> QED
      BY <1>9, <2>1, <2>2, <2>3 DEF setup_intx
  <1>10. CASE setup_failed BY <1>10 DEF setup_failed, Reached, Rung
  <1>11. CASE enable BY <1>11 DEF enable, Reached, Rung
  <1>12. CASE make_dev BY <1>12 DEF make_dev, Reached, Rung
  <1>13. CASE publish BY <1>13 DEF publish, Reached, Rung
  <1>14. CASE destroy_dev BY <1>14 DEF destroy_dev, Reached, Rung
  <1>15. CASE mask
    <2>1. pc = "mask" /\ Rung /\ Rung' /\ irqs = 0 .. num_vectors - 1 /\ handlers = irqs
      BY <1>15 DEF mask, Reached, Rung
    <2>2. irqs' = 0 .. vec' /\ handlers' = 0 .. vec' /\ pc' = "teardown_vectors"
      BY <1>15, <2>1 DEF mask
    <2> QED
      BY <2>1, <2>2 DEF Reached, Shrinking
  <1>16. CASE teardown_vectors
    <2>1. pc = "teardown_vectors" /\ Rung /\ Rung' /\ Shrinking /\ vec \in -1 .. MaxVectors - 1
      BY <1>16 DEF teardown_vectors, Reached, Rung
    <2>2. CASE vec >= 0
      <3>1. Shrinking' /\ pc' = "teardown_vectors"
        BY <1>16, <2>1, <2>2, Turn DEF teardown_vectors
      <3> QED
        BY <2>1, <3>1 DEF Reached
    <2>3. CASE ~(vec >= 0)
      <3>1. irqs' = {} /\ handlers' = {} /\ pc' = "drain"
        BY <1>16, <2>1, <2>3, Turn DEF teardown_vectors
      <3> QED
        BY <2>1, <3>1 DEF Reached
    <2> QED
      BY <2>2, <2>3
  <1>17. CASE drain BY <1>17 DEF drain, Reached, Rung
  <1>18. CASE free_taskqueue BY <1>18 DEF free_taskqueue, Reached, Rung
  <1>19. CASE release_msi BY <1>19 DEF release_msi, Reached, Rung, ReleaseMsi
  <1>20. CASE hw_detach BY <1>20 DEF hw_detach, Reached, Rung
  <1>21. CASE release_bar BY <1>21 DEF release_bar, Reached, Rung
  <1>22. CASE deinit_softc BY <1>22 DEF deinit_softc, Reached, Rung
  <1>23. CASE detach BY <1>23 DEF detach, Reached, Rung
  <1> QED
    BY <1>1, <1>2, <1>3, <1>4, <1>5, <1>6, <1>7, <1>8, <1>9, <1>10, <1>11, <1>12, <1>13, <1>14, <1>15, <1>16, <1>17, <1>18, <1>19, <1>20, <1>21, <1>22, <1>23
    DEF Config

------------------------------------------------------------------------------
(* The types.                                                               *)

LEMMA TypedStep ==
    ASSUME Typed, Held, Reached, Config \/ detach
    PROVE  Typed'
  <1> USE MsixAssumption DEF Typed, devVars, modeVars, irqVars, filterVars, taskVars
  <1>0. UNCHANGED <<filterVars, taskVars>>
    BY DEF Config, init_softc, alloc_bar, hw_attach_pci, create_taskqueue, alloc_msix,
           setup_vector, unwind, setup_msi, setup_intx, setup_failed, enable, make_dev,
           publish, destroy_dev, mask, teardown_vectors, drain, free_taskqueue,
           release_msi, hw_detach, release_bar, deinit_softc, detach
  <1>1. CASE init_softc BY <1>0, <1>1 DEF init_softc, ReleaseMsi
  <1>2. CASE alloc_bar BY <1>0, <1>2 DEF alloc_bar, ReleaseMsi
  <1>3. CASE hw_attach_pci BY <1>0, <1>3 DEF hw_attach_pci, ReleaseMsi
  <1>4. CASE create_taskqueue BY <1>0, <1>4 DEF create_taskqueue, ReleaseMsi
  <1>5. CASE alloc_msix BY <1>0, <1>5 DEF alloc_msix, ReleaseMsi
  <1>6. CASE setup_vector
    <2>1. vec \in Vectors
      BY <1>6 DEF setup_vector, Reached
    <2> QED
      BY <1>0, <1>6, <2>1 DEF setup_vector, Vectors
  <1>7. CASE unwind
    <2>1. Shrinking
      BY <1>7 DEF unwind, Reached, Teardown
    <2>2. vec' \in -1 .. MaxVectors - 1
      BY <1>7, <2>1, Turn DEF unwind
    <2> QED
      BY <1>0, <1>7, <2>2 DEF unwind, ReleaseMsi
  <1>8. CASE setup_msi BY <1>0, <1>8 DEF setup_msi, ReleaseMsi
  <1>9. CASE setup_intx BY <1>0, <1>9 DEF setup_intx, ReleaseMsi
  <1>10. CASE setup_failed BY <1>0, <1>10 DEF setup_failed, ReleaseMsi
  <1>11. CASE enable BY <1>0, <1>11 DEF enable, ReleaseMsi
  <1>12. CASE make_dev BY <1>0, <1>12 DEF make_dev, ReleaseMsi
  <1>13. CASE publish BY <1>0, <1>13 DEF publish, ReleaseMsi
  <1>14. CASE destroy_dev BY <1>0, <1>14 DEF destroy_dev, ReleaseMsi
  <1>15. CASE mask BY <1>0, <1>15 DEF mask, ReleaseMsi
  <1>16. CASE teardown_vectors
    <2>1. Shrinking
      BY <1>16 DEF teardown_vectors, Reached, Teardown
    <2>2. vec' \in -1 .. MaxVectors - 1
      BY <1>16, <2>1, Turn DEF teardown_vectors
    <2> QED
      BY <1>0, <1>16, <2>2 DEF teardown_vectors, ReleaseMsi
  <1>17. CASE drain BY <1>0, <1>17 DEF drain, ReleaseMsi
  <1>18. CASE free_taskqueue BY <1>0, <1>18 DEF free_taskqueue, ReleaseMsi
  <1>19. CASE release_msi BY <1>0, <1>19 DEF release_msi, ReleaseMsi
  <1>20. CASE hw_detach BY <1>0, <1>20 DEF hw_detach, ReleaseMsi
  <1>21. CASE release_bar BY <1>0, <1>21 DEF release_bar, ReleaseMsi
  <1>22. CASE deinit_softc BY <1>0, <1>22 DEF deinit_softc, ReleaseMsi
  <1>23. CASE detach BY <1>0, <1>23 DEF detach, ReleaseMsi
  <1> QED
    BY <1>1, <1>2, <1>3, <1>4, <1>5, <1>6, <1>7, <1>8, <1>9, <1>10, <1>11, <1>12, <1>13, <1>14, <1>15, <1>16, <1>17, <1>18, <1>19, <1>20, <1>21, <1>22, <1>23
    DEF Config

------------------------------------------------------------------------------
(* Served: the filters and the tasks.                                       *)

\* Where an interrupt is allocated, or a sysctl can be, there is a taskqueue.
LEMMA WithQueue ==
    ASSUME Typed, Held, Reached, irqs # {} \/ pc = "attached"
    PROVE  pc \in Ladder \cup Up \cup (Teardown \ {"release_msi"})
  BY DEF Held, Reached, Labels, Bare, Down, Ladder, Up, Teardown

LEMMA ServedStep ==
    ASSUME Typed, Held, Reached, Served, ~Racing, Config \/ detach
    PROVE  Served'
  <1>0. UNCHANGED <<at, slot, queue, task>>
    BY DEF Config, init_softc, alloc_bar, hw_attach_pci, create_taskqueue, alloc_msix,
           setup_vector, unwind, setup_msi, setup_intx, setup_failed, enable, make_dev,
           publish, destroy_dev, mask, teardown_vectors, drain, free_taskqueue,
           release_msi, hw_detach, release_bar, deinit_softc, detach, filterVars, taskVars
  <1>1. ASSUME NEW v \in Vectors, at'[v] # "idle" PROVE v \in irqs'
    <2>1. v \in irqs /\ at[v] # "idle"
      BY <1>0, <1>1 DEF Served
    <2>2. CASE unwind \/ teardown_vectors
      BY <2>1, <2>2 DEF unwind, teardown_vectors, RemoveHandler, ReleaseIrq
    <2>3. CASE ~(unwind \/ teardown_vectors)
      BY <2>1, <2>3 DEF Config, init_softc, alloc_bar, hw_attach_pci, create_taskqueue,
           alloc_msix, setup_vector, setup_msi, setup_intx, setup_failed, enable,
           make_dev, publish, destroy_dev, mask, drain, free_taskqueue, release_msi,
           hw_detach, release_bar, deinit_softc, detach, irqVars, Install
    <2> QED
      BY <2>2, <2>3
  <1>2. at'[Sysctl] # "idle" => pc' = "attached"
    <2>1. CASE detach
      BY <1>0, <2>1 DEF detach
    <2>2. CASE Config
      BY <1>0, <2>2 DEF Served, Config, init_softc, alloc_bar, hw_attach_pci,
           create_taskqueue, alloc_msix, setup_vector, unwind, setup_msi, setup_intx,
           setup_failed, enable, make_dev, publish, destroy_dev, mask, teardown_vectors,
           drain, free_taskqueue, release_msi, hw_detach, release_bar, deinit_softc
    <2> QED
      BY <2>1, <2>2
  <1>3. queue' # {} \/ task' # "none" => pc' \in Ladder \cup Up \cup (Teardown \ {"release_msi"})
    <2> SUFFICES ASSUME queue # {} \/ task # "none"
                 PROVE  pc' \in Ladder \cup Up \cup (Teardown \ {"release_msi"})
      BY <1>0
    <2>1. pc \in Ladder \cup Up \cup (Teardown \ {"release_msi"})
      BY DEF Served
    <2> QED
      BY <2>1 DEF Config, init_softc, alloc_bar, hw_attach_pci, create_taskqueue,
           alloc_msix, setup_vector, unwind, setup_msi, setup_intx, setup_failed, enable,
           make_dev, publish, destroy_dev, mask, teardown_vectors, drain, free_taskqueue,
           release_msi, hw_detach, release_bar, deinit_softc, detach,
           Quiet, Goto, Ladder, Up, Teardown
  <1> QED
    BY <1>1, <1>2, <1>3 DEF Served

------------------------------------------------------------------------------
(* The filters and the taskqueue leave the configuration alone.             *)

Beside ==
    \/ \E v \in Vectors : interrupt(v) \/ intr_simulate(v)
    \/ \E c \in Contexts : Filter(c)
    \/ Taskqueue

LEMMA BesideQuiet ==
    Beside => UNCHANGED <<pc, vec, devVars, intr_tq, irqVars, modeVars>>
  BY DEF Beside, interrupt, intr_simulate, Filter, run_filter, enqueue_task,
         Taskqueue, end_task, run_task

LEMMA BesideTyped ==
    ASSUME Typed, Beside
    PROVE  Typed'
  <1> USE DEF Typed, modeVars, irqVars
  <1>0. UNCHANGED <<pc, vec, devVars, intr_tq, irqVars, modeVars>>
    BY BesideQuiet
  <1>1. ASSUME NEW v \in Vectors, interrupt(v) PROVE Typed'
    BY <1>0, <1>1 DEF interrupt, Call, Contexts, taskVars
  <1>2. ASSUME NEW v \in Vectors, intr_simulate(v) PROVE Typed'
    BY <1>0, <1>2 DEF intr_simulate, Call, Contexts, taskVars
  <1>3. ASSUME NEW c \in Contexts, run_filter(c) PROVE Typed'
    BY <1>0, <1>3 DEF run_filter, Call, taskVars
  <1>4. ASSUME NEW c \in Contexts, enqueue_task(c) PROVE Typed'
    BY <1>0, <1>4 DEF enqueue_task, Call, TaskOf
  <1>5. ASSUME Taskqueue PROVE Typed'
    BY <1>0, <1>5 DEF Taskqueue, run_task, end_task, filterVars
  <1> QED
    BY <1>1, <1>2, <1>3, <1>4, <1>5 DEF Beside, Filter

LEMMA BesideServed ==
    ASSUME Typed, Held, Reached, Served, Beside
    PROVE  Served'
  <1> USE DEF irqVars
  <1>0. pc' = pc /\ irqs' = irqs /\ handlers' = handlers
    BY BesideQuiet
  <1>S. Sysctl \notin Vectors /\ Sysctl \in Contexts /\ Vectors \subseteq Contexts
    BY MsixAssumption DEF Sysctl, Vectors, Contexts
  <1>T. at \in [Contexts -> {"idle", "filter", "enqueue"}]
    BY DEF Typed
  <1>1. ASSUME NEW v \in Vectors, interrupt(v) PROVE Served'
    <2>1. v \in irqs
      BY <1>1, Nested DEF interrupt
    <2> QED
      BY <1>0, <1>1, <1>S, <1>T, <2>1 DEF interrupt, Served, Call, taskVars
  <1>2. ASSUME NEW v \in Vectors, intr_simulate(v) PROVE Served'
    BY <1>0, <1>2, <1>S, <1>T DEF intr_simulate, Served, Call, taskVars
  <1>3. ASSUME NEW c \in Contexts, run_filter(c) PROVE Served'
    BY <1>0, <1>3, <1>S, <1>T DEF run_filter, Served, Call, taskVars
  <1>4. ASSUME NEW c \in Contexts, enqueue_task(c) PROVE Served'
    <2>1. at[c] # "idle"
      BY <1>4 DEF enqueue_task
    <2>2. c \in Vectors \/ c = Sysctl
      BY DEF Contexts
    <2>3. irqs # {} \/ pc = "attached"
      BY <2>1, <2>2 DEF Served
    <2>4. pc' \in Ladder \cup Up \cup (Teardown \ {"release_msi"})
      BY <1>0, <2>3, WithQueue
    <2>5. \A d \in Contexts : at'[d] # "idle" => at[d] # "idle"
      BY <1>4, <1>T DEF enqueue_task, Call
    <2> QED
      BY <1>0, <1>S, <2>4, <2>5 DEF Served
  <1>5. ASSUME Taskqueue PROVE Served'
    BY <1>0, <1>5 DEF Taskqueue, run_task, end_task, Served, filterVars
  <1> QED
    BY <1>1, <1>2, <1>3, <1>4, <1>5 DEF Beside, Filter

LEMMA StepInv ==
    ASSUME ~Racing
    PROVE  MsixInv /\ [Next]_vars => MsixInv'
  <1> SUFFICES ASSUME MsixInv, [Next]_vars PROVE MsixInv'
    OBVIOUS
  <1> USE DEF MsixInv
  <1>1. CASE Config \/ detach
    BY <1>1, HeldStep, ReachedStep, TypedStep, ServedStep
  <1>2. CASE Beside
    <2>1. UNCHANGED <<pc, vec, softc, bar, hw, cdev, pci_attached, intr_tq, irqVars, modeVars>>
      BY <1>2, BesideQuiet DEF devVars
    <2>2. Held'
      BY <2>1 DEF Held, modeVars
    <2>3. Reached'
      BY <2>1 DEF Reached, Rung, Shrinking, irqVars, modeVars
    <2> QED
      BY <1>2, <2>2, <2>3, BesideTyped, BesideServed
  <1>3. CASE UNCHANGED vars
    BY <1>3 DEF vars, Typed, Held, Reached, Rung, Shrinking, Served,
                devVars, irqVars, modeVars, filterVars, taskVars
  <1> QED
    BY <1>1, <1>2, <1>3 DEF Next, Beside

------------------------------------------------------------------------------
(* The theorems.                                                            *)

\* While detach waits for the sysctls the invariant holds throughout.
THEOREM Invariant == ASSUME ~Racing PROVE Spec => []MsixInv
  <1>1. Init => MsixInv
    BY InitInv
  <1>2. MsixInv /\ [Next]_vars => MsixInv'
    BY StepInv
  <1> QED
    BY <1>1, <1>2, PTL DEF Spec

\* The types of the variables.
THEOREM TypeCorrect == ASSUME ~Racing PROVE Spec => []MsixTypeOK
  <1>1. MsixInv => MsixTypeOK
    <2> SUFFICES ASSUME MsixInv PROVE MsixTypeOK
      OBVIOUS
    <2>1. handlers \subseteq irqs /\ irqs \subseteq Vectors
      BY Nested DEF MsixInv
    <2>2. \A flag \in {softc, bar, hw, cdev, pci_attached, intr_tq, unmasked} : flag \in BOOLEAN
      BY DEF MsixInv, Held
    <2> QED
      BY <2>1, <2>2 DEF MsixInv, Typed, MsixTypeOK
  <1> QED
    BY <1>1, Invariant, PTL

\* Wherever attach fails, and after a detach, the driver holds nothing.
THEOREM Leakless == ASSUME ~Racing PROVE Spec => []NothingLeaks
  <1>1. MsixInv => NothingLeaks
    BY DEF MsixInv, Held, Reached, NothingLeaks, Bare, Down, Ladder, Up, Teardown
  <1> QED
    BY <1>1, Invariant, PTL

\* The device interrupts only over the complete handlers of one rung.
THEOREM Handled == ASSUME ~Racing PROVE Spec => []UnmaskedMeansHandled
  <1>1. MsixInv => UnmaskedMeansHandled
    BY DEF MsixInv, Held, Reached, Rung, UnmaskedMeansHandled, Bare, Down, Ladder, Up, Teardown
  <1> QED
    BY <1>1, Invariant, PTL

\* No interrupt and no task outlives what it uses.
THEOREM SafeUse == ASSUME ~Racing PROVE Spec => []NobodyUsesWhatIsGone
  <1>1. MsixInv => NobodyUsesWhatIsGone
    <2> SUFFICES ASSUME MsixInv PROVE NobodyUsesWhatIsGone
      OBVIOUS
    <2>1. ASSUME NEW c \in Contexts, at[c] # "idle"
          PROVE  pc \in Ladder \cup Up \cup (Teardown \ {"release_msi"})
      <3>1. c \in Vectors \/ c = Sysctl
        BY DEF Contexts
      <3>2. irqs # {} \/ pc = "attached"
        BY <2>1, <3>1 DEF MsixInv, Served
      <3> QED
        BY <3>2, WithQueue DEF MsixInv
    <2>2. pc \in Ladder \cup Up \cup (Teardown \ {"release_msi"}) => bar /\ intr_tq /\ softc
      BY DEF MsixInv, Held, Ladder, Up, Teardown
    <2> QED
      BY <2>1, <2>2 DEF NobodyUsesWhatIsGone, MsixInv, Served
  <1> QED
    BY <1>1, Invariant, PTL
==============================================================================
