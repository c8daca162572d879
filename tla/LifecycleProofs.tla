-------------------------- MODULE LifecycleProofs ---------------------------
(***************************************************************************)
(* Proofs about Lifecycle for any number of cards and any set of calls     *)
(* that may fail.                                                          *)
(***************************************************************************)
EXTENDS Lifecycle, TLAPS

(* The steps of probe that have opened the device, have an interface, have *)
(* registered it and have the bus; the error path; the steps of remove.    *)
ErrPath  == {"err_out1", "err_out", "err_free"}
PastBus  == {"ptp", "isr", "timer", "driver", "proc"}
PastNet  == PastBus \cup {"mdio", "mdiodev"}
PastPriv == PastNet \cup {"mac", "netdev"}
Removing == {"del_timer", "del_irq", "del_ptp", "del_driver", "del_mdio",
             "del_netdev", "free_netdev", "xpdev_free"}

(* The references of the DSA driver: one for a switch that is registered,   *)
(* and at least one more where a registration failed.                       *)
HeldShape(r) ==
  /\ r.dsa => r.mdiodev
  /\ r.mdiodev => r.mdio
  /\ ~r.leaked => r.held = IF r.dsa THEN 1 ELSE 0
  /\ r.leaked => r.held >= IF r.dsa THEN 2 ELSE 1

(* Nothing of a card but its PCI device and its interface. *)
Bare(r) ==
  /\ ~r.handlers /\ ~r.up /\ ~r.transfer /\ ~r.mdio /\ ~r.ptp /\ ~r.timer /\ ~r.proc
  /\ r.held = 0

(* A card probe and remove have left. *)
Clean(r) ==
  /\ Bare(r) /\ ~r.bound /\ r.user = {} /\ r.drvdata = "null" /\ ~r.priv /\ ~r.napi
  /\ r.net = "none" \/ (r.net = "freed" /\ ~r.xdev)

(* A card whose probe failed and returned 0. *)
Dead(r) ==
  /\ Bare(r) /\ ~r.xdev /\ r.user = {} /\ r.drvdata = "freed"
  /\ r.net \in {"alloc", "freed"}

(* A card nobody is probing or removing. *)
Resting(r) == Clean(r) \/ (r.bound /\ Whole(r)) \/ (r.bound /\ Dead(r))

(* How far the record of the card being probed has come, field by field; p *)
(* is the step probe is at and v, below, the value it will return.         *)
Probing(r, p) ==
  /\ ~r.bound
  /\ p \in {"pcidev", "device"} => Clean(r) /\ r.net = "none"
  /\ p \notin {"pcidev", "device", "err_free", "return"} => r.xdev
  /\ p \in {"user_isr", "etherdev", "switch", "mac", "netdev"} => Bare(r)
  /\ p \in {"user_isr", "etherdev"} => r.net = "none"
  /\ p \in {"user_isr", "etherdev", "switch"} => r.drvdata = "null" /\ ~r.priv /\ ~r.napi
  /\ p \in {"switch", "mac", "netdev"} => r.net = "alloc"
  /\ p \in PastPriv => r.priv /\ r.drvdata = "live" /\ r.napi
  /\ p \in PastNet => r.net = "registered"
  /\ p = "mdio" => ~r.mdio
  /\ p \in {"mdio", "mdiodev"} => ~r.mdiodev /\ r.held = 0
  /\ p \in PastBus => r.mdio
  /\ p \in {"mdio", "mdiodev", "ptp"} => ~r.ptp
  /\ p \in {"isr", "timer", "driver", "proc"} => r.ptp
  /\ p \in {"mdio", "mdiodev", "ptp", "isr"} => ~r.handlers
  /\ p \in {"timer", "driver", "proc"} => r.handlers
  /\ p \in {"mdio", "mdiodev", "ptp", "isr", "timer"} => ~r.timer
  /\ p \in {"driver", "proc"} => r.timer
  /\ p \in PastNet => ~r.proc
  /\ p \in PastNet \ {"proc"} => r.held <= 1

(* The error path: an interface that was registered ends it in an crash, and *)
(* only then is the value to return not 0.                                  *)
FailingShape(r, p, v) ==
  /\ p = "err_out1" => r.net \in {"alloc", "registered"}
  /\ p = "err_out" => r.net # "freed"
  /\ r.net = "registered" => r.mdio
  /\ r.net # "registered" => Bare(r) /\ v = 0
  /\ p \in {"err_out1", "err_out"} => r.drvdata # "freed"
  /\ p = "err_out1" => r.drvdata = "live"
  /\ p = "err_out" /\ r.net # "none" => r.drvdata = "live"
  /\ p = "err_free" => ~r.xdev /\ r.user = {} /\ r.net # "freed"
  /\ p = "err_free" /\ r.net # "none" => r.drvdata = "freed"

(* What probe is about to return with. *)
ReturnShape(r, v) == IF v = 0 THEN Whole(r) \/ Dead(r) ELSE Clean(r)

(* How far the record of the card being removed has been taken apart. *)
RemovingShape(r, p) ==
  /\ r.bound /\ r.xdev
  /\ p \notin {"free_netdev", "xpdev_free"} => r.net = "registered" /\ r.priv
  /\ p = "del_timer" => Whole(r)
  /\ p # "del_timer" => ~r.timer /\ ~r.proc /\ ~r.napi
  /\ p \in {"del_irq", "del_ptp", "del_driver", "del_mdio"} => r.mdio
  /\ p \in {"del_driver", "del_mdio", "del_netdev", "free_netdev", "xpdev_free"} => ~r.ptp
  /\ p = "del_mdio" => ~r.dsa
  /\ p \in {"del_netdev", "free_netdev", "xpdev_free"} => ~r.mdio
  /\ p \in {"free_netdev", "xpdev_free"} => ~r.up /\ r.held = 0
  /\ p = "free_netdev" => r.net = "alloc"
  /\ p = "xpdev_free" => r.net = "freed" /\ ~r.priv

(* The card probe or remove is about. *)
Active(r, p, v) ==
  /\ p \notin Removing => Probing(r, p)
  /\ p \in ErrPath => FailingShape(r, p, v)
  /\ p = "return" => ReturnShape(r, v)
  /\ p \in Removing => RemovingShape(r, p)

(* Only one card can have its bus, and with it stay registered. *)
OneBus == \A c, o \in Cards : d[c].mdio /\ d[o].mdio => c = o
Alone  == step \in PastBus \cup Removing => \A c \in Cards : c # cur => d[c].net # "registered"

(* A card that will run into a flag that is set before it has its transfers *)
(* is not alone.                                                            *)
FlagShape ==
  \A c \in Cards :
    /\ d[c].net = "registered" \/ (c = cur /\ step \in {"switch", "mac", "netdev"})
    /\ descFlag = 1 /\ ~d[c].transfer
    => \E o \in Cards : o # c /\ d[o].net = "registered"

Steps == {"idle", "pcidev", "device", "user_isr", "etherdev", "switch", "return"}
         \cup PastPriv \cup ErrPath \cup Removing

(* Until it fails, probe means to return 0. *)
ValueShape(p, v) == p \notin ErrPath \cup {"return", "idle"} \cup Removing => v = 0

CardsShape ==
  \A c \in Cards :
    /\ HeldShape(d[c])
    /\ IF c = cur /\ step # "idle" THEN Active(d[c], step, rv) ELSE Resting(d[c])

LifeInv ==
  /\ LifeTypeOK /\ step \in Steps
  /\ ValueShape(step, rv)
  /\ CardsShape
  /\ OneBus
  /\ Alone
  /\ FlagShape
  /\ NoBugOn

-----------------------------------------------------------------------------
(* What a card has, as a set of records. *)
CardRec == [bound : BOOLEAN, xdev : BOOLEAN, user : SUBSET {Low, High},
            handlers : BOOLEAN, drvdata : {"null", "live", "freed"},
            net : {"none", "alloc", "registered", "freed"},
            priv : BOOLEAN, up : BOOLEAN, transfer : BOOLEAN,
            napi : BOOLEAN, mdio : BOOLEAN, mdiodev : BOOLEAN,
            dsa : BOOLEAN, held : 0 .. 2, leaked : BOOLEAN, ptp : BOOLEAN,
            timer : BOOLEAN, proc : BOOLEAN]

(* Absent is what Clean describes. *)
LEMMA AbsentClean ==
  ASSUME NEW b \in BOOLEAN
  PROVE  LET r == [Absent EXCEPT !.xdev = b]
         IN  /\ r \in CardRec /\ Absent \in CardRec
             /\ Clean(r) /\ r.net = "none" /\ HeldShape(r)
             /\ Clean(Absent) /\ HeldShape(Absent)
<1> DEFINE r == [Absent EXCEPT !.xdev = b]
<1>1. Absent \in CardRec
  BY DEF Absent, CardRec
<1>2. r \in CardRec
  BY <1>1 DEF CardRec
<1>3. Clean(r) /\ r.net = "none" /\ HeldShape(r)
  BY DEF Absent, Clean, Bare, HeldShape
<1>4. Clean(Absent) /\ HeldShape(Absent)
  BY DEF Absent, Clean, Bare, HeldShape
<1> QED
  BY <1>1, <1>2, <1>3, <1>4

(* The initial state: every card absent. *)
LEMMA InitInv == LifeInit => LifeInv
<1> SUFFICES ASSUME LifeInit PROVE LifeInv
  OBVIOUS
<1>1. \A c \in Cards : d[c] = Absent
  BY DEF LifeInit
<1>2. LifeTypeOK /\ step \in Steps /\ ValueShape(step, rv)
  <2>1. d \in [Cards -> CardRec]
    BY AbsentClean DEF LifeInit
  <2> QED
    BY <2>1 DEF LifeInit, LifeTypeOK, CardRec, Steps, ValueShape
<1>3. CardsShape
  BY <1>1, AbsentClean DEF LifeInit, CardsShape, Resting
<1>4. OneBus /\ Alone /\ FlagShape /\ NoBugOn
  BY <1>1 DEF LifeInit, OneBus, Alone, FlagShape, NoBugOn, Absent, PastBus, Removing
<1> QED
  BY <1>2, <1>3, <1>4 DEF LifeInv

(***************************************************************************)
(* A step of probe or remove that gives the card it is about the record r: *)
(* what it has to establish for the invariant to hold again.               *)
(***************************************************************************)
LEMMA LocalStep ==
  ASSUME LifeInv, step # "idle", crash' = "none", cur' = cur,
         NEW r \in CardRec, d' = [d EXCEPT ![cur] = r],
         rv' \in {0, 1}, mdioDrv' \in BOOLEAN, step' \in Steps,
         ValueShape(step', rv'), HeldShape(r),
         IF step' = "idle" THEN Resting(r) ELSE Active(r, step', rv'),
         r.mdio => me.mdio \/ \A c \in Cards : c # cur => ~d[c].mdio,
         step' \in PastBus \cup Removing =>
           \/ step \in PastBus \cup Removing
           \/ \A c \in Cards : c # cur => d[c].net # "registered",
         \/ descFlag' = 0
         \/ /\ descFlag' = descFlag
            /\ r.net = "registered" \/ step' \in {"switch", "mac", "netdev"} =>
                 /\ me.net = "registered" \/ step \in {"switch", "mac", "netdev"}
                 /\ r.transfer = me.transfer,
         me.net = "registered" /\ r.net # "registered" => step \in Removing
  PROVE  LifeInv'
<1>1. /\ d \in [Cards -> CardRec] /\ cur \in Cards /\ descFlag \in {0, 1}
      /\ CardsShape /\ OneBus /\ Alone /\ FlagShape
  BY DEF LifeInv, LifeTypeOK, CardRec
<1>2. d'[cur] = r /\ \A c \in Cards : c # cur => d'[c] = d[c]
  BY <1>1
<1>3. LifeTypeOK' /\ step' \in Steps /\ ValueShape(step, rv)'
  <2>1. d' \in [Cards -> CardRec]
    BY <1>1
  <2>2. descFlag' \in {0, 1}
    BY <1>1
  <2> QED
    BY <1>1, <2>1, <2>2 DEF LifeTypeOK, CardRec
<1>4. CardsShape'
  BY <1>1, <1>2 DEF CardsShape
<1>5. OneBus'
  BY <1>1, <1>2 DEF OneBus, me
<1>6. Alone'
  BY <1>1, <1>2 DEF Alone
<1>7. FlagShape'
  <2>1. CASE descFlag' = 0
    BY <2>1 DEF FlagShape
  <2>2. CASE descFlag' # 0
    <3> SUFFICES ASSUME NEW c \in Cards,
                        d'[c].net = "registered"
                          \/ (c = cur /\ step' \in {"switch", "mac", "netdev"}),
                        descFlag = 1, ~d'[c].transfer
                 PROVE  \E o \in Cards : o # c /\ d'[o].net = "registered"
      BY <2>2 DEF FlagShape
    <3>1. CASE c = cur
      <4>1. \/ d[c].net = "registered"
            \/ step \in {"switch", "mac", "netdev"}
        BY <1>2, <2>2, <3>1 DEF me
      <4>2. ~d[c].transfer
        BY <1>2, <2>2, <3>1 DEF me
      <4>3. PICK o \in Cards : o # c /\ d[o].net = "registered"
        BY <1>1, <3>1, <4>1, <4>2 DEF FlagShape
      <4> QED
        BY <1>2, <3>1, <4>3
    <3>2. CASE c # cur
      <4>1. d[c].net = "registered" /\ ~d[c].transfer
        BY <1>2, <3>2
      <4>2. PICK o \in Cards : o # c /\ d[o].net = "registered"
        BY <1>1, <4>1 DEF FlagShape
      <4>3. CASE o = cur
        <5>1. CASE r.net = "registered"
          BY <1>2, <4>2, <4>3, <5>1
        <5>2. CASE r.net # "registered"
          <6>1. step \in Removing
            BY <4>2, <4>3, <5>2 DEF me
          <6> QED
            BY <1>1, <3>2, <4>1, <6>1 DEF Alone
        <5> QED
          BY <5>1, <5>2
      <4>4. CASE o # cur
        BY <1>2, <4>2, <4>4
      <4> QED
        BY <4>3, <4>4
    <3> QED
      BY <3>1, <3>2
  <2> QED
    BY <2>1, <2>2
<1>8. NoBugOn'
  BY DEF NoBugOn
<1> QED
  BY <1>3, <1>4, <1>5, <1>6, <1>7, <1>8 DEF LifeInv

(* A step that only notes how the kernel stopped. *)
LEMMA OopsStep ==
  ASSUME LifeInv, UNCHANGED <<step, cur, rv, d, descFlag, mdioDrv>>, NoBugOn'
  PROVE  LifeInv'
BY DEF LifeInv, LifeTypeOK, CardsShape, OneBus, Alone, FlagShape

(* The card the step is about, as the invariant describes it. *)
LEMMA Here ==
  ASSUME LifeInv, step # "idle"
  PROVE  /\ d \in [Cards -> CardRec] /\ cur \in Cards /\ me = d[cur] /\ me \in CardRec
         /\ HeldShape(me) /\ Active(me, step, rv) /\ ValueShape(step, rv)
         /\ rv \in {0, 1} /\ mdioDrv \in BOOLEAN /\ descFlag \in {0, 1}
BY DEF LifeInv, LifeTypeOK, CardRec, CardsShape, me

(* A card that has its bus is the only one that is registered. *)
LEMMA BusAlone ==
  ASSUME LifeInv, cur \in Cards, me.mdio
  PROVE  \A c \in Cards : c # cur =>
           /\ d[c].net # "registered" /\ ~d[c].mdio /\ ~d[c].mdiodev /\ ~d[c].dsa
<1> SUFFICES ASSUME NEW c \in Cards, c # cur
             PROVE  /\ d[c].net # "registered" /\ ~d[c].mdio
                    /\ ~d[c].mdiodev /\ ~d[c].dsa
  OBVIOUS
<1>1. ~d[c].mdio
  BY DEF LifeInv, OneBus, me
<1>2. HeldShape(d[c]) /\ Resting(d[c])
  BY DEF LifeInv, CardsShape
<1> QED
  BY <1>1, <1>2 DEF HeldShape, Resting, Clean, Dead, Bare, Whole

(* The PCI structure is allocated, or probe returns. *)
LEMMA PcidevInv ==
  ASSUME LifeInv, pcidev_alloc
  PROVE  LifeInv'
<1>1. CASE step' = "device"
  <2>1. /\ step = "pcidev" /\ step' = "device" /\ crash' = "none" /\ cur' = cur
        /\ rv' = rv /\ mdioDrv' = mdioDrv /\ descFlag' = descFlag
    BY <1>1 DEF pcidev_alloc, Step
  <2>2. /\ me \in CardRec /\ HeldShape(me) /\ Active(me, "pcidev", rv)
        /\ ValueShape("pcidev", rv) /\ rv \in {0, 1}
    BY <2>1, Here
  <2>3. d' = [d EXCEPT ![cur] = me]
    BY <1>1, <2>1, Here DEF pcidev_alloc, Step, me
  <2>4. Active(me, "device", rv) /\ ValueShape("device", rv)
    BY <2>1, <2>2 DEF Active, HeldShape, ValueShape, ErrPath, Removing,
      Probing, PastBus, PastNet, PastPriv, Bare, Clean, CardRec
  <2> QED
    BY <2>1, <2>2, <2>3, <2>4, Here, LocalStep DEF Steps, PastBus, PastNet,
       PastPriv, ErrPath, Removing
<1>2. CASE step' # "device"
  <2>1. /\ step = "pcidev" /\ step' = "return" /\ crash' = "none" /\ cur' = cur
        /\ rv' = 1 /\ mdioDrv' = mdioDrv /\ descFlag' = descFlag
    BY <1>2 DEF pcidev_alloc, Step
  <2>2. /\ me \in CardRec /\ HeldShape(me) /\ Active(me, "pcidev", rv)
        /\ ValueShape("pcidev", rv) /\ rv \in {0, 1}
    BY <2>1, Here
  <2>3. d' = [d EXCEPT ![cur] = me]
    BY <1>2, <2>1, Here DEF pcidev_alloc, Step, me
  <2>4. Active(me, "return", 1) /\ ValueShape("return", 1)
    BY <2>1, <2>2 DEF Active, HeldShape, ValueShape, ErrPath, Removing,
      Probing, PastBus, PastNet, PastPriv, Bare, Clean, ReturnShape, Whole,
      Dead, CardRec
  <2> QED
    BY <2>1, <2>2, <2>3, <2>4, Here, LocalStep DEF Steps, PastBus, PastNet,
       PastPriv, ErrPath, Removing
<1> QED
  BY <1>1, <1>2

(* xdma_device_open, or one of its failures. *)
LEMMA OpenDeviceInv ==
  ASSUME LifeInv, OpenDevice
  PROVE  LifeInv'
<1>1. CASE step' = "user_isr"
  <2> DEFINE r == [me EXCEPT !.xdev = TRUE]
  <2>1. /\ step = "device" /\ step' = "user_isr" /\ crash' = "none" /\ cur' = cur
        /\ rv' = rv /\ mdioDrv' = mdioDrv /\ descFlag' = descFlag
    BY <1>1 DEF OpenDevice, Step
  <2>2. /\ me \in CardRec /\ HeldShape(me) /\ Active(me, "device", rv)
        /\ ValueShape("device", rv) /\ rv \in {0, 1}
    BY <2>1, Here
  <2>3. d' = [d EXCEPT ![cur] = r]
    BY <1>1, <2>1, Here DEF OpenDevice, Step, me
  <2>4. r \in CardRec
    BY <2>1, <2>2 DEF CardRec
  <2>5. HeldShape(r) /\ Active(r, "user_isr", rv) /\ ValueShape("user_isr", rv)
    BY <1>1, <2>1, <2>2 DEF OpenDevice, Active, HeldShape, ValueShape, ErrPath,
      Removing, Probing, PastBus, PastNet, PastPriv, Bare, Clean, me, CardRec
  <2>6. /\ r.mdio => me.mdio
        /\ r.net = "registered" => me.net = "registered" /\ r.transfer = me.transfer
        /\ me.net = "registered" => r.net = "registered"
    BY <2>1, <2>2 DEF Active, HeldShape, ValueShape, ErrPath, Removing,
      Probing, PastBus, PastNet, PastPriv, Bare, Clean, CardRec
  <2> QED
    BY <2>1, <2>2, <2>3, <2>4, <2>5, <2>6, Here, LocalStep DEF Steps, PastBus, PastNet,
       PastPriv, ErrPath, Removing
<1>2. CASE step' # "user_isr" /\ d' = d
  <2>1. /\ step = "device" /\ step' = "return" /\ crash' = "none" /\ cur' = cur
        /\ rv' = 1 /\ mdioDrv' = mdioDrv /\ descFlag' = descFlag
    BY <1>2 DEF OpenDevice, Step
  <2>2. /\ me \in CardRec /\ HeldShape(me) /\ Active(me, "device", rv)
        /\ ValueShape("device", rv) /\ rv \in {0, 1}
    BY <2>1, Here
  <2>3. d' = [d EXCEPT ![cur] = me]
    BY <1>2, <2>1, Here DEF OpenDevice, Step, me
  <2>4. Active(me, "return", 1) /\ ValueShape("return", 1)
    BY <1>2, <2>1, <2>2 DEF OpenDevice, Active, HeldShape, ValueShape, ErrPath,
      Removing, Probing, PastBus, PastNet, PastPriv, Bare, Clean, ReturnShape,
      Whole, Dead, me, CardRec
  <2> QED
    BY <2>1, <2>2, <2>3, <2>4, Here, LocalStep DEF Steps, PastBus, PastNet,
       PastPriv, ErrPath, Removing
<1>3. CASE step' # "user_isr" /\ d' # d
  <2> DEFINE r == [me EXCEPT !.xdev = TRUE]
  <2>1. /\ step = "device" /\ step' = "return" /\ crash' = "none" /\ cur' = cur
        /\ rv' = 1 /\ mdioDrv' = mdioDrv /\ descFlag' = descFlag
    BY <1>3 DEF OpenDevice, Step
  <2>2. /\ me \in CardRec /\ HeldShape(me) /\ Active(me, "device", rv)
        /\ ValueShape("device", rv) /\ rv \in {0, 1}
    BY <2>1, Here
  <2>3. d' = [d EXCEPT ![cur] = r]
    BY <1>3, <2>1, Here DEF OpenDevice, Step, me
  <2>4. r \in CardRec
    BY <2>1, <2>2 DEF CardRec
  <2>5. HeldShape(r) /\ Active(r, "return", 1) /\ ValueShape("return", 1)
    BY <1>3, <2>1, <2>2 DEF OpenDevice, Active, HeldShape, ValueShape, ErrPath,
      Removing, Probing, PastBus, PastNet, PastPriv, Bare, Clean, ReturnShape,
      Whole, Dead, me, CardRec
  <2>6. /\ r.mdio => me.mdio
        /\ r.net = "registered" => me.net = "registered" /\ r.transfer = me.transfer
        /\ me.net = "registered" => r.net = "registered"
    BY <2>1, <2>2 DEF Active, HeldShape, ValueShape, ErrPath, Removing,
      Probing, PastBus, PastNet, PastPriv, Bare, Clean, ReturnShape, Whole,
      Dead, CardRec
  <2> QED
    BY <2>1, <2>2, <2>3, <2>4, <2>5, <2>6, Here, LocalStep DEF Steps, PastBus, PastNet,
       PastPriv, ErrPath, Removing
<1> QED
  BY <1>1, <1>2, <1>3

(* The user interrupts are enabled. *)
LEMMA EnableIrqsInv ==
  ASSUME LifeInv, EnableUserIrqs
  PROVE  LifeInv'
<1> DEFINE r == [me EXCEPT !.user = {Low, High}]
<1>1. /\ step = "user_isr" /\ step' = "etherdev" /\ crash' = "none" /\ cur' = cur
      /\ rv' = rv /\ mdioDrv' = mdioDrv /\ descFlag' = descFlag
  BY DEF EnableUserIrqs, Step
<1>2. /\ me \in CardRec /\ HeldShape(me) /\ Active(me, "user_isr", rv)
      /\ ValueShape("user_isr", rv) /\ rv \in {0, 1}
  BY <1>1, Here
<1>3. d' = [d EXCEPT ![cur] = r]
  BY <1>1, Here DEF EnableUserIrqs, Step, me
<1>4. r \in CardRec
  BY <1>1, <1>2 DEF CardRec
<1>5. HeldShape(r) /\ Active(r, "etherdev", rv) /\ ValueShape("etherdev", rv)
  BY <1>1, <1>2 DEF Active, HeldShape, ValueShape, ErrPath, Removing, Probing,
    PastBus, PastNet, PastPriv, Bare, CardRec
<1>6. /\ r.mdio => me.mdio
      /\ r.net = "registered" => me.net = "registered" /\ r.transfer = me.transfer
      /\ me.net = "registered" => r.net = "registered"
  BY <1>1, <1>2 DEF Active, HeldShape, ValueShape, ErrPath, Removing, Probing,
    PastBus, PastNet, PastPriv, Bare, CardRec
<1> QED
  BY <1>1, <1>2, <1>3, <1>4, <1>5, <1>6, Here, LocalStep DEF Steps, PastBus, PastNet,
     PastPriv, ErrPath, Removing

(* The interface is allocated, and the flag of the transfers cleared. *)
LEMMA AllocNetdevInv ==
  ASSUME LifeInv, AllocNetdev
  PROVE  LifeInv'
<1>1. CASE step' = "switch"
  <2> DEFINE r == [me EXCEPT !.net = "alloc"]
  <2>1. /\ step = "etherdev" /\ step' = "switch" /\ crash' = "none" /\ cur' = cur
        /\ rv' = rv /\ mdioDrv' = mdioDrv /\ descFlag' = 0
    BY <1>1 DEF AllocNetdev, Step
  <2>2. /\ me \in CardRec /\ HeldShape(me) /\ Active(me, "etherdev", rv)
        /\ ValueShape("etherdev", rv) /\ rv \in {0, 1}
    BY <2>1, Here
  <2>3. d' = [d EXCEPT ![cur] = r]
    BY <1>1, <2>1, Here DEF AllocNetdev, Step, me
  <2>4. r \in CardRec
    BY <2>1, <2>2 DEF CardRec
  <2>5. HeldShape(r) /\ Active(r, "switch", rv) /\ ValueShape("switch", rv)
    BY <2>1, <2>2 DEF Active, HeldShape, ValueShape, ErrPath, Removing,
      Probing, PastBus, PastNet, PastPriv, Bare, CardRec
  <2>6. /\ r.mdio => me.mdio
        /\ me.net = "registered" => r.net = "registered"
    BY <2>1, <2>2 DEF Active, HeldShape, ValueShape, ErrPath, Removing,
      Probing, PastBus, PastNet, PastPriv, Bare, CardRec
  <2> QED
    BY <2>1, <2>2, <2>3, <2>4, <2>5, <2>6, Here, LocalStep DEF Steps, PastBus, PastNet,
       PastPriv, ErrPath, Removing
<1>2. CASE step' # "switch"
  <2>1. /\ step = "etherdev" /\ step' = "err_out" /\ crash' = "none" /\ cur' = cur
        /\ rv' = rv /\ mdioDrv' = mdioDrv /\ descFlag' = 0
    BY <1>2 DEF AllocNetdev, Step
  <2>2. /\ me \in CardRec /\ HeldShape(me) /\ Active(me, "etherdev", rv)
        /\ ValueShape("etherdev", rv) /\ rv \in {0, 1}
    BY <2>1, Here
  <2>3. d' = [d EXCEPT ![cur] = me]
    BY <1>2, <2>1, Here DEF AllocNetdev, Step, me
  <2>4. Active(me, "err_out", rv) /\ ValueShape("err_out", rv)
    BY <2>1, <2>2 DEF Active, HeldShape, ValueShape, ErrPath, Removing,
      Probing, PastBus, PastNet, PastPriv, Bare, FailingShape, CardRec
  <2> QED
    BY <2>1, <2>2, <2>3, <2>4, Here, LocalStep DEF Steps, PastBus, PastNet,
       PastPriv, ErrPath, Removing
<1> QED
  BY <1>1, <1>2

(* The driver data is set, and the private data if all goes well. *)
LEMMA InitSwitchInv ==
  ASSUME LifeInv, InitSwitch
  PROVE  LifeInv'
<1>1. CASE step' = "mac"
  <2> DEFINE r == [me EXCEPT !.drvdata = "live", !.priv = TRUE, !.napi = TRUE]
  <2>1. /\ step = "switch" /\ step' = "mac" /\ crash' = "none" /\ cur' = cur
        /\ rv' = rv /\ mdioDrv' = mdioDrv /\ descFlag' = descFlag
    BY <1>1 DEF InitSwitch, Step
  <2>2. /\ me \in CardRec /\ HeldShape(me) /\ Active(me, "switch", rv)
        /\ ValueShape("switch", rv) /\ rv \in {0, 1}
    BY <2>1, Here
  <2>3. d' = [d EXCEPT ![cur] = r]
    BY <1>1, <2>1, Here DEF InitSwitch, Step, me
  <2>4. r \in CardRec
    BY <2>1, <2>2 DEF CardRec
  <2>5. HeldShape(r) /\ Active(r, "mac", rv) /\ ValueShape("mac", rv)
    BY <2>1, <2>2 DEF Active, HeldShape, ValueShape, ErrPath, Removing,
      Probing, PastBus, PastNet, PastPriv, Bare, CardRec
  <2>6. /\ r.mdio => me.mdio
        /\ r.net = "registered" => me.net = "registered" /\ r.transfer = me.transfer
        /\ me.net = "registered" => r.net = "registered"
        /\ r.transfer = me.transfer
    BY <2>1, <2>2 DEF Active, HeldShape, ValueShape, ErrPath, Removing,
      Probing, PastBus, PastNet, PastPriv, Bare, CardRec
  <2> QED
    BY <2>1, <2>2, <2>3, <2>4, <2>5, <2>6, Here, LocalStep DEF Steps, PastBus, PastNet,
       PastPriv, ErrPath, Removing
<1>2. CASE step' # "mac"
  <2> DEFINE r == [me EXCEPT !.drvdata = "live"]
  <2>1. /\ step = "switch" /\ step' = "err_out" /\ crash' = "none" /\ cur' = cur
        /\ rv' = rv /\ mdioDrv' = mdioDrv /\ descFlag' = descFlag
    BY <1>2 DEF InitSwitch, Step
  <2>2. /\ me \in CardRec /\ HeldShape(me) /\ Active(me, "switch", rv)
        /\ ValueShape("switch", rv) /\ rv \in {0, 1}
    BY <2>1, Here
  <2>3. d' = [d EXCEPT ![cur] = r]
    BY <1>2, <2>1, Here DEF InitSwitch, Step, me
  <2>4. r \in CardRec
    BY <2>1, <2>2 DEF CardRec
  <2>5. HeldShape(r) /\ Active(r, "err_out", rv) /\ ValueShape("err_out", rv)
    BY <2>1, <2>2 DEF Active, HeldShape, ValueShape, ErrPath, Removing,
      Probing, PastBus, PastNet, PastPriv, Bare, FailingShape, CardRec
  <2>6. /\ r.mdio => me.mdio
        /\ r.net = "registered" => me.net = "registered" /\ r.transfer = me.transfer
        /\ me.net = "registered" => r.net = "registered"
    BY <2>1, <2>2 DEF Active, HeldShape, ValueShape, ErrPath, Removing,
      Probing, PastBus, PastNet, PastPriv, Bare, FailingShape, CardRec
  <2> QED
    BY <2>1, <2>2, <2>3, <2>4, <2>5, <2>6, Here, LocalStep DEF Steps, PastBus, PastNet,
       PastPriv, ErrPath, Removing
<1> QED
  BY <1>1, <1>2

(* The MAC address is checked. *)
LEMMA CheckMacInv ==
  ASSUME LifeInv, CheckMac
  PROVE  LifeInv'
<1>1. CASE step' = "netdev"
  <2>1. /\ step = "mac" /\ step' = "netdev" /\ crash' = "none" /\ cur' = cur
        /\ rv' = rv /\ mdioDrv' = mdioDrv /\ descFlag' = descFlag
    BY <1>1 DEF CheckMac, Step
  <2>2. /\ me \in CardRec /\ HeldShape(me) /\ Active(me, "mac", rv)
        /\ ValueShape("mac", rv) /\ rv \in {0, 1}
    BY <2>1, Here
  <2>3. d' = [d EXCEPT ![cur] = me]
    BY <1>1, <2>1, Here DEF CheckMac, Step, me
  <2>4. Active(me, "netdev", rv) /\ ValueShape("netdev", rv)
    BY <2>1, <2>2 DEF Active, HeldShape, ValueShape, ErrPath, Removing,
      Probing, PastBus, PastNet, PastPriv, Bare, CardRec
  <2> QED
    BY <2>1, <2>2, <2>3, <2>4, Here, LocalStep DEF Steps, PastBus, PastNet,
       PastPriv, ErrPath, Removing
<1>2. CASE step' # "netdev"
  <2>1. /\ step = "mac" /\ step' = "err_out" /\ crash' = "none" /\ cur' = cur
        /\ rv' = rv /\ mdioDrv' = mdioDrv /\ descFlag' = descFlag
    BY <1>2 DEF CheckMac, Step
  <2>2. /\ me \in CardRec /\ HeldShape(me) /\ Active(me, "mac", rv)
        /\ ValueShape("mac", rv) /\ rv \in {0, 1}
    BY <2>1, Here
  <2>3. d' = [d EXCEPT ![cur] = me]
    BY <1>2, <2>1, Here DEF CheckMac, Step, me
  <2>4. Active(me, "err_out", rv) /\ ValueShape("err_out", rv)
    BY <2>1, <2>2 DEF Active, HeldShape, ValueShape, ErrPath, Removing,
      Probing, PastBus, PastNet, PastPriv, Bare, FailingShape, CardRec
  <2> QED
    BY <2>1, <2>2, <2>3, <2>4, Here, LocalStep DEF Steps, PastBus, PastNet,
       PastPriv, ErrPath, Removing
<1> QED
  BY <1>1, <1>2

(* The interface is registered. *)
LEMMA RegisterNetdevInv ==
  ASSUME LifeInv, RegisterNetdev
  PROVE  LifeInv'
<1>1. CASE step' = "mdio"
  <2> DEFINE r == [me EXCEPT !.net = "registered"]
  <2>1. /\ step = "netdev" /\ step' = "mdio" /\ crash' = "none" /\ cur' = cur
        /\ rv' = rv /\ mdioDrv' = mdioDrv /\ descFlag' = descFlag
    BY <1>1 DEF RegisterNetdev, Step
  <2>2. /\ me \in CardRec /\ HeldShape(me) /\ Active(me, "netdev", rv)
        /\ ValueShape("netdev", rv) /\ rv \in {0, 1}
    BY <2>1, Here
  <2>3. d' = [d EXCEPT ![cur] = r]
    BY <1>1, <2>1, Here DEF RegisterNetdev, Step, me
  <2>4. r \in CardRec
    BY <2>1, <2>2 DEF CardRec
  <2>5. HeldShape(r) /\ Active(r, "mdio", rv) /\ ValueShape("mdio", rv)
    BY <2>1, <2>2 DEF Active, HeldShape, ValueShape, ErrPath, Removing,
      Probing, PastBus, PastNet, PastPriv, Bare, CardRec
  <2>6. /\ r.mdio => me.mdio
        /\ r.transfer = me.transfer
        /\ me.net = "registered" => r.net = "registered"
    BY <2>1, <2>2 DEF Active, HeldShape, ValueShape, ErrPath, Removing,
      Probing, PastBus, PastNet, PastPriv, Bare, CardRec
  <2> QED
    BY <2>1, <2>2, <2>3, <2>4, <2>5, <2>6, Here, LocalStep DEF Steps, PastBus, PastNet,
       PastPriv, ErrPath, Removing
<1>2. CASE step' # "mdio"
  <2>1. /\ step = "netdev" /\ step' = "err_out1" /\ crash' = "none" /\ cur' = cur
        /\ rv' = rv /\ mdioDrv' = mdioDrv /\ descFlag' = descFlag
    BY <1>2 DEF RegisterNetdev, Step
  <2>2. /\ me \in CardRec /\ HeldShape(me) /\ Active(me, "netdev", rv)
        /\ ValueShape("netdev", rv) /\ rv \in {0, 1}
    BY <2>1, Here
  <2>3. d' = [d EXCEPT ![cur] = me]
    BY <1>2, <2>1, Here DEF RegisterNetdev, Step, me
  <2>4. Active(me, "err_out1", rv) /\ ValueShape("err_out1", rv)
    BY <2>1, <2>2 DEF Active, HeldShape, ValueShape, ErrPath, Removing,
      Probing, PastBus, PastNet, PastPriv, Bare, FailingShape, CardRec
  <2> QED
    BY <2>1, <2>2, <2>3, <2>4, Here, LocalStep DEF Steps, PastBus, PastNet,
       PastPriv, ErrPath, Removing
<1> QED
  BY <1>1, <1>2

(* The handlers of the user interrupts are registered. *)
LEMMA UserIsrInv ==
  ASSUME LifeInv, xdma_user_isr_register
  PROVE  LifeInv'
<1> DEFINE r == [me EXCEPT !.handlers = TRUE, !.user = me.user \cup {Low}]
<1>1. /\ step = "isr" /\ step' = "timer" /\ crash' = "none" /\ cur' = cur
      /\ rv' = rv /\ mdioDrv' = mdioDrv /\ descFlag' = descFlag
  BY DEF xdma_user_isr_register, Step
<1>2. /\ me \in CardRec /\ HeldShape(me) /\ Active(me, "isr", rv)
      /\ ValueShape("isr", rv) /\ rv \in {0, 1}
  BY <1>1, Here
<1>3. d' = [d EXCEPT ![cur] = r]
  BY <1>1, Here DEF xdma_user_isr_register, Step, me
<1>4. r \in CardRec
  BY <1>1, <1>2 DEF CardRec
<1>5. HeldShape(r) /\ Active(r, "timer", rv) /\ ValueShape("timer", rv)
  BY <1>1, <1>2 DEF Active, HeldShape, ValueShape, ErrPath, Removing, Probing,
    PastBus, PastNet, PastPriv, Bare, CardRec
<1>6. /\ r.mdio => me.mdio
      /\ r.net = "registered" => me.net = "registered" /\ r.transfer = me.transfer
      /\ me.net = "registered" => r.net = "registered"
  BY <1>1, <1>2 DEF Active, HeldShape, ValueShape, ErrPath, Removing, Probing,
    PastBus, PastNet, PastPriv, Bare, CardRec
<1> QED
  BY <1>1, <1>2, <1>3, <1>4, <1>5, <1>6, Here, LocalStep DEF Steps, PastBus, PastNet,
     PastPriv, ErrPath, Removing

(* The PHY timer is armed. *)
LEMMA TimerInv ==
  ASSUME LifeInv, ax_phy_timer_init
  PROVE  LifeInv'
<1> DEFINE r == [me EXCEPT !.timer = TRUE]
<1>1. /\ step = "timer" /\ step' = "driver" /\ crash' = "none" /\ cur' = cur
      /\ rv' = rv /\ mdioDrv' = mdioDrv /\ descFlag' = descFlag
  BY DEF ax_phy_timer_init, Step
<1>2. /\ me \in CardRec /\ HeldShape(me) /\ Active(me, "timer", rv)
      /\ ValueShape("timer", rv) /\ rv \in {0, 1}
  BY <1>1, Here
<1>3. d' = [d EXCEPT ![cur] = r]
  BY <1>1, Here DEF ax_phy_timer_init, Step, me
<1>4. r \in CardRec
  BY <1>1, <1>2 DEF CardRec
<1>5. HeldShape(r) /\ Active(r, "driver", rv) /\ ValueShape("driver", rv)
  BY <1>1, <1>2 DEF Active, HeldShape, ValueShape, ErrPath, Removing, Probing,
    PastBus, PastNet, PastPriv, Bare, CardRec
<1>6. /\ r.mdio => me.mdio
      /\ r.net = "registered" => me.net = "registered" /\ r.transfer = me.transfer
      /\ me.net = "registered" => r.net = "registered"
  BY <1>1, <1>2 DEF Active, HeldShape, ValueShape, ErrPath, Removing, Probing,
    PastBus, PastNet, PastPriv, Bare, CardRec
<1> QED
  BY <1>1, <1>2, <1>3, <1>4, <1>5, <1>6, Here, LocalStep DEF Steps, PastBus, PastNet,
     PastPriv, ErrPath, Removing

(* The proc files are made, or probe fails with its interface registered. *)
LEMMA ProcFilesInv ==
  ASSUME LifeInv, ProcFiles
  PROVE  LifeInv'
<1>1. CASE step' = "return"
  <2> DEFINE r == [me EXCEPT !.proc = TRUE]
  <2>1. /\ step = "proc" /\ step' = "return" /\ crash' = "none" /\ cur' = cur
        /\ rv' = rv /\ mdioDrv' = mdioDrv /\ descFlag' = descFlag
    BY <1>1 DEF ProcFiles, Step
  <2>2. /\ me \in CardRec /\ HeldShape(me) /\ Active(me, "proc", rv)
        /\ ValueShape("proc", rv) /\ rv \in {0, 1}
    BY <2>1, Here
  <2>3. d' = [d EXCEPT ![cur] = r]
    BY <1>1, <2>1, Here DEF ProcFiles, Step, me
  <2>4. r \in CardRec
    BY <2>1, <2>2 DEF CardRec
  <2>5. HeldShape(r) /\ Active(r, "return", rv) /\ ValueShape("return", rv)
    BY <2>1, <2>2 DEF Active, HeldShape, ValueShape, ErrPath, Removing,
      Probing, PastBus, PastNet, PastPriv, Bare, ReturnShape, Whole, Dead,
      Clean, CardRec
  <2>6. /\ r.mdio => me.mdio
        /\ r.net = "registered" => me.net = "registered" /\ r.transfer = me.transfer
        /\ me.net = "registered" => r.net = "registered"
    BY <2>1, <2>2 DEF Active, HeldShape, ValueShape, ErrPath, Removing,
      Probing, PastBus, PastNet, PastPriv, Bare, ReturnShape, Whole, Dead,
      Clean, CardRec
  <2> QED
    BY <2>1, <2>2, <2>3, <2>4, <2>5, <2>6, Here, LocalStep DEF Steps, PastBus, PastNet,
       PastPriv, ErrPath, Removing
<1>2. CASE step' # "return"
  <2>1. /\ step = "proc" /\ step' = "err_out1" /\ crash' = "none" /\ cur' = cur
        /\ rv' = 1 /\ mdioDrv' = mdioDrv /\ descFlag' = descFlag
    BY <1>2 DEF ProcFiles, Step
  <2>2. /\ me \in CardRec /\ HeldShape(me) /\ Active(me, "proc", rv)
        /\ ValueShape("proc", rv) /\ rv \in {0, 1}
    BY <2>1, Here
  <2>3. d' = [d EXCEPT ![cur] = me]
    BY <1>2, <2>1, Here DEF ProcFiles, Step, me
  <2>4. Active(me, "err_out1", 1) /\ ValueShape("err_out1", 1)
    BY <2>1, <2>2 DEF Active, HeldShape, ValueShape, ErrPath, Removing,
      Probing, PastBus, PastNet, PastPriv, Bare, FailingShape, CardRec
  <2> QED
    BY <2>1, <2>2, <2>3, <2>4, Here, LocalStep DEF Steps, PastBus, PastNet,
       PastPriv, ErrPath, Removing
<1> QED
  BY <1>1, <1>2

(* The error path takes NAPI down. *)
LEMMA ErrOut1Inv ==
  ASSUME LifeInv, ErrOut1
  PROVE  LifeInv'
<1> DEFINE r == [me EXCEPT !.napi = FALSE]
<1>1. /\ step = "err_out1" /\ step' = "err_out" /\ crash' = "none" /\ cur' = cur
      /\ rv' = rv /\ mdioDrv' = mdioDrv /\ descFlag' = descFlag
  BY DEF ErrOut1, Step
<1>2. /\ me \in CardRec /\ HeldShape(me) /\ Active(me, "err_out1", rv)
      /\ ValueShape("err_out1", rv) /\ rv \in {0, 1}
  BY <1>1, Here
<1>3. d' = [d EXCEPT ![cur] = r]
  BY <1>1, Here DEF ErrOut1, Step, me
<1>4. r \in CardRec
  BY <1>1, <1>2 DEF CardRec
<1>5. HeldShape(r) /\ Active(r, "err_out", rv) /\ ValueShape("err_out", rv)
  BY <1>1, <1>2 DEF Active, HeldShape, ValueShape, ErrPath, Removing, Probing,
    PastBus, PastNet, PastPriv, Bare, FailingShape, CardRec
<1>6. /\ r.mdio => me.mdio
      /\ r.net = "registered" => me.net = "registered" /\ r.transfer = me.transfer
      /\ me.net = "registered" => r.net = "registered"
  BY <1>1, <1>2 DEF Active, HeldShape, ValueShape, ErrPath, Removing, Probing,
    PastBus, PastNet, PastPriv, Bare, FailingShape, CardRec
<1> QED
  BY <1>1, <1>2, <1>3, <1>4, <1>5, <1>6, Here, LocalStep DEF Steps, PastBus, PastNet,
     PastPriv, ErrPath, Removing

(* The error path closes the device and frees the driver data. *)
LEMMA ErrOutInv ==
  ASSUME LifeInv, ErrOut
  PROVE  LifeInv'
<1> DEFINE r == [me EXCEPT !.xdev = FALSE, !.user = {},
                         !.drvdata = IF me.drvdata = "live" THEN "freed" ELSE me.drvdata]
<1>1. /\ step = "err_out" /\ step' = "err_free" /\ crash' = "none" /\ cur' = cur
      /\ rv' = rv /\ mdioDrv' = mdioDrv /\ descFlag' = descFlag
  BY DEF ErrOut, Step
<1>2. /\ me \in CardRec /\ HeldShape(me) /\ Active(me, "err_out", rv)
      /\ ValueShape("err_out", rv) /\ rv \in {0, 1}
  BY <1>1, Here
<1>3. d' = [d EXCEPT ![cur] = r]
  BY <1>1, Here DEF ErrOut, Step, me
<1>4. r \in CardRec
  BY <1>1, <1>2 DEF CardRec
<1>5. HeldShape(r) /\ Active(r, "err_free", rv) /\ ValueShape("err_free", rv)
  BY <1>1, <1>2 DEF Active, HeldShape, ValueShape, ErrPath, Removing, Probing,
    PastBus, PastNet, PastPriv, Bare, FailingShape, CardRec
<1>6. /\ r.mdio => me.mdio
      /\ r.net = "registered" => me.net = "registered" /\ r.transfer = me.transfer
      /\ me.net = "registered" => r.net = "registered"
  BY <1>1, <1>2 DEF Active, HeldShape, ValueShape, ErrPath, Removing, Probing,
    PastBus, PastNet, PastPriv, Bare, FailingShape, CardRec
<1> QED
  BY <1>1, <1>2, <1>3, <1>4, <1>5, <1>6, Here, LocalStep DEF Steps, PastBus, PastNet,
     PastPriv, ErrPath, Removing

(* Probe returns: the card is kept, or forgotten. *)
LEMMA ProbeReturnInv ==
  ASSUME LifeInv, ProbeReturn
  PROVE  LifeInv'
<1> DEFINE r == [me EXCEPT !.bound = (rv = 0),
                         !.drvdata = IF rv = 0 THEN me.drvdata ELSE "null"]
<1>1. /\ step = "return" /\ step' = "idle" /\ crash' = "none" /\ cur' = cur
      /\ rv' = rv /\ mdioDrv' = mdioDrv /\ descFlag' = descFlag
  BY DEF ProbeReturn, Step
<1>2. /\ me \in CardRec /\ HeldShape(me) /\ Active(me, "return", rv)
      /\ ValueShape("return", rv) /\ rv \in {0, 1}
  BY <1>1, Here
<1>3. d' = [d EXCEPT ![cur] = r]
  BY <1>1, Here DEF ProbeReturn, Step, me
<1>4. r \in CardRec
  BY <1>1, <1>2 DEF CardRec
<1>5. HeldShape(r) /\ Resting(r) /\ ValueShape("idle", rv)
  BY <1>1, <1>2 DEF Active, HeldShape, ValueShape, ErrPath, Removing, Probing,
    PastBus, PastNet, PastPriv, Bare, ReturnShape, Whole, Dead, Clean, Resting,
    CardRec
<1>6. /\ r.mdio => me.mdio
      /\ r.net = "registered" => me.net = "registered" /\ r.transfer = me.transfer
      /\ me.net = "registered" => r.net = "registered"
  BY <1>1, <1>2 DEF Active, HeldShape, ValueShape, ErrPath, Removing, Probing,
    PastBus, PastNet, PastPriv, Bare, ReturnShape, Whole, Dead, Clean, Resting,
    CardRec
<1> QED
  BY <1>1, <1>2, <1>3, <1>4, <1>5, <1>6, Here, LocalStep DEF Steps, PastBus, PastNet,
     PastPriv, ErrPath, Removing

(* Remove: the timer and the proc files go first. *)
LEMMA DelTimerInv ==
  ASSUME LifeInv, DelTimer
  PROVE  LifeInv'
<1> DEFINE r == [me EXCEPT !.timer = FALSE, !.proc = FALSE, !.napi = FALSE]
<1>1. /\ step = "del_timer" /\ step' = "del_irq" /\ crash' = "none" /\ cur' = cur
      /\ rv' = rv /\ mdioDrv' = mdioDrv /\ descFlag' = descFlag
  BY DEF DelTimer, Step
<1>2. /\ me \in CardRec /\ HeldShape(me) /\ Active(me, "del_timer", rv)
      /\ ValueShape("del_timer", rv) /\ rv \in {0, 1}
  BY <1>1, Here
<1>3. d' = [d EXCEPT ![cur] = r]
  BY <1>1, Here DEF DelTimer, Step, me
<1>4. r \in CardRec
  BY <1>1, <1>2 DEF CardRec
<1>5. HeldShape(r) /\ Active(r, "del_irq", rv) /\ ValueShape("del_irq", rv)
  BY <1>1, <1>2 DEF Active, HeldShape, ValueShape, ErrPath, Removing,
    RemovingShape, Whole, CardRec
<1>6. /\ r.mdio => me.mdio
      /\ r.net = "registered" => me.net = "registered" /\ r.transfer = me.transfer
      /\ me.net = "registered" => r.net = "registered"
  BY <1>1, <1>2 DEF Active, HeldShape, ValueShape, ErrPath, Removing,
    RemovingShape, Whole, CardRec
<1> QED
  BY <1>1, <1>2, <1>3, <1>4, <1>5, <1>6, Here, LocalStep DEF Steps, PastBus, PastNet,
     PastPriv, ErrPath, Removing

(* Remove: user interrupts. *)
LEMMA DisableIrqsInv ==
  ASSUME LifeInv, DisableUserIrqs
  PROVE  LifeInv'
<1> DEFINE r == [me EXCEPT !.user = me.user \ {Low}]
<1>1. /\ step = "del_irq" /\ step' = "del_ptp" /\ crash' = "none" /\ cur' = cur
      /\ rv' = rv /\ mdioDrv' = mdioDrv /\ descFlag' = descFlag
  BY DEF DisableUserIrqs, Step
<1>2. /\ me \in CardRec /\ HeldShape(me) /\ Active(me, "del_irq", rv)
      /\ ValueShape("del_irq", rv) /\ rv \in {0, 1}
  BY <1>1, Here
<1>3. d' = [d EXCEPT ![cur] = r]
  BY <1>1, Here DEF DisableUserIrqs, Step, me
<1>4. r \in CardRec
  BY <1>1, <1>2 DEF CardRec
<1>5. HeldShape(r) /\ Active(r, "del_ptp", rv) /\ ValueShape("del_ptp", rv)
  BY <1>1, <1>2 DEF Active, HeldShape, ValueShape, ErrPath, Removing,
    RemovingShape, CardRec
<1>6. /\ r.mdio => me.mdio
      /\ r.net = "registered" => me.net = "registered" /\ r.transfer = me.transfer
      /\ me.net = "registered" => r.net = "registered"
  BY <1>1, <1>2 DEF Active, HeldShape, ValueShape, ErrPath, Removing,
    RemovingShape, CardRec
<1> QED
  BY <1>1, <1>2, <1>3, <1>4, <1>5, <1>6, Here, LocalStep DEF Steps, PastBus, PastNet,
     PastPriv, ErrPath, Removing

(* Remove: the clocks. *)
LEMMA PtpRemoveInv ==
  ASSUME LifeInv, ax_ptp_remove
  PROVE  LifeInv'
<1> DEFINE r == [me EXCEPT !.ptp = FALSE]
<1>1. /\ step = "del_ptp" /\ step' = "del_driver" /\ crash' = "none" /\ cur' = cur
      /\ rv' = rv /\ mdioDrv' = mdioDrv /\ descFlag' = descFlag
  BY DEF ax_ptp_remove, Step
<1>2. /\ me \in CardRec /\ HeldShape(me) /\ Active(me, "del_ptp", rv)
      /\ ValueShape("del_ptp", rv) /\ rv \in {0, 1}
  BY <1>1, Here
<1>3. d' = [d EXCEPT ![cur] = r]
  BY <1>1, Here DEF ax_ptp_remove, Step, me
<1>4. r \in CardRec
  BY <1>1, <1>2 DEF CardRec
<1>5. HeldShape(r) /\ Active(r, "del_driver", rv) /\ ValueShape("del_driver", rv)
  BY <1>1, <1>2 DEF Active, HeldShape, ValueShape, ErrPath, Removing,
    RemovingShape, CardRec
<1>6. /\ r.mdio => me.mdio
      /\ r.net = "registered" => me.net = "registered" /\ r.transfer = me.transfer
      /\ me.net = "registered" => r.net = "registered"
  BY <1>1, <1>2 DEF Active, HeldShape, ValueShape, ErrPath, Removing,
    RemovingShape, CardRec
<1> QED
  BY <1>1, <1>2, <1>3, <1>4, <1>5, <1>6, Here, LocalStep DEF Steps, PastBus, PastNet,
     PastPriv, ErrPath, Removing

(* Remove: the bus, and the switch device with it. *)
LEMMA RemoveMdioInv ==
  ASSUME LifeInv, ax_remove_mdio
  PROVE  LifeInv'
<1> DEFINE r == [RemoveSwitch(me) EXCEPT !.mdio = FALSE, !.mdiodev = FALSE]
<1>1. /\ step = "del_mdio" /\ step' = "del_netdev" /\ crash' = "none" /\ cur' = cur
      /\ rv' = rv /\ mdioDrv' = mdioDrv /\ descFlag' = descFlag
  BY DEF ax_remove_mdio, Step
<1>2. /\ me \in CardRec /\ HeldShape(me) /\ Active(me, "del_mdio", rv)
      /\ ValueShape("del_mdio", rv) /\ rv \in {0, 1}
  BY <1>1, Here
<1>3. d' = [d EXCEPT ![cur] = r]
  BY <1>1, Here DEF ax_remove_mdio, Step, me
<1>4. r \in CardRec
  BY <1>1, <1>2 DEF CardRec, RemoveSwitch, Active, Removing, RemovingShape
<1>5. HeldShape(r) /\ Active(r, "del_netdev", rv) /\ ValueShape("del_netdev", rv)
  BY <1>1, <1>2 DEF Active, HeldShape, ValueShape, ErrPath, Removing,
    RemovingShape, RemoveSwitch, CardRec
<1>6. /\ r.mdio => me.mdio
      /\ r.net = "registered" => me.net = "registered" /\ r.transfer = me.transfer
      /\ me.net = "registered" => r.net = "registered"
  BY <1>1, <1>2 DEF Active, HeldShape, ValueShape, ErrPath, Removing,
    RemovingShape, RemoveSwitch, CardRec
<1> QED
  BY <1>1, <1>2, <1>3, <1>4, <1>5, <1>6, Here, LocalStep DEF Steps, PastBus, PastNet,
     PastPriv, ErrPath, Removing

(* Remove: the interface, once nobody holds it. *)
LEMMA UnregisterInv ==
  ASSUME LifeInv, UnregisterNetdev
  PROVE  LifeInv'
<1> DEFINE r == [me EXCEPT !.net = "alloc", !.up = FALSE]
<1>1. /\ step = "del_netdev" /\ step' = "free_netdev" /\ crash' = "none" /\ cur' = cur
      /\ rv' = rv /\ mdioDrv' = mdioDrv /\ descFlag' = descFlag
  BY DEF UnregisterNetdev, Step
<1>2. /\ me \in CardRec /\ HeldShape(me) /\ Active(me, "del_netdev", rv)
      /\ ValueShape("del_netdev", rv) /\ rv \in {0, 1}
  BY <1>1, Here
<1>3. d' = [d EXCEPT ![cur] = r]
  BY <1>1, Here DEF UnregisterNetdev, Step, me
<1>4. r \in CardRec
  BY <1>1, <1>2 DEF CardRec
<1>5. HeldShape(r) /\ Active(r, "free_netdev", rv) /\ ValueShape("free_netdev", rv)
  BY <1>1, <1>2 DEF UnregisterNetdev, Active, HeldShape, ValueShape, ErrPath,
    Removing, RemovingShape, me, CardRec
<1>6. /\ r.mdio => me.mdio
      /\ r.net = "registered" => me.net = "registered" /\ r.transfer = me.transfer
  BY <1>1, <1>2 DEF Active, HeldShape, ValueShape, ErrPath, Removing,
    RemovingShape, me, CardRec
<1> QED
  BY <1>1, <1>2, <1>3, <1>4, <1>5, <1>6, Here, LocalStep DEF Steps, PastBus, PastNet,
     PastPriv, ErrPath, Removing

(* Remove: the memory of the interface. *)
LEMMA FreeNetdevInv ==
  ASSUME LifeInv, FreeNetdev
  PROVE  LifeInv'
<1> DEFINE r == [me EXCEPT !.net = "freed", !.priv = FALSE]
<1>1. /\ step = "free_netdev" /\ step' = "xpdev_free" /\ crash' = "none" /\ cur' = cur
      /\ rv' = rv /\ mdioDrv' = mdioDrv /\ descFlag' = descFlag
  BY DEF FreeNetdev, Step
<1>2. /\ me \in CardRec /\ HeldShape(me) /\ Active(me, "free_netdev", rv)
      /\ ValueShape("free_netdev", rv) /\ rv \in {0, 1}
  BY <1>1, Here
<1>3. d' = [d EXCEPT ![cur] = r]
  BY <1>1, Here DEF FreeNetdev, Step, me
<1>4. r \in CardRec
  BY <1>1, <1>2 DEF CardRec
<1>5. HeldShape(r) /\ Active(r, "xpdev_free", rv) /\ ValueShape("xpdev_free", rv)
  BY <1>1, <1>2 DEF Active, HeldShape, ValueShape, ErrPath, Removing,
    RemovingShape, CardRec
<1>6. /\ r.mdio => me.mdio
      /\ r.net = "registered" => me.net = "registered" /\ r.transfer = me.transfer
  BY <1>1, <1>2 DEF Active, HeldShape, ValueShape, ErrPath, Removing,
    RemovingShape, CardRec
<1> QED
  BY <1>1, <1>2, <1>3, <1>4, <1>5, <1>6, Here, LocalStep DEF Steps, PastBus, PastNet,
     PastPriv, ErrPath, Removing

(* Remove: the device is closed last. *)
LEMMA XpdevFreeInv ==
  ASSUME LifeInv, xpdev_free
  PROVE  LifeInv'
<1> DEFINE r == [me EXCEPT !.xdev = FALSE, !.user = {}, !.handlers = FALSE,
                         !.transfer = FALSE, !.drvdata = "null",
                         !.bound = FALSE]
<1>1. /\ step = "xpdev_free" /\ step' = "idle" /\ crash' = "none" /\ cur' = cur
      /\ rv' = rv /\ mdioDrv' = mdioDrv /\ descFlag' = descFlag
  BY DEF xpdev_free, Step
<1>2. /\ me \in CardRec /\ HeldShape(me) /\ Active(me, "xpdev_free", rv)
      /\ ValueShape("xpdev_free", rv) /\ rv \in {0, 1}
  BY <1>1, Here
<1>3. d' = [d EXCEPT ![cur] = r]
  BY <1>1, Here DEF xpdev_free, Step, me
<1>4. r \in CardRec
  BY <1>1, <1>2 DEF CardRec
<1>5. HeldShape(r) /\ Resting(r) /\ ValueShape("idle", rv)
  BY <1>1, <1>2 DEF Active, HeldShape, ValueShape, ErrPath, Removing,
    RemovingShape, Resting, Clean, Dead, Bare, Whole, CardRec
<1>6. /\ r.mdio => me.mdio
      /\ r.net = "registered" => me.net = "registered" /\ r.transfer = me.transfer
      /\ me.net = "registered" => r.net = "registered"
  BY <1>1, <1>2 DEF Active, HeldShape, ValueShape, ErrPath, Removing,
    RemovingShape, Resting, Clean, Dead, Bare, Whole, CardRec
<1> QED
  BY <1>1, <1>2, <1>3, <1>4, <1>5, <1>6, Here, LocalStep DEF Steps, PastBus, PastNet,
     PastPriv, ErrPath, Removing

(* The bus is registered, unless another card has it. *)
LEMMA InitMdioInv ==
  ASSUME LifeInv, ax_init_mdio
  PROVE  LifeInv'
<1>1. /\ step = "mdio" /\ step' = "mdiodev" /\ crash' = "none" /\ cur' = cur
      /\ rv' = rv /\ mdioDrv' = mdioDrv /\ descFlag' = descFlag
  BY DEF ax_init_mdio, Step
<1>2. /\ me \in CardRec /\ HeldShape(me) /\ Active(me, "mdio", rv)
      /\ ValueShape("mdio", rv) /\ rv \in {0, 1}
  BY <1>1, Here
<1>3. ValueShape("mdiodev", rv)
  BY <1>2 DEF ValueShape, ErrPath, Removing
<1>4. CASE d' = d
  <2>1. d' = [d EXCEPT ![cur] = me]
    BY <1>1, <1>4, Here DEF me
  <2>2. Active(me, "mdiodev", rv)
    BY <1>2 DEF Active, HeldShape, ErrPath, Removing, Probing, PastBus, PastNet,
      PastPriv
  <2> QED
    BY <1>1, <1>2, <1>3, <2>1, <2>2, Here, LocalStep DEF Steps, PastBus, PastNet,
       PastPriv, ErrPath, Removing
<1>5. CASE d' # d
  <2> DEFINE r == [me EXCEPT !.mdio = TRUE]
  <2>1. d' = [d EXCEPT ![cur] = r] /\ \A o \in others : ~o.mdio
    BY <1>1, <1>5, Here DEF ax_init_mdio, me
  <2>2. \A c \in Cards : c # cur => ~d[c].mdio
    BY <2>1 DEF others
  <2>3. r \in CardRec
    BY <1>2 DEF CardRec
  <2>4. HeldShape(r) /\ Active(r, "mdiodev", rv)
    BY <1>2 DEF Active, HeldShape, ErrPath, Removing, Probing, PastBus, PastNet,
      PastPriv, CardRec
  <2>5. /\ r.net = "registered" => me.net = "registered" /\ r.transfer = me.transfer
        /\ me.net = "registered" => r.net = "registered"
    BY <1>2 DEF CardRec
  <2> QED
    BY <1>1, <1>2, <1>3, <2>1, <2>2, <2>3, <2>4, <2>5, Here, LocalStep DEF Steps,
       PastBus, PastNet, PastPriv, ErrPath, Removing
<1> QED
  BY <1>4, <1>5

(* What a probe of the switch device leaves of a registered card. *)
LEMMA ProbedSwitch ==
  ASSUME NEW s \in CardRec, HeldShape(s), s.mdio, ~s.dsa, s.held <= 1,
         NEW ok \in BOOLEAN
  PROVE  LET r == ProbeSwitch(s, ok)
         IN  /\ r \in CardRec /\ HeldShape(r)
             /\ \A f \in {"bound", "xdev", "user", "handlers", "drvdata", "net", "priv",
                          "up", "transfer", "napi", "mdio", "ptp", "timer", "proc"} :
                  r[f] = s[f]
             /\ r.held <= s.held + 1
<1>1. CASE s.net = "registered"
  <2> DEFINE l == s.leaked \/ ~ok
             h == s.held + 1
             r == [s EXCEPT !.mdiodev = TRUE, !.dsa = ok, !.held = h, !.leaked = l]
  <2>1. ProbeSwitch(s, ok) = r
    BY <1>1 DEF ProbeSwitch
  <2>2. h \in 0 .. 2 /\ l \in BOOLEAN
    BY DEF CardRec
  <2>3. r \in CardRec
    <3> HIDE DEF l, h
    <3> QED
      BY <2>2 DEF CardRec
  <2>4. /\ r.mdiodev /\ r.dsa = ok /\ r.held = h /\ r.mdio = s.mdio
        /\ r.leaked = l
    BY DEF CardRec
  <2>5. HeldShape(r)
    BY <2>4 DEF HeldShape, CardRec
  <2>6. \A f \in {"bound", "xdev", "user", "handlers", "drvdata", "net", "priv",
                  "up", "transfer", "napi", "mdio", "ptp", "timer", "proc"} :
           r[f] = s[f]
    BY DEF CardRec
  <2> QED
    BY <2>1, <2>3, <2>4, <2>5, <2>6 DEF CardRec
<1>2. CASE s.net # "registered"
  <2> DEFINE r == [s EXCEPT !.mdiodev = TRUE]
  <2>1. ProbeSwitch(s, ok) = r
    BY <1>2 DEF ProbeSwitch
  <2>2. r \in CardRec
    BY DEF CardRec
  <2>3. HeldShape(r) /\ r.held = s.held
    BY DEF HeldShape, CardRec
  <2>4. \A f \in {"bound", "xdev", "user", "handlers", "drvdata", "net", "priv",
                  "up", "transfer", "napi", "mdio", "ptp", "timer", "proc"} :
           r[f] = s[f]
    BY DEF CardRec
  <2> QED
    BY <2>1, <2>2, <2>3, <2>4 DEF CardRec
<1> QED
  BY <1>1, <1>2

(* The switch device, and with the driver there the switch itself. *)
LEMMA CreateMdioDevInv ==
  ASSUME LifeInv, ax_create_mdio_dev
  PROVE  LifeInv'
<1>1. CASE step' # "ptp"
  <2>1. NoBugOn' /\ UNCHANGED <<step, cur, rv, d, descFlag, mdioDrv>>
    BY <1>1 DEF ax_create_mdio_dev, Oops, Step, NoBugOn
  <2> QED
    BY <2>1, OopsStep
<1>2. CASE step' = "ptp"
  <2>1. /\ step = "mdiodev" /\ step' = "ptp" /\ crash' = "none" /\ cur' = cur
        /\ rv' = rv /\ mdioDrv' = mdioDrv /\ descFlag' = descFlag /\ me.mdio
    BY <1>2 DEF ax_create_mdio_dev, Step, Oops
  <2>2. /\ me \in CardRec /\ HeldShape(me) /\ Active(me, "mdiodev", rv)
        /\ ValueShape("mdiodev", rv) /\ rv \in {0, 1}
    BY <2>1, Here
  <2>3. /\ Probing(me, "mdiodev") /\ ~me.dsa /\ me.held = 0
    BY <2>2 DEF Active, HeldShape, Removing, Probing
  <2>4. PICK r \in {me, [me EXCEPT !.mdiodev = TRUE], ProbeSwitch(me, TRUE),
                    ProbeSwitch(me, FALSE)} : d' = [d EXCEPT ![cur] = r]
    BY <1>2, <2>1, Here DEF ax_create_mdio_dev, Oops, me
  <2>5. /\ r \in CardRec /\ HeldShape(r) /\ r.held <= 1
        /\ \A f \in {"bound", "xdev", "user", "handlers", "drvdata", "net", "priv",
                     "up", "transfer", "napi", "mdio", "ptp", "timer", "proc"} :
             r[f] = me[f]
    <3>1. CASE r = me
      BY <2>2, <2>3, <3>1
    <3>2. CASE r = [me EXCEPT !.mdiodev = TRUE]
      <4>1. r \in CardRec
        BY <2>2, <3>2 DEF CardRec
      <4>2. HeldShape(r) /\ r.held = 0
        BY <2>1, <2>2, <2>3, <3>2 DEF HeldShape, CardRec
      <4> QED
        BY <2>2, <3>2, <4>1, <4>2 DEF CardRec
    <3>3. CASE \E ok \in BOOLEAN : r = ProbeSwitch(me, ok)
      BY <2>1, <2>2, <2>3, <3>3, ProbedSwitch DEF CardRec
    <3> QED
      BY <2>4, <3>1, <3>2, <3>3
  <2>6. /\ r.bound = me.bound /\ r.xdev = me.xdev /\ r.net = me.net /\ r.priv = me.priv
        /\ r.drvdata = me.drvdata /\ r.napi = me.napi /\ r.mdio = me.mdio
        /\ r.ptp = me.ptp /\ r.handlers = me.handlers /\ r.timer = me.timer
        /\ r.proc = me.proc /\ r.transfer = me.transfer
    BY <2>5
  <2>7. Active(r, "ptp", rv) /\ ValueShape("ptp", rv)
    BY <2>1, <2>2, <2>3, <2>5, <2>6 DEF Active, ValueShape, ErrPath, Removing, Probing,
      PastBus, PastNet, PastPriv
  <2>8. \A c \in Cards : c # cur => d[c].net # "registered"
    BY <2>1, Here, BusAlone
  <2> QED
    BY <2>1, <2>2, <2>4, <2>5, <2>6, <2>7, <2>8, Here, LocalStep DEF Steps, PastBus,
       PastNet, PastPriv, ErrPath, Removing
<1> QED
  BY <1>1, <1>2

(* The clocks; the kernel stops where there is none. *)
LEMMA PtpInitInv ==
  ASSUME LifeInv, ax_ptp_init
  PROVE  LifeInv'
<1>1. CASE step' # "isr"
  <2>1. NoBugOn' /\ UNCHANGED <<step, cur, rv, d, descFlag, mdioDrv>>
    BY <1>1 DEF ax_ptp_init, Oops, Step, NoBugOn
  <2> QED
    BY <2>1, OopsStep
<1>2. CASE step' = "isr"
  <2> DEFINE r == [me EXCEPT !.ptp = TRUE]
  <2>1. /\ step = "ptp" /\ step' = "isr" /\ crash' = "none" /\ cur' = cur
        /\ rv' = rv /\ mdioDrv' = mdioDrv /\ descFlag' = descFlag
    BY <1>2 DEF ax_ptp_init, Step, Oops
  <2>2. /\ me \in CardRec /\ HeldShape(me) /\ Active(me, "ptp", rv)
        /\ ValueShape("ptp", rv) /\ rv \in {0, 1}
    BY <2>1, Here
  <2>3. d' = [d EXCEPT ![cur] = r]
    BY <1>2, <2>1, Here DEF ax_ptp_init, Oops, me
  <2>4. r \in CardRec
    BY <2>2 DEF CardRec
  <2>5. HeldShape(r) /\ Active(r, "isr", rv) /\ ValueShape("isr", rv)
    BY <2>2 DEF Active, HeldShape, ValueShape, ErrPath, Removing, Probing,
      PastBus, PastNet, PastPriv, CardRec
  <2>6. /\ r.mdio => me.mdio
        /\ r.net = "registered" => me.net = "registered" /\ r.transfer = me.transfer
        /\ me.net = "registered" => r.net = "registered"
    BY <2>2 DEF CardRec
  <2> QED
    BY <2>1, <2>2, <2>3, <2>4, <2>5, <2>6, Here, LocalStep DEF Steps, PastBus, PastNet,
       PastPriv, ErrPath, Removing
<1> QED
  BY <1>1, <1>2

(* The DSA driver: the one card with a bus is the only one it can find. *)
LEMMA DriverRegisterInv ==
  ASSUME LifeInv, MdioDriverRegister
  PROVE  LifeInv'
<1>1. /\ step = "driver" /\ step' = "proc" /\ crash' = "none" /\ cur' = cur
      /\ rv' = rv /\ mdioDrv' = TRUE /\ descFlag' = descFlag
  BY DEF MdioDriverRegister, Step
<1>2. /\ me \in CardRec /\ HeldShape(me) /\ Active(me, "driver", rv)
      /\ ValueShape("driver", rv) /\ rv \in {0, 1}
  BY <1>1, Here
<1>3. Probing(me, "driver") /\ me.mdio /\ me.held <= 1
  BY <1>2 DEF Active, Removing, Probing, PastBus, PastNet
<1>4. PICK ok \in [Cards -> BOOLEAN] :
        d' = [c \in Cards |-> IF d[c].mdiodev /\ ~d[c].dsa
                              THEN ProbeSwitch(d[c], ok[c]) ELSE d[c]]
  BY DEF MdioDriverRegister
<1>5. /\ d \in [Cards -> CardRec] /\ cur \in Cards
      /\ \A c \in Cards : c # cur => ~d[c].mdiodev /\ d[c].net # "registered"
  BY <1>1, <1>3, Here, BusAlone
<1> DEFINE r == IF me.mdiodev /\ ~me.dsa THEN ProbeSwitch(me, ok[cur]) ELSE me
<1>6. d' = [d EXCEPT ![cur] = r]
  BY <1>4, <1>5 DEF me
<1>7. /\ r \in CardRec /\ HeldShape(r)
      /\ \A f \in {"bound", "xdev", "user", "handlers", "drvdata", "net", "priv",
                   "up", "transfer", "napi", "mdio", "ptp", "timer", "proc"} :
           r[f] = me[f]
  <2>1. ok[cur] \in BOOLEAN
    BY <1>5
  <2>2. CASE me.mdiodev /\ ~me.dsa
    BY <1>2, <1>3, <2>1, <2>2, ProbedSwitch
  <2>3. CASE ~(me.mdiodev /\ ~me.dsa)
    BY <1>2, <2>3
  <2> QED
    BY <2>2, <2>3
<1> HIDE DEF r
<1>8. /\ r.bound = me.bound /\ r.xdev = me.xdev /\ r.net = me.net /\ r.priv = me.priv
      /\ r.drvdata = me.drvdata /\ r.napi = me.napi /\ r.mdio = me.mdio
      /\ r.ptp = me.ptp /\ r.handlers = me.handlers /\ r.timer = me.timer
      /\ r.proc = me.proc /\ r.transfer = me.transfer
  BY <1>7
<1>9. Active(r, "proc", rv) /\ ValueShape("proc", rv)
  BY <1>2, <1>3, <1>8 DEF Active, ValueShape, ErrPath, Removing, Probing,
    PastBus, PastNet, PastPriv
<1> QED
  BY <1>1, <1>2, <1>6, <1>7, <1>8, <1>9, Here, LocalStep DEF Steps, PastBus, PastNet,
     PastPriv, ErrPath, Removing

(* The driver goes: so does the switch of the one card that has a bus. *)
LEMMA DriverUnregisterInv ==
  ASSUME LifeInv, MdioDriverUnregister
  PROVE  LifeInv'
<1>1. /\ step = "del_driver" /\ step' = "del_mdio" /\ crash' = "none" /\ cur' = cur
      /\ rv' = rv /\ mdioDrv' = FALSE /\ descFlag' = descFlag
  BY DEF MdioDriverUnregister, Step
<1>2. /\ me \in CardRec /\ HeldShape(me) /\ Active(me, "del_driver", rv)
      /\ ValueShape("del_driver", rv) /\ rv \in {0, 1}
  BY <1>1, Here
<1>3. RemovingShape(me, "del_driver") /\ me.mdio
  BY <1>2 DEF Active, Removing, RemovingShape
<1>4. /\ d \in [Cards -> CardRec] /\ cur \in Cards
      /\ \A c \in Cards : c # cur => ~d[c].dsa
  BY <1>1, <1>3, Here, BusAlone
<1> DEFINE r == IF me.dsa THEN [me EXCEPT !.dsa = FALSE, !.held = me.held - 1] ELSE me
<1>5. d' = [d EXCEPT ![cur] = r]
  BY <1>4 DEF MdioDriverUnregister, RemoveSwitch, me
<1>6. CASE me.dsa
  <2>1. me.held - 1 \in 0 .. 2
    BY <1>2, <1>6 DEF HeldShape, CardRec
  <2>2. r \in CardRec
    BY <1>2, <1>6, <2>1 DEF CardRec
  <2>3. HeldShape(r)
    BY <1>2, <1>6 DEF HeldShape, CardRec
  <2>4. Active(r, "del_mdio", rv) /\ ValueShape("del_mdio", rv)
    BY <1>2, <1>3, <1>6 DEF Active, ValueShape, ErrPath, Removing, RemovingShape, CardRec
  <2>5. /\ r.mdio => me.mdio
        /\ r.net = "registered" => me.net = "registered" /\ r.transfer = me.transfer
        /\ me.net = "registered" => r.net = "registered"
    BY <1>2, <1>6 DEF CardRec
  <2> QED
    BY <1>1, <1>2, <1>5, <2>2, <2>3, <2>4, <2>5, Here, LocalStep DEF Steps, PastBus,
       PastNet, PastPriv, ErrPath, Removing
<1>7. CASE ~me.dsa
  <2>1. r = me
    BY <1>7
  <2>2. Active(me, "del_mdio", rv) /\ ValueShape("del_mdio", rv)
    BY <1>2, <1>3, <1>7 DEF Active, ValueShape, ErrPath, Removing, RemovingShape
  <2> QED
    BY <1>1, <1>2, <1>5, <2>1, <2>2, Here, LocalStep DEF Steps, PastBus,
       PastNet, PastPriv, ErrPath, Removing
<1> QED
  BY <1>6, <1>7

(* The end of the error path: free_netdev, unless the kernel stops there. *)
LEMMA ErrFreeInv ==
  ASSUME LifeInv, ErrFree
  PROVE  LifeInv'
<1>1. CASE step' # "return"
  <2>1. NoBugOn' /\ UNCHANGED <<step, cur, rv, d, descFlag, mdioDrv>>
    BY <1>1 DEF ErrFree, Oops, Step, NoBugOn
  <2> QED
    BY <2>1, OopsStep
<1>2. CASE step' = "return"
  <2> DEFINE n == IF me.priv THEN "freed" ELSE me.net
             r == [me EXCEPT !.net = n]
  <2>1. /\ step = "err_free" /\ step' = "return" /\ crash' = "none" /\ cur' = cur
        /\ rv' = rv /\ mdioDrv' = mdioDrv /\ descFlag' = descFlag /\ me.net = "alloc"
    BY <1>2 DEF ErrFree, Step, Oops
  <2>2. /\ me \in CardRec /\ HeldShape(me) /\ Active(me, "err_free", rv)
        /\ rv \in {0, 1}
    BY <2>1, Here
  <2>3. d' = [d EXCEPT ![cur] = r]
    BY <1>2, <2>1, Here DEF ErrFree, Oops, me
  <2>4. r \in CardRec
    BY <2>2 DEF CardRec
  <2>5. HeldShape(r) /\ Active(r, "return", rv) /\ ValueShape("return", rv)
    BY <2>1, <2>2 DEF Active, HeldShape, ValueShape, ErrPath, Removing, Probing,
      PastBus, PastNet, PastPriv, FailingShape, ReturnShape, Dead, Bare, CardRec
  <2>6. /\ r.mdio => me.mdio
        /\ r.net # "registered"
    BY <2>1, <2>2 DEF CardRec
  <2> QED
    BY <2>1, <2>2, <2>3, <2>4, <2>5, <2>6, Here, LocalStep DEF Steps, PastBus, PastNet,
       PastPriv, ErrPath, Removing
<1> QED
  BY <1>1, <1>2

(* A card that rests and is not bound is clean. *)
LEMMA RestingCards ==
  ASSUME LifeInv, step = "idle"
  PROVE  /\ d \in [Cards -> CardRec] /\ rv \in {0, 1} /\ mdioDrv \in BOOLEAN
         /\ descFlag \in {0, 1} /\ OneBus /\ FlagShape
         /\ \A c \in Cards : HeldShape(d[c]) /\ Resting(d[c])
BY DEF LifeInv, LifeTypeOK, CardRec, CardsShape

(* A probe begins: of what the card has left only its open device counts. *)
LEMMA ProbeBeginInv ==
  ASSUME LifeInv, NEW k \in Cards, ProbeBegin(k)
  PROVE  LifeInv'
<1> DEFINE r == [Absent EXCEPT !.xdev = d[k].xdev]
<1>1. /\ step = "idle" /\ crash' = "none" /\ step' = "pcidev" /\ cur' = k /\ rv' = 0
      /\ d' = [d EXCEPT ![k] = r] /\ descFlag' = descFlag /\ mdioDrv' = mdioDrv
      /\ ~d[k].bound
  BY DEF ProbeBegin
<1>2. /\ d \in [Cards -> CardRec] /\ mdioDrv \in BOOLEAN
      /\ descFlag \in {0, 1} /\ OneBus /\ FlagShape
      /\ \A c \in Cards : HeldShape(d[c]) /\ Resting(d[c])
  BY <1>1, RestingCards
<1>3. d[k].xdev \in BOOLEAN
  BY <1>2 DEF CardRec
<1>4. /\ r \in CardRec /\ Clean(r) /\ r.net = "none" /\ HeldShape(r)
  BY <1>3, AbsentClean
<1>5. Clean(d[k])
  BY <1>1, <1>2 DEF Resting
<1> HIDE DEF r
<1>6. d'[k] = r /\ \A c \in Cards : c # k => d'[c] = d[c]
  BY <1>1, <1>2
<1>7. ~r.mdio /\ ~r.bound /\ d[k].net # "registered"
  BY <1>4, <1>5 DEF Clean, Bare
<1>8. LifeTypeOK' /\ step' \in Steps /\ ValueShape(step, rv)'
  <2>1. d' \in [Cards -> CardRec]
    BY <1>1, <1>2, <1>4
  <2> QED
    BY <1>1, <1>2, <2>1 DEF LifeTypeOK, CardRec, Steps, ValueShape
<1>9. CardsShape'
  <2>1. Active(r, "pcidev", 0)
    BY <1>4, <1>7 DEF Active, Probing, ErrPath, Removing, PastBus, PastNet, PastPriv
  <2> QED
    BY <1>1, <1>2, <1>4, <1>6, <2>1 DEF CardsShape
<1>10. OneBus'
  BY <1>2, <1>6, <1>7 DEF OneBus
<1>11. Alone'
  BY <1>1 DEF Alone, PastBus, Removing
<1>12. FlagShape'
  <2> SUFFICES ASSUME NEW c \in Cards, d'[c].net = "registered", descFlag = 1,
                      ~d'[c].transfer
               PROVE  \E o \in Cards : o # c /\ d'[o].net = "registered"
    BY <1>1 DEF FlagShape
  <2>1. c # k /\ d[c].net = "registered" /\ ~d[c].transfer
    BY <1>4, <1>6
  <2>2. PICK o \in Cards : o # c /\ d[o].net = "registered"
    BY <1>2, <2>1 DEF FlagShape
  <2> QED
    BY <1>6, <1>7, <2>2
<1>13. NoBugOn'
  BY <1>1 DEF NoBugOn
<1> QED
  BY <1>8, <1>9, <1>10, <1>11, <1>12, <1>13 DEF LifeInv

(* A removal begins: of a whole card, or of one that is dead, which stops   *)
(* the kernel.                                                              *)
LEMMA RemoveBeginInv ==
  ASSUME LifeInv, NEW k \in Cards, RemoveBegin(k)
  PROVE  LifeInv'
<1>1. /\ step = "idle" /\ crash = "none" /\ cur' = k /\ rv' = rv /\ d' = d
      /\ descFlag' = descFlag /\ mdioDrv' = mdioDrv /\ d[k].bound
  BY DEF RemoveBegin
<1>2. /\ d \in [Cards -> CardRec] /\ rv \in {0, 1} /\ mdioDrv \in BOOLEAN
      /\ descFlag \in {0, 1} /\ OneBus /\ FlagShape
      /\ \A c \in Cards : HeldShape(d[c]) /\ Resting(d[c])
  BY <1>1, RestingCards
<1>3. LifeTypeOK' /\ OneBus'
  BY <1>1, <1>2 DEF LifeTypeOK, CardRec, OneBus
<1>4. FlagShape'
  <2> SUFFICES ASSUME NEW c \in Cards, d[c].net = "registered", descFlag = 1,
                      ~d[c].transfer
               PROVE  \E o \in Cards : o # c /\ d[o].net = "registered"
    BY <1>1 DEF FlagShape, RemoveBegin
  <2> QED
    BY <1>2 DEF FlagShape
<1>5. NoBugOn'
  BY DEF RemoveBegin, NoBugOn
<1>6. CASE step' = step
  <2>1. CardsShape' /\ Alone' /\ step' \in Steps /\ ValueShape(step, rv)'
    BY <1>1, <1>2, <1>6 DEF CardsShape, Alone, PastBus, Removing, Steps, ValueShape
  <2> QED
    BY <1>3, <1>4, <1>5, <2>1 DEF LifeInv
<1>7. CASE step' = "del_timer"
  <2>1. d[k].drvdata = "live"
    BY <1>1, <1>7 DEF RemoveBegin
  <2>2. Whole(d[k])
    BY <1>1, <1>2, <2>1 DEF Resting, Clean, Dead
  <2>3. \A c \in Cards : c # k => d[c].net # "registered"
    <3> SUFFICES ASSUME NEW c \in Cards, c # k PROVE d[c].net # "registered"
      OBVIOUS
    <3>1. ~d[c].mdio
      BY <1>2, <2>2 DEF OneBus, Whole
    <3> QED
      BY <1>2, <3>1 DEF Resting, Whole, Clean, Dead
  <2>4. Active(d[k], "del_timer", rv)
    BY <1>1, <2>2 DEF Active, ErrPath, Removing, RemovingShape, Whole
  <2>5. CardsShape'
    BY <1>1, <1>2, <1>7, <2>4 DEF CardsShape
  <2>6. Alone' /\ step' \in Steps /\ ValueShape(step, rv)'
    BY <1>1, <1>7, <2>3 DEF Alone, Steps, ValueShape, Removing
  <2> QED
    BY <1>3, <1>4, <1>5, <2>5, <2>6 DEF LifeInv
<1> QED
  BY <1>6, <1>7 DEF RemoveBegin

(* Opening and closing an interface leave the rest of the card alone. *)
SameButUp(r, s) ==
  /\ r.bound = s.bound /\ r.xdev = s.xdev /\ r.user = s.user
  /\ r.handlers = s.handlers /\ r.drvdata = s.drvdata /\ r.net = s.net
  /\ r.priv = s.priv /\ r.napi = s.napi /\ r.mdio = s.mdio
  /\ r.mdiodev = s.mdiodev /\ r.dsa = s.dsa /\ r.held = s.held
  /\ r.leaked = s.leaked /\ r.ptp = s.ptp /\ r.timer = s.timer /\ r.proc = s.proc

(* The shape of a registered card does not depend on whether it is up. *)
LEMMA UserShape ==
  ASSUME NEW s \in CardRec, NEW r \in CardRec, SameButUp(r, s),
         s.net = "registered", HeldShape(s), NEW p \in Steps, NEW v \in {0, 1}
  PROVE  /\ HeldShape(r)
         /\ Active(s, p, v) => Active(r, p, v)
         /\ Resting(s) => Resting(r)
<1>1. /\ r.bound = s.bound /\ r.xdev = s.xdev /\ r.user = s.user
      /\ r.handlers = s.handlers /\ r.drvdata = s.drvdata /\ r.net = s.net
      /\ r.priv = s.priv /\ r.napi = s.napi /\ r.mdio = s.mdio
      /\ r.mdiodev = s.mdiodev /\ r.dsa = s.dsa /\ r.held = s.held
      /\ r.leaked = s.leaked /\ r.ptp = s.ptp /\ r.timer = s.timer /\ r.proc = s.proc
  BY DEF SameButUp
<1>2. HeldShape(r)
  BY <1>1 DEF HeldShape
<1>3. ASSUME Resting(s) PROVE Resting(r)
  BY <1>1, <1>3 DEF Resting, Clean, Dead, Whole
<1>4. ASSUME Active(s, p, v) PROVE Active(r, p, v)
  <2>1. p \notin Removing => Probing(r, p)
    BY <1>1, <1>4 DEF Active, Probing, Removing, ErrPath, PastBus, PastNet, PastPriv,
      Clean, Steps, ReturnShape, Whole, Dead
  <2>2. p \in ErrPath => FailingShape(r, p, v)
    BY <1>1, <1>4 DEF Active, FailingShape, ErrPath
  <2>3. p = "return" => ReturnShape(r, v)
    BY <1>1, <1>4 DEF Active, ReturnShape, Whole, Dead, Clean
  <2>4. p \in Removing => RemovingShape(r, p)
    BY <1>1, <1>4 DEF Active, RemovingShape, Whole, Removing
  <2> QED
    BY <2>1, <2>2, <2>3, <2>4 DEF Active
<1> QED
  BY <1>2, <1>3, <1>4

(* An interface that is up is registered. *)
LEMMA UpRegistered ==
  ASSUME LifeInv, NEW k \in Cards, d[k].up
  PROVE  d[k].net = "registered"
<1>1. CASE k = cur /\ step # "idle"
  <2>1. Active(d[k], step, rv) /\ step \in Steps
    BY <1>1 DEF LifeInv, CardsShape
  <2>2. CASE step \in Removing
    BY <2>1, <2>2 DEF Active, RemovingShape, Removing
  <2>3. CASE step \in ErrPath
    BY <2>1, <2>3 DEF Active, FailingShape, Bare
  <2>4. CASE step = "return"
    BY <2>1, <2>4 DEF Active, ReturnShape, Whole, Dead, Clean, Bare
  <2>5. CASE step \notin Removing \cup ErrPath \cup {"return"}
    BY <1>1, <2>1, <2>5 DEF Active, Probing, Clean, Bare, Steps, PastPriv, PastNet,
      PastBus
  <2> QED
    BY <2>2, <2>3, <2>4, <2>5
<1>2. CASE ~(k = cur /\ step # "idle")
  <2>1. Resting(d[k])
    BY <1>2 DEF LifeInv, CardsShape
  <2> QED
    BY <2>1 DEF Resting, Clean, Dead, Bare, Whole
<1> QED
  BY <1>1, <1>2

(* The interface of a registered card goes up or down. *)
LEMMA UserChange ==
  ASSUME LifeInv, NEW k \in Cards, d[k].net = "registered", crash' = "none",
         UNCHANGED <<step, cur, rv, mdioDrv>>,
         NEW r \in CardRec, SameButUp(r, d[k]), d' = [d EXCEPT ![k] = r],
         \/ descFlag' = 1 /\ r.transfer
         \/ descFlag' = descFlag /\ r.transfer = d[k].transfer
  PROVE  LifeInv'
<1>1. /\ d \in [Cards -> CardRec] /\ cur \in Cards /\ descFlag \in {0, 1} /\ rv \in {0, 1}
      /\ mdioDrv \in BOOLEAN /\ step \in Steps /\ ValueShape(step, rv)
      /\ CardsShape /\ OneBus /\ Alone /\ FlagShape
  BY DEF LifeInv, LifeTypeOK, CardRec
<1>2. /\ r.net = "registered" /\ r.mdio = d[k].mdio /\ HeldShape(r)
      /\ IF k = cur /\ step # "idle" THEN Active(r, step, rv) ELSE Resting(r)
  <2>1. /\ d[k] \in CardRec /\ HeldShape(d[k])
        /\ IF k = cur /\ step # "idle" THEN Active(d[k], step, rv) ELSE Resting(d[k])
    BY <1>1 DEF CardsShape
  <2>2. /\ HeldShape(r)
        /\ Active(d[k], step, rv) => Active(r, step, rv)
        /\ Resting(d[k]) => Resting(r)
    BY <1>1, <2>1, UserShape
  <2> QED
    BY <2>1, <2>2 DEF SameButUp
<1>3. d'[k] = r /\ \A c \in Cards : c # k => d'[c] = d[c]
  BY <1>1
<1>4. LifeTypeOK' /\ step' \in Steps /\ ValueShape(step, rv)'
  <2>1. d' \in [Cards -> CardRec]
    BY <1>1, <1>2
  <2> QED
    BY <1>1, <2>1 DEF LifeTypeOK, CardRec
<1>5. CardsShape'
  BY <1>1, <1>2, <1>3 DEF CardsShape
<1>6. OneBus' /\ Alone'
  BY <1>1, <1>2, <1>3 DEF OneBus, Alone
<1>7. FlagShape'
  <2> SUFFICES ASSUME NEW c \in Cards,
                      d'[c].net = "registered"
                        \/ (c = cur /\ step \in {"switch", "mac", "netdev"}),
                      descFlag' = 1, ~d'[c].transfer
               PROVE  \E o \in Cards : o # c /\ d'[o].net = "registered"
    BY DEF FlagShape
  <2>1. CASE c # k
    BY <1>2, <1>3, <2>1
  <2>2. CASE c = k
    <3>1. descFlag = 1 /\ ~d[c].transfer
      BY <1>2, <1>3, <2>2
    <3>2. PICK o \in Cards : o # c /\ d[o].net = "registered"
      BY <1>1, <2>2, <3>1 DEF FlagShape
    <3> QED
      BY <1>3, <2>2, <3>2
  <2> QED
    BY <2>1, <2>2
<1>8. NoBugOn'
  BY DEF NoBugOn
<1> QED
  BY <1>4, <1>5, <1>6, <1>7, <1>8 DEF LifeInv

(* ax_net_open: BUG_ON(!transfer) is met only by a card that is not alone. *)
LEMMA NetOpenInv ==
  ASSUME LifeInv, NEW k \in Cards, ax_net_open(k)
  PROVE  LifeInv'
<1>1. d[k].net = "registered" /\ crash = "none" /\ UNCHANGED <<step, cur, rv, mdioDrv>>
  BY DEF ax_net_open, CanOpen
<1>2. d \in [Cards -> CardRec] /\ d[k] \in CardRec /\ descFlag \in {0, 1} /\ FlagShape
  BY DEF LifeInv, LifeTypeOK, CardRec
<1>3. CASE descFlag = 0 \/ d[k].transfer
  <2> DEFINE r == [d[k] EXCEPT !.transfer = TRUE, !.up = TRUE]
  <2>1. /\ descFlag' = 1 /\ crash' = "none" /\ d' = [d EXCEPT ![k] = r]
    BY <1>1, <1>2, <1>3 DEF ax_net_open
  <2>2. r \in CardRec
    BY <1>2 DEF CardRec
  <2>3. SameButUp(r, d[k]) /\ r.transfer
    BY <1>2 DEF CardRec, SameButUp
  <2> HIDE DEF r
  <2> QED
    BY <1>1, <2>1, <2>2, <2>3, UserChange
<1>4. CASE descFlag # 0 /\ ~d[k].transfer
  <2>1. UNCHANGED <<d, descFlag>>
    BY <1>4 DEF ax_net_open
  <2>2. PICK o \in Cards : o # k /\ d[o].net = "registered"
    BY <1>1, <1>2, <1>4 DEF FlagShape
  <2>3. NoBugOn'
    BY <1>1, <2>1, <2>2 DEF NoBugOn
  <2> QED
    BY <1>1, <2>1, <2>3, OopsStep
<1> QED
  BY <1>3, <1>4

(* ax_net_close. *)
LEMMA NetCloseInv ==
  ASSUME LifeInv, NEW k \in Cards, ax_net_close(k)
  PROVE  LifeInv'
<1>1. /\ d[k].up /\ crash' = "none" /\ UNCHANGED <<step, cur, rv, mdioDrv>>
      /\ descFlag' = descFlag /\ d' = [d EXCEPT ![k].up = FALSE]
  BY DEF ax_net_close
<1>2. d \in [Cards -> CardRec] /\ d[k] \in CardRec /\ d[k].transfer \in BOOLEAN
  BY DEF LifeInv, LifeTypeOK, CardRec
<1> DEFINE r == [d[k] EXCEPT !.up = FALSE]
<1>3. r \in CardRec /\ d' = [d EXCEPT ![k] = r]
  BY <1>1, <1>2 DEF CardRec
<1>4. SameButUp(r, d[k]) /\ r.transfer = d[k].transfer
  BY <1>2 DEF CardRec, SameButUp
<1>5. d[k].net = "registered"
  BY <1>1, UpRegistered
<1> HIDE DEF r
<1> QED
  BY <1>1, <1>3, <1>4, <1>5, UserChange

(* Every step keeps the invariant. *)
LEMMA StepInv ==
  ASSUME LifeInv, [LifeNext]_lifeVars
  PROVE  LifeInv'
<1>1. CASE ProbeStep
  BY <1>1, PcidevInv, OpenDeviceInv, EnableIrqsInv, AllocNetdevInv, InitSwitchInv,
     CheckMacInv, RegisterNetdevInv, InitMdioInv, CreateMdioDevInv, PtpInitInv,
     UserIsrInv, TimerInv, DriverRegisterInv, ProcFilesInv, ErrOut1Inv, ErrOutInv,
     ErrFreeInv, ProbeReturnInv DEF ProbeStep
<1>2. CASE RemoveStep
  BY <1>2, DelTimerInv, DisableIrqsInv, PtpRemoveInv, DriverUnregisterInv,
     RemoveMdioInv, UnregisterInv, FreeNetdevInv, XpdevFreeInv DEF RemoveStep
<1>3. CASE IfaceStep
  BY <1>3, NetOpenInv, NetCloseInv DEF IfaceStep
<1>4. CASE \E c \in Cards : ProbeBegin(c) \/ RemoveBegin(c)
  BY <1>4, ProbeBeginInv, RemoveBeginInv
<1>5. CASE UNCHANGED lifeVars
  BY <1>5 DEF lifeVars, LifeInv, LifeTypeOK, CardsShape, OneBus, Alone, FlagShape, NoBugOn
<1> QED
  BY <1>1, <1>2, <1>3, <1>4, <1>5 DEF LifeNext

(* The invariant holds in every state of every behaviour. *)
LEMMA LifeInvariant == LifeSpec => []LifeInv
BY InitInv, StepInv, PTL DEF LifeSpec

-----------------------------------------------------------------------------
(* No PHY timer fires into a bus, a device or private data that is gone,    *)
(* from ax_phy_timer_init to del_timer_sync.                                *)
THEOREM TimerNeverDangles == LifeSpec => []TimerSafe
<1>1. LifeInv => TimerSafe
  <2> SUFFICES ASSUME LifeInv, NEW c \in Cards, d[c].timer, ~Failing(c)
               PROVE  d[c].mdio /\ d[c].xdev /\ d[c].priv
    BY DEF TimerSafe
  <2>1. CASE c = cur /\ step # "idle"
    <3>1. Active(d[c], step, rv) /\ step \in Steps /\ step \notin ErrPath
      BY <2>1 DEF LifeInv, CardsShape, Failing, ErrPath
    <3>2. CASE step \in Removing
      BY <3>1, <3>2 DEF Active, RemovingShape, Whole, Removing
    <3>3. CASE step = "return"
      BY <3>1, <3>3 DEF Active, ReturnShape, Whole, Dead, Clean, Bare
    <3>4. CASE step \notin Removing \cup {"return"}
      BY <2>1, <3>1, <3>4 DEF Active, Probing, Clean, Bare, Steps, PastPriv, PastNet,
        PastBus, ErrPath
    <3> QED
      BY <3>2, <3>3, <3>4
  <2>2. CASE ~(c = cur /\ step # "idle")
    BY <2>2 DEF LifeInv, CardsShape, Resting, Clean, Dead, Bare, Whole
  <2> QED
    BY <2>1, <2>2
<1> QED
  BY <1>1, LifeInvariant, PTL

(* The switch below the DSA core is never left without its bus, its conduit *)
(* or its BARs, by probe, remove or a second card.                          *)
THEOREM SwitchLives == LifeSpec => []SwitchOnLiveCard
<1>1. LifeInv => SwitchOnLiveCard
  <2> SUFFICES ASSUME LifeInv, NEW c \in Cards, d[c].dsa, ~Failing(c)
               PROVE  /\ d[c].mdiodev /\ d[c].mdio /\ d[c].xdev
                      /\ d[c].net = "registered"
    BY DEF SwitchOnLiveCard
  <2>1. d[c].mdiodev /\ d[c].mdio
    BY DEF LifeInv, CardsShape, HeldShape
  <2>2. CASE c = cur /\ step # "idle"
    <3>1. Active(d[c], step, rv) /\ step \in Steps /\ step \notin ErrPath
      BY <2>2 DEF LifeInv, CardsShape, Failing, ErrPath
    <3>2. CASE step \in Removing
      BY <2>1, <3>1, <3>2 DEF Active, RemovingShape, Removing
    <3>3. CASE step = "return"
      BY <2>1, <3>1, <3>3 DEF Active, ReturnShape, Whole, Dead, Clean, Bare
    <3>4. CASE step \notin Removing \cup {"return"}
      BY <2>1, <2>2, <3>1, <3>4 DEF Active, Probing, Clean, Bare, Steps, PastPriv,
        PastNet, PastBus, ErrPath
    <3> QED
      BY <2>1, <3>2, <3>3, <3>4
  <2>3. CASE ~(c = cur /\ step # "idle")
    BY <2>1, <2>3 DEF LifeInv, CardsShape, Resting, Clean, Dead, Bare, Whole
  <2> QED
    BY <2>2, <2>3
<1> QED
  BY <1>1, LifeInvariant, PTL

(* BUG_ON(!transfer) is out of reach of a card that is alone. *)
THEOREM AloneMeetsNoBug == LifeSpec => []NoBugOn
<1>1. LifeInv => NoBugOn
  BY DEF LifeInv
<1> QED
  BY <1>1, LifeInvariant, PTL

(* What the driver core keeps is a card that works or a card nothing can    *)
(* reach.                                                                   *)
THEOREM KeptCards == LifeSpec => []KeptIsWholeOrDead
<1>1. LifeInv => KeptIsWholeOrDead
  <2> SUFFICES ASSUME LifeInv, step = "idle", NEW c \in Cards, d[c].bound
               PROVE  Whole(d[c]) \/ Dead(d[c])
    BY DEF KeptIsWholeOrDead, Dead, Bare
  <2> QED
    BY RestingCards DEF Resting, Clean
<1> QED
  BY <1>1, LifeInvariant, PTL

(* Clean is what the property says of a card that is not bound. *)
LEMMA CleanIsAbsent ==
  ASSUME NEW r \in CardRec, Clean(r), HeldShape(r)
  PROVE  r \in {Absent, [Absent EXCEPT !.net = "freed"], [Absent EXCEPT !.xdev = TRUE]}
<1>1. /\ ~r.handlers /\ ~r.up /\ ~r.transfer /\ ~r.mdio /\ ~r.ptp /\ ~r.timer
      /\ ~r.proc /\ r.held = 0 /\ ~r.bound /\ r.user = {} /\ r.drvdata = "null"
      /\ ~r.priv /\ ~r.napi /\ ~r.mdiodev /\ ~r.dsa /\ ~r.leaked
  BY DEF Clean, Bare, HeldShape, CardRec
<1>2. CASE r.net = "none" /\ ~r.xdev
  BY <1>1, <1>2 DEF Absent, CardRec
<1>3. CASE r.net = "none" /\ r.xdev
  <2> DEFINE a == [Absent EXCEPT !.xdev = TRUE]
  <2>1. a \in CardRec
    BY AbsentClean DEF CardRec
  <2>2. r = a
    BY <1>1, <1>3, <2>1 DEF Absent, CardRec
  <2> QED
    BY <2>2
<1>4. CASE r.net = "freed" /\ ~r.xdev
  <2> DEFINE a == [Absent EXCEPT !.net = "freed"]
  <2>1. a \in CardRec
    BY AbsentClean DEF CardRec
  <2>2. r = a
    BY <1>1, <1>4, <2>1 DEF Absent, CardRec
  <2> QED
    BY <2>2
<1> QED
  BY <1>2, <1>3, <1>4 DEF Clean

(* A card that was removed, or whose probe was given up, has nothing left,  *)
(* and the removal never waits for a reference without an owner.            *)
THEOREM RemovalIsComplete == LifeSpec => []RemovedIsClean
<1>1. LifeInv => RemovedIsClean
  <2> SUFFICES ASSUME LifeInv PROVE RemovedIsClean
    OBVIOUS
  <2>1. LifeTypeOK
    BY DEF LifeInv
  <2>2. ASSUME step = "del_netdev" PROVE me.held = 0 \/ me.leaked
    <3>1. HeldShape(me) /\ ~me.mdio
      BY <2>2, Here DEF Active, Removing, RemovingShape
    <3> QED
      BY <3>1 DEF HeldShape
  <2>3. ASSUME step = "idle", NEW c \in Cards, ~d[c].bound
        PROVE  d[c] \in {Absent, [Absent EXCEPT !.net = "freed"],
                         [Absent EXCEPT !.xdev = TRUE]}
    <3>1. d[c] \in CardRec /\ HeldShape(d[c]) /\ Clean(d[c])
      BY <2>3, RestingCards DEF Resting
    <3> QED
      BY <3>1, CleanIsAbsent
  <2> QED
    BY <2>1, <2>2, <2>3 DEF RemovedIsClean
<1> QED
  BY <1>1, LifeInvariant, PTL

=============================================================================
