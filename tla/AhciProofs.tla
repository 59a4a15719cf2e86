----------------------------- MODULE AhciProofs -----------------------------
(***************************************************************************)
(* Proofs about the AHCI driver of module Ahci, for any number of ports,   *)
(* controllers and generations.                                            *)
(***************************************************************************)
EXTENDS Ahci, TLAPS

-----------------------------------------------------------------------------
(* The inductive invariant *)

HbaType ==
    [engine : [Ports -> BOOLEAN], based : [Ports -> BOOLEAN],
     cmd : [Ports -> {"none", "identify", "read"}],
     status : [Ports -> SUBSET {"done", "error"}],
     ie : [Ports -> BOOLEAN], gie : BOOLEAN, master : BOOLEAN,
     msi : BOOLEAN, link : [Ports -> BOOLEAN], drive : [Ports -> Drives]]

DriverType ==
    [present : BOOLEAN, mmio : BOOLEAN, port : Ports \cup {NoPort},
     active : Ports \cup {NoPort}, pages : BOOLEAN, closed : BOOLEAN,
     gen : 1..GenerationLimit, baseline : Drives \cup {NoDrive},
     table : [Ports -> Drives \cup {NoDrive}],
     valid : [Ports -> 0..GenerationLimit]]

IrqType ==
    [enabled : BOOLEAN, active : BOOLEAN, gen : 0..IrqGenerations,
     obsGen : 0..IrqGenerations, obs : SUBSET {"done", "error"}]

RequestType ==
    [purpose : Purposes, dev : Ports \cup {NoPort}, flags : BOOLEAN,
     useIrq : BOOLEAN, gen : 0..IrqGenerations,
     seen : {"none", "complete", "error"}, ok : BOOLEAN, restore : BOOLEAN,
     scan : Nat, left : Nat]

BounceType ==
    [by : {"nobody", "identify", "read"}, port : Ports \cup {NoPort},
     drive : Drives \cup {NoDrive}, full : BOOLEAN]

Types ==
    /\ hba \in HbaType
    /\ drv \in DriverType
    /\ irq \in IrqType
    /\ recov \in {"none", "port", "hba", "closed"}
    /\ req \in RequestType
    /\ bounce \in BounceType
    /\ pc \in {"prepare", "probe", "issue", "wait", "judge", "issued", "idle",
               "activate", "select", "portReset", "hbaReset", "deliver",
               "disable", "candidate", "off"}

\* A command is being issued, awaited or judged.
Commanding == pc \in {"issue", "wait", "judge", "issued"}

\* A device is the active one.
InUse ==
    \/ pc \in {"idle", "activate", "deliver", "portReset", "hbaReset"}
    \/ Commanding /\ req.purpose \in {"read", "portCheck", "hbaCheck", "retry"}

\* The selected port owns the pages.
PortInv ==
    /\ OnePortOwnsThePages
    /\ drv.port \in Ports => drv.pages /\ drv.mmio
    /\ pc \in {"prepare", "probe", "select"} => drv.port = NoPort
    /\ pc \in {"probe", "select"} => drv.pages /\ drv.mmio
    /\ InUse \/ Commanding => drv.port \in Ports
    /\ (InUse \/ Commanding) /\ pc # "hbaReset" => CanDma(hba, drv.port)

\* Which device the driver is at.
DeviceInv ==
    /\ InUse => /\ drv.present /\ drv.active = drv.port
                /\ drv.valid[drv.port] = drv.gen
                /\ drv.baseline = drv.table[drv.port]
                /\ drv.table[drv.port] # NoDrive
    /\ InUse /\ pc \notin {"idle", "activate"} => req.dev = drv.port
    /\ pc \in {"activate", "select"} => drv.present /\ req.dev \in Devices
    /\ Commanding /\ req.purpose = "revalidate" =>
          /\ drv.present /\ req.dev = drv.port
          /\ drv.baseline = drv.table[drv.port]
          /\ drv.table[drv.port] # NoDrive

\* ahci_init looks for drives.
Probing == pc \in {"prepare", "probe"} \/ (Commanding /\ req.purpose = "probe")

\* Drives of which the driver cannot know: a reset is being recovered from.
Unsure(q) ==
    \/ pc \in {"hbaReset", "disable"}
    \/ /\ Commanding
       /\ req.purpose = "hbaCheck" \/ (req.purpose = "portCheck" /\ q = drv.port)

\* A device identified since the last reset of the controller has its drive.
DriveInv ==
    \A q \in Ports :
        /\ drv.valid[q] <= drv.gen
        /\ Probing /\ drv.table[q] # NoDrive => drv.valid[q] = drv.gen
        /\ drv.table[q] # NoDrive /\ drv.valid[q] = drv.gen /\ ~Unsure(q) =>
              hba.drive[q] = drv.table[q]

\* How far the recovery has come.
RecoveryInv ==
    /\ pc \in {"prepare", "probe", "idle", "activate", "select", "deliver"} => recov = "none"
    /\ pc = "portReset" => recov = "port"
    /\ pc = "hbaReset" => recov = "hba"
    /\ Commanding =>
          /\ req.purpose \in {"probe", "revalidate", "read"} => recov = "none"
          /\ req.purpose = "portCheck" => recov = "port"
          /\ req.purpose = "hbaCheck" => recov = "hba"
          /\ req.purpose = "retry" => recov \in {"port", "hba"}

\* The answer to the command that was issued last.
Answer ==
    [by |-> Kind(req.purpose), port |-> drv.port, drive |-> hba.drive[drv.port],
     full |-> TRUE]

\* What is in slot 0 and in the bounce page.
SlotInv ==
    /\ pc \in {"idle", "activate", "issue", "deliver"} => hba.cmd[drv.port] = "none"
    /\ pc \in {"wait", "judge"} =>
          /\ hba.cmd[drv.port] \in {"none", Kind(req.purpose)}
          /\ bounce.full => bounce = Answer
          /\ "done" \in hba.status[drv.port] => hba.cmd[drv.port] = "none"
          /\ req.useIrq /\ "done" \in irq.obs => hba.cmd[drv.port] = "none"
    /\ pc = "issued" /\ req.ok => hba.cmd[drv.port] = "none" /\ bounce = Answer

\* Interrupts are recorded only for a command that waits for them.
IrqInv ==
    /\ pc \notin {"wait", "judge"} => ~irq.active
    /\ pc \in {"wait", "judge"} /\ req.useIrq =>
          irq.active /\ irq.gen = req.gen /\ irq.enabled
    /\ pc \in {"wait", "judge"} /\ ~req.useIrq => ~irq.active
    /\ Probing => ~irq.enabled
    /\ (InUse \/ Commanding) /\ irq.enabled => hba.ie[drv.port] /\ hba.gie

\* What is true in every state of the driver.
AhciInv ==
    /\ Types /\ PortInv /\ DeviceInv /\ DriveInv /\ RecoveryInv /\ SlotInv
    /\ IrqInv /\ DeliversOwnData

-----------------------------------------------------------------------------
(* What the operations on ports do *)

\* Port p aside, k has no engine, bases or interrupts that h does not have.
Elsewhere(h, k, p) ==
    \A q \in Ports \ {p} :
        (k.engine[q] => h.engine[q]) /\ (k.based[q] => h.based[q]) /\ (k.ie[q] => h.ie[q])

\* What is there for the interrupts and drives of all ports is as before.
SameWiring(h, k) == k.ie = h.ie /\ k.gie = h.gie /\ k.drive = h.drive

LEMMA ClearPendingFacts ==
  ASSUME NEW h \in HbaType, NEW p \in Ports
  PROVE  /\ ClearPending(h, p) \in HbaType
         /\ ClearPending(h, p).status[p] = {}
         /\ ClearPending(h, p).engine = h.engine /\ ClearPending(h, p).based = h.based
         /\ ClearPending(h, p).cmd = h.cmd /\ ClearPending(h, p).master = h.master
         /\ ClearPending(h, p).link = h.link /\ SameWiring(h, ClearPending(h, p))
  BY Zenon DEF ClearPending, HbaType, SameWiring

\* stop_port: a port that does not stop is as it was.
LEMMA StopPortFacts ==
  ASSUME NEW h \in HbaType, NEW p \in Ports, NEW s \in StopPort(h, p)
  PROVE  /\ s.h \in HbaType /\ s.ok \in BOOLEAN
         /\ Elsewhere(h, s.h, p) /\ SameWiring(h, s.h)
         /\ s.h.based = h.based /\ s.h.master = h.master /\ s.h.link = h.link
         /\ s.ok => ~s.h.engine[p] /\ s.h.cmd[p] = "none"
         /\ ~s.ok => s.h = h
<1> DEFINE k == [h EXCEPT !.engine[p] = FALSE, !.cmd[p] = "none"]
<1>1. k \in HbaType
  BY Zenon DEF HbaType
<1>2. /\ k.engine = [h.engine EXCEPT ![p] = FALSE] /\ k.cmd = [h.cmd EXCEPT ![p] = "none"]
      /\ k.based = h.based /\ k.master = h.master /\ k.link = h.link
      /\ SameWiring(h, k) /\ Elsewhere(h, k, p)
      /\ ~k.engine[p] /\ k.cmd[p] = "none"
  BY Zenon DEF HbaType, SameWiring, Elsewhere
<1>3. s = [h |-> k, ok |-> TRUE] \/ s = [h |-> h, ok |-> FALSE]
  BY Zenon DEF StopPort
<1> HIDE DEF k
<1>4. CASE s = [h |-> k, ok |-> TRUE]
  <2>1. s.h = k /\ s.ok = TRUE
    BY <1>4, Zenon
  <2> QED BY <1>1, <1>2, <2>1, Zenon
<1>5. CASE s = [h |-> h, ok |-> FALSE]
  BY <1>5, Zenon DEF HbaType, Elsewhere, SameWiring
<1> QED BY <1>3, <1>4, <1>5, Zenon

LEMMA MaskHbaFacts ==
  ASSUME NEW h \in HbaType, NEW p \in Ports
  PROVE  /\ MaskHba(h, p) \in HbaType /\ Elsewhere(h, MaskHba(h, p), p)
         /\ MaskHba(h, p).engine = h.engine /\ MaskHba(h, p).based = h.based
         /\ MaskHba(h, p).cmd = h.cmd /\ MaskHba(h, p).master = h.master
         /\ MaskHba(h, p).drive = h.drive
  BY Zenon DEF MaskHba, ClearPending, HbaType, Elsewhere

\* enable_hba_interrupts.
LEMMA EnableHbaFacts ==
  ASSUME NEW h \in HbaType, NEW p \in Ports, NEW e \in EnableHba(h, p)
  PROVE  /\ e.h \in HbaType /\ e.ok \in BOOLEAN /\ Elsewhere(h, e.h, p)
         /\ e.h.engine = h.engine /\ e.h.based = h.based /\ e.h.cmd = h.cmd
         /\ e.h.master = h.master /\ e.h.drive = h.drive
         /\ e.ok => e.h.ie[p] /\ e.h.gie
<1> DEFINE k == [ClearPending(h, p) EXCEPT !.gie = TRUE, !.ie[p] = TRUE]
<1>1. /\ k \in HbaType /\ Elsewhere(h, k, p)
      /\ k.engine = h.engine /\ k.based = h.based /\ k.cmd = h.cmd
      /\ k.master = h.master /\ k.drive = h.drive /\ k.ie[p] /\ k.gie
  BY Zenon DEF ClearPending, HbaType, Elsewhere
<1>2. e = [h |-> k, ok |-> TRUE] \/ e = [h |-> MaskHba(h, p), ok |-> FALSE]
  BY Zenon DEF EnableHba
<1> HIDE DEF k
<1>3. CASE e = [h |-> k, ok |-> TRUE]
  <2>1. e.h = k /\ e.ok = TRUE
    BY <1>3
  <2> QED BY <1>1, <2>1, Zenon
<1>4. CASE e = [h |-> MaskHba(h, p), ok |-> FALSE]
  <2>1. e.h = MaskHba(h, p) /\ e.ok = FALSE
    BY <1>4, Zenon
  <2> DEFINE m == MaskHba(h, p)
  <2>2. /\ m \in HbaType /\ Elsewhere(h, m, p)
        /\ m.engine = h.engine /\ m.based = h.based /\ m.cmd = h.cmd
        /\ m.master = h.master /\ m.drive = h.drive
    BY MaskHbaFacts, Zenon
  <2>3. e.h = m
    BY <2>1, Zenon
  <2> HIDE DEF m
  <2> QED BY <2>1, <2>2, <2>3, Zenon
<1> QED BY <1>2, <1>3, <1>4, Zenon

\* Where only port p was touched, the changes add up.
LEMMA ElsewhereTrans ==
  ASSUME NEW h, NEW k, NEW m, NEW p, Elsewhere(h, k, p), Elsewhere(k, m, p)
  PROVE  Elsewhere(h, m, p)
  BY Zenon DEF Elsewhere

\* quiesce_active_port: a port given up has no engine, bases or interrupts.
LEMMA QuiescePortFacts ==
  ASSUME NEW h \in HbaType, NEW p \in Ports, NEW q \in QuiescePort(h, p)
  PROVE  /\ q.h \in HbaType /\ q.ok \in BOOLEAN
         /\ Elsewhere(h, q.h, p) /\ q.h.drive = h.drive
         /\ q.ok => ~q.h.engine[p] /\ ~q.h.based[p] /\ ~q.h.ie[p]
<1> DEFINE m == ClearPending([h EXCEPT !.ie[p] = FALSE], p)
<1>1. m \in HbaType /\ Elsewhere(h, m, p) /\ m.drive = h.drive /\ ~m.ie[p]
  BY Zenon DEF ClearPending, HbaType, Elsewhere
<1>2. PICK s \in StopPort(m, p) :
        \/ q = [h |-> s.h, ok |-> FALSE]
        \/ s.ok /\ q = [h |-> [s.h EXCEPT !.master = FALSE], ok |-> FALSE]
        \/ s.ok /\ q = [h |-> [s.h EXCEPT !.master = FALSE, !.based[p] = FALSE], ok |-> TRUE]
  BY Zenon DEF QuiescePort
<1> HIDE DEF m
<1>3. /\ s.h \in HbaType /\ Elsewhere(m, s.h, p) /\ SameWiring(m, s.h)
      /\ s.ok \in BOOLEAN /\ (s.ok => ~s.h.engine[p])
  BY <1>1, StopPortFacts, Zenon
<1>4. Elsewhere(h, s.h, p) /\ s.h.drive = h.drive /\ ~s.h.ie[p]
  BY <1>1, <1>3, ElsewhereTrans, Zenon DEF SameWiring
<1> DEFINE k == s.h
           a == [k EXCEPT !.master = FALSE]
           b == [k EXCEPT !.master = FALSE, !.based[p] = FALSE]
<1>5. /\ a \in HbaType /\ Elsewhere(k, a, p) /\ a.drive = k.drive
      /\ b \in HbaType /\ Elsewhere(k, b, p) /\ b.drive = k.drive
      /\ b.engine = k.engine /\ ~b.based[p] /\ b.ie = k.ie
  <2>1. k \in HbaType
    BY <1>3, Zenon
  <2> HIDE DEF k
  <2> QED BY <2>1, Zenon DEF HbaType, Elsewhere
<1>6. Elsewhere(h, a, p) /\ Elsewhere(h, b, p)
  BY <1>4, <1>5, ElsewhereTrans, Zenon
<1>7. \/ q.h = k /\ q.ok = FALSE
      \/ q.h = a /\ q.ok = FALSE
      \/ q.h = b /\ q.ok = TRUE /\ s.ok
  <2>1. \/ q = [h |-> k, ok |-> FALSE]
        \/ q = [h |-> a, ok |-> FALSE]
        \/ s.ok /\ q = [h |-> b, ok |-> TRUE]
    BY <1>2, Zenon
  <2> HIDE DEF k, a, b
  <2> QED BY <2>1, <1>3
<1>8. k = s.h
  BY Zenon
<1> HIDE DEF k, a, b
<1> QED BY <1>3, <1>4, <1>5, <1>6, <1>7, <1>8, Zenon

LEMMA ProgramPortFacts ==
  ASSUME NEW h \in HbaType, NEW p \in Ports
  PROVE  LET k == ProgramPort(h, p)
         IN /\ k \in HbaType /\ Elsewhere(h, k, p) /\ k.drive = h.drive
            /\ k.based[p] /\ k.engine = h.engine /\ k.cmd = h.cmd
            /\ [k EXCEPT !.master = TRUE] \in HbaType
            /\ Elsewhere(h, [k EXCEPT !.master = TRUE], p)
            /\ [k EXCEPT !.master = TRUE].drive = h.drive
  BY Zenon DEF ProgramPort, HbaType, Elsewhere

\* The last step of starting a port whose memory is programmed.
LEMMA StartedFacts ==
  ASSUME NEW h \in HbaType, NEW p \in Ports
  PROVE  LET k == [[ProgramPort(h, p) EXCEPT !.master = TRUE] EXCEPT !.engine[p] = TRUE]
         IN /\ k \in HbaType /\ Elsewhere(h, k, p) /\ k.drive = h.drive
            /\ CanDma(k, p) /\ k.cmd = h.cmd
<1> DEFINE g == ProgramPort(h, p)
<1>1. g \in HbaType /\ Elsewhere(h, g, p) /\ g.drive = h.drive /\ g.based[p] /\ g.cmd = h.cmd
  BY ProgramPortFacts, Zenon
<1> HIDE DEF g
<1> DEFINE k == [[g EXCEPT !.master = TRUE] EXCEPT !.engine[p] = TRUE]
<1>2. /\ k \in HbaType /\ Elsewhere(g, k, p) /\ k.drive = g.drive
      /\ CanDma(k, p) /\ k.cmd = g.cmd
  BY <1>1, Zenon DEF HbaType, Elsewhere, CanDma
<1> HIDE DEF k
<1>3. Elsewhere(h, k, p)
  BY <1>1, <1>2, ElsewhereTrans, Zenon
<1>4. k \in HbaType /\ Elsewhere(h, k, p) /\ k.drive = h.drive /\ CanDma(k, p) /\ k.cmd = h.cmd
  BY <1>1, <1>2, <1>3, Zenon
<1> QED BY <1>4, Zenon DEF k, g

\* activate_port: a port that was activated runs with the driver's pages, its
\* slot is free and its interrupts are as they were asked for; any other result
\* has at most touched this port.
Selected(h, s, p, restore) ==
    /\ s.h \in HbaType /\ s.ok \in BOOLEAN /\ s.port \in {p, NoPort} /\ s.irq \in BOOLEAN
    /\ Elsewhere(h, s.h, p) /\ s.h.drive = h.drive
    /\ s.port = NoPort => s.h = h
    /\ s.ok => /\ s.port = p /\ CanDma(s.h, p) /\ s.h.cmd[p] = "none"
               /\ s.irq = restore /\ (restore => s.h.ie[p] /\ s.h.gie)
    /\ s.irq => restore

LEMMA SelectPortFacts ==
  ASSUME NEW h \in HbaType, NEW p \in Ports, NEW restore \in BOOLEAN,
         NEW s \in SelectPort(h, p, restore)
  PROVE  Selected(h, s, p, restore)
<1>1. CASE ~h.link[p]
  <2>1. s = [h |-> h, ok |-> FALSE, port |-> NoPort, irq |-> restore]
    BY <1>1, Zenon DEF SelectPort
  <2>2. s.h = h /\ s.ok = FALSE /\ s.port = NoPort /\ s.irq = restore
    BY <2>1, Zenon
  <2> QED BY <2>2, Zenon DEF Selected, Elsewhere
<1>2. CASE h.link[p]
  <2>1. PICK t \in StopPort(h, p) :
          LET set     == ProgramPort(t.h, p)
              master  == [set EXCEPT !.master = TRUE]
              started == [master EXCEPT !.engine[p] = TRUE]
              failed  == IF t.ok THEN {t.h, set, master} ELSE {t.h}
              last    == IF ~t.ok THEN {}
                         ELSE IF restore THEN EnableHba(started, p)
                         ELSE {[h |-> started, ok |-> TRUE]}
          IN \/ \E x \in failed : s = [h |-> x, ok |-> FALSE, port |-> p, irq |-> restore]
             \/ \E e \in last : s = [h |-> e.h, ok |-> e.ok, port |-> p,
                                     irq |-> restore /\ e.ok]
    <3> DEFINE T(t) ==
          LET set     == ProgramPort(t.h, p)
              master  == [set EXCEPT !.master = TRUE]
              started == [master EXCEPT !.engine[p] = TRUE]
              failed  == IF t.ok THEN {t.h, set, master} ELSE {t.h}
              last    == IF ~t.ok THEN {}
                         ELSE IF restore THEN EnableHba(started, p)
                         ELSE {[h |-> started, ok |-> TRUE]}
          IN {[h |-> x, ok |-> FALSE, port |-> p, irq |-> restore] : x \in failed}
             \cup {[h |-> e.h, ok |-> e.ok, port |-> p, irq |-> restore /\ e.ok] : e \in last}
    <3>1. SelectPort(h, p, restore) = UNION {T(t) : t \in StopPort(h, p)}
      BY <1>2, Zenon DEF SelectPort
    <3>2. PICK t \in StopPort(h, p) : s \in T(t)
      <4> HIDE DEF T
      <4> QED BY <3>1, Zenon
    <3> QED BY <3>2, Zenon
  <2> DEFINE k       == t.h
             set     == ProgramPort(k, p)
             master  == [set EXCEPT !.master = TRUE]
             started == [master EXCEPT !.engine[p] = TRUE]
  <2>2. /\ k \in HbaType /\ t.ok \in BOOLEAN /\ Elsewhere(h, k, p) /\ k.drive = h.drive
        /\ t.ok => k.cmd[p] = "none"
    BY StopPortFacts DEF SameWiring
  <2> HIDE DEF k
  <2>3. /\ set \in HbaType /\ master \in HbaType
        /\ Elsewhere(k, set, p) /\ Elsewhere(k, master, p)
        /\ set.drive = k.drive /\ master.drive = k.drive
    BY <2>2, ProgramPortFacts, Zenon
  <2>4. /\ started \in HbaType /\ Elsewhere(k, started, p) /\ started.drive = k.drive
        /\ CanDma(started, p) /\ started.cmd = k.cmd
    BY <2>2, StartedFacts, Zenon
  <2>5. /\ Elsewhere(h, set, p) /\ Elsewhere(h, master, p) /\ Elsewhere(h, started, p)
    BY <2>2, <2>3, <2>4, ElsewhereTrans, Zenon
  <2>6. \/ s = [h |-> k, ok |-> FALSE, port |-> p, irq |-> restore]
        \/ s = [h |-> set, ok |-> FALSE, port |-> p, irq |-> restore]
        \/ s = [h |-> master, ok |-> FALSE, port |-> p, irq |-> restore]
        \/ t.ok /\ restore /\ \E e \in EnableHba(started, p) :
                s = [h |-> e.h, ok |-> e.ok, port |-> p, irq |-> restore /\ e.ok]
        \/ t.ok /\ ~restore /\ \E e \in {[h |-> started, ok |-> TRUE]} :
                s = [h |-> e.h, ok |-> e.ok, port |-> p, irq |-> restore /\ e.ok]
    BY <2>1, Zenon DEF k
  <2> HIDE DEF set, master, started
  <2>7. ASSUME NEW x, s = [h |-> x, ok |-> FALSE, port |-> p, irq |-> restore],
               x \in HbaType, Elsewhere(h, x, p), x.drive = h.drive
        PROVE  Selected(h, s, p, restore)
    <3>1. s.h = x /\ s.ok = FALSE /\ s.port = p /\ s.irq = restore
      BY <2>7, Zenon
    <3>2. p # NoPort
      BY DEF Ports, NoPort
    <3> QED BY <2>7, <3>1, <3>2, Zenon DEF Selected
  <2>8. ASSUME NEW e, t.ok, s = [h |-> e.h, ok |-> e.ok, port |-> p, irq |-> restore /\ e.ok],
               e.h \in HbaType, e.ok \in BOOLEAN, Elsewhere(started, e.h, p),
               e.h.engine = started.engine, e.h.based = started.based,
               e.h.cmd = started.cmd, e.h.master = started.master,
               e.h.drive = started.drive, restore /\ e.ok => e.h.ie[p] /\ e.h.gie
        PROVE  Selected(h, s, p, restore)
    <3>1. s.h = e.h /\ s.ok = e.ok /\ s.port = p /\ s.irq = (restore /\ e.ok)
      BY <2>8, Zenon
    <3>2. p # NoPort
      BY DEF Ports, NoPort
    <3>3. Elsewhere(h, e.h, p)
      BY <2>5, <2>8, ElsewhereTrans, Zenon
    <3>4. CanDma(e.h, p) /\ e.h.cmd[p] = "none"
      BY <2>2, <2>4, <2>8, Zenon DEF CanDma
    <3> QED BY <2>2, <2>4, <2>8, <3>1, <3>2, <3>3, <3>4, Zenon DEF Selected
  <2>9. ASSUME t.ok, restore, NEW e \in EnableHba(started, p),
               s = [h |-> e.h, ok |-> e.ok, port |-> p, irq |-> restore /\ e.ok]
        PROVE  Selected(h, s, p, restore)
    BY <2>4, <2>8, <2>9, EnableHbaFacts, Zenon
  <2>10. ASSUME t.ok, ~restore, NEW e \in {[h |-> started, ok |-> TRUE]},
                s = [h |-> e.h, ok |-> e.ok, port |-> p, irq |-> restore /\ e.ok]
         PROVE  Selected(h, s, p, restore)
    <3>1. e.h = started /\ e.ok = TRUE
      OBVIOUS
    <3>2. Elsewhere(started, started, p)
      BY Zenon DEF Elsewhere
    <3> QED BY <2>4, <2>8, <2>10, <3>1, <3>2, Zenon
  <2> QED BY <2>2, <2>3, <2>5, <2>6, <2>7, <2>9, <2>10, Zenon
<1> QED BY <1>1, <1>2, Zenon

\* reset_port_link: another drive may be there, on this port only.
LEMMA ResetPortLinkFacts ==
  ASSUME NEW h \in HbaType, NEW p \in Ports, NEW r \in ResetPortLink(h, p)
  PROVE  /\ r.h \in HbaType /\ r.ok \in BOOLEAN /\ Elsewhere(h, r.h, p)
         /\ r.h.ie = h.ie /\ r.h.gie = h.gie
         /\ r.h.based = h.based /\ r.h.master = h.master
         /\ \A q \in Ports \ {p} : r.h.drive[q] = h.drive[q]
         /\ r.ok => r.h.engine[p] /\ r.h.cmd[p] = "none"
<1> DEFINE back(d) == [h EXCEPT !.cmd[p] = "none", !.status[p] = {},
                                !.engine[p] = TRUE, !.drive[p] = d]
           a == [h EXCEPT !.link[p] = FALSE]
           b == [h EXCEPT !.status[p] = {}]
           c == [h EXCEPT !.status[p] = {}, !.engine[p] = FALSE, !.cmd[p] = "none"]
<1>1. \/ \E d \in Drives : r = [h |-> back(d), ok |-> TRUE]
      \/ r = [h |-> a, ok |-> FALSE] \/ r = [h |-> b, ok |-> FALSE]
      \/ r = [h |-> c, ok |-> FALSE]
  BY Zenon DEF ResetPortLink
<1>2. ASSUME NEW d \in Drives
      PROVE  /\ back(d) \in HbaType /\ Elsewhere(h, back(d), p)
             /\ back(d).ie = h.ie /\ back(d).gie = h.gie
             /\ back(d).based = h.based /\ back(d).master = h.master
             /\ \A q \in Ports \ {p} : back(d).drive[q] = h.drive[q]
             /\ back(d).engine[p] /\ back(d).cmd[p] = "none"
  BY Zenon DEF HbaType, Elsewhere
<1>3. ASSUME NEW k \in {a, b, c}
      PROVE  /\ k \in HbaType /\ Elsewhere(h, k, p) /\ k.ie = h.ie /\ k.gie = h.gie
             /\ k.based = h.based /\ k.master = h.master /\ k.drive = h.drive
  <2>1. CASE k = a
    BY <2>1, Zenon DEF HbaType, Elsewhere
  <2>2. CASE k = b
    BY <2>2, Zenon DEF HbaType, Elsewhere
  <2>3. CASE k = c
    BY <2>3, Zenon DEF HbaType, Elsewhere
  <2> QED BY <2>1, <2>2, <2>3, Zenon
<1>4. (\E d \in Drives : r = [h |-> back(d), ok |-> TRUE])
      \/ (\E k \in {a, b, c} : r = [h |-> k, ok |-> FALSE])
  BY <1>1, Zenon
<1> HIDE DEF back, a, b, c
<1>5. ASSUME NEW d \in Drives, r = [h |-> back(d), ok |-> TRUE]
      PROVE  r.h = back(d) /\ r.ok = TRUE
  BY <1>5, Zenon
<1>6. ASSUME NEW k \in {a, b, c}, r = [h |-> k, ok |-> FALSE]
      PROVE  r.h = k /\ r.ok = FALSE
  BY <1>6, Zenon
<1> QED BY <1>2, <1>3, <1>4, <1>5, <1>6, ZenonT(30)

LEMMA FreshHbaFacts ==
  /\ FreshHba \in HbaType
  /\ \A p \in Ports : ~FreshHba.engine[p] /\ ~FreshHba.based[p] /\ ~FreshHba.ie[p]
  /\ \A p \in Ports : FreshHba.cmd[p] = "none"
  BY Zenon DEF FreshHba, HbaType, Drives

LEMMA AfterResetFacts ==
  ASSUME NEW h \in HbaType, NEW fate \in [Ports -> {"same", "swapped", "gone"}]
  PROVE  LET k == HbaAfterReset(h, fate)
         IN /\ k \in HbaType /\ (\A p \in Ports : Elsewhere(h, k, p))
            /\ \A p \in Ports : k.cmd[p] = "none"
<1> DEFINE up == [p \in Ports |-> fate[p] # "gone"]
           dr == [p \in Ports |-> IF fate[p] = "same" THEN h.drive[p] ELSE "second"]
           k  == [FreshHba EXCEPT !.msi = h.msi, !.link = up, !.drive = dr]
<1>1. up \in [Ports -> BOOLEAN] /\ dr \in [Ports -> Drives] /\ h.msi \in BOOLEAN
  BY Zenon DEF HbaType, Drives
<1>2. HbaAfterReset(h, fate) = k
  BY Zenon DEF HbaAfterReset
<1> HIDE DEF up, dr
<1>3. /\ k \in HbaType /\ k.engine = FreshHba.engine /\ k.based = FreshHba.based
      /\ k.ie = FreshHba.ie /\ k.cmd = FreshHba.cmd
  BY <1>1, FreshHbaFacts, Zenon DEF HbaType
<1> HIDE DEF k
<1>4. (\A p \in Ports : Elsewhere(h, k, p)) /\ \A p \in Ports : k.cmd[p] = "none"
  BY <1>3, FreshHbaFacts, Zenon DEF Elsewhere
<1> QED BY <1>2, <1>3, <1>4, Zenon

\* hba_reset_and_revalidate: the controller comes back with this port running,
\* or it does not and no other port does anything.
LEMMA HbaResetFacts ==
  ASSUME NEW h \in HbaType, NEW p \in Ports, NEW r \in HbaReset(h, p)
  PROVE  /\ r.h \in HbaType /\ r.ok \in BOOLEAN /\ Elsewhere(h, r.h, p)
         /\ r.ok => CanDma(r.h, p) /\ r.h.cmd[p] = "none"
<1> DEFINE A(s) == {[h |-> s.h, ok |-> FALSE], [h |-> [s.h EXCEPT !.master = FALSE], ok |-> FALSE]}
           B(fate) ==
             LET reset   == HbaAfterReset(h, fate)
                 set     == ProgramPort(reset, p)
                 master  == [set EXCEPT !.master = TRUE]
                 started == [master EXCEPT !.engine[p] = TRUE]
             IN IF reset.link[p]
                THEN {[h |-> x, ok |-> FALSE] : x \in {set, master, started}}
                     \cup {[h |-> started, ok |-> TRUE]}
                ELSE {[h |-> reset, ok |-> FALSE]}
           U == UNION {A(s) : s \in StopPort(MaskHba(h, p), p)}
           V == UNION {B(fate) : fate \in [Ports -> {"same", "swapped", "gone"}]}
<1>1. HbaReset(h, p) = U \cup V
  BY Zenon DEF HbaReset
<1>2. \/ \E s \in StopPort(MaskHba(h, p), p) : r \in A(s)
      \/ \E fate \in [Ports -> {"same", "swapped", "gone"}] : r \in B(fate)
  <2> HIDE DEF A, B
  <2> QED BY <1>1, Zenon
<1>3. ASSUME NEW s \in StopPort(MaskHba(h, p), p), r \in A(s)
      PROVE  r.h \in HbaType /\ r.ok = FALSE /\ Elsewhere(h, r.h, p)
  <2> DEFINE m == MaskHba(h, p)
             k == s.h
             a == [k EXCEPT !.master = FALSE]
  <2>1. m \in HbaType /\ Elsewhere(h, m, p)
    BY MaskHbaFacts, Zenon
  <2>2. k \in HbaType /\ Elsewhere(m, k, p)
    <3> HIDE DEF m
    <3> QED BY <2>1, <1>3, StopPortFacts, Zenon DEF m
  <2>3. r = [h |-> k, ok |-> FALSE] \/ r = [h |-> a, ok |-> FALSE]
    BY <1>3, Zenon
  <2> HIDE DEF m, k
  <2>4. a \in HbaType /\ Elsewhere(k, a, p)
    BY <2>2, Zenon DEF HbaType, Elsewhere
  <2>5. Elsewhere(h, k, p) /\ Elsewhere(h, a, p)
    BY <2>1, <2>2, <2>4, ElsewhereTrans, Zenon
  <2> HIDE DEF a
  <2>6. r.ok = FALSE /\ (r.h = k \/ r.h = a)
    BY <2>3
  <2> QED BY <2>2, <2>4, <2>5, <2>6, Zenon
<1>4. ASSUME NEW fate \in [Ports -> {"same", "swapped", "gone"}], r \in B(fate)
      PROVE  /\ r.h \in HbaType /\ r.ok \in BOOLEAN /\ Elsewhere(h, r.h, p)
             /\ r.ok => CanDma(r.h, p) /\ r.h.cmd[p] = "none"
  <2> DEFINE reset   == HbaAfterReset(h, fate)
             set     == ProgramPort(reset, p)
             master  == [set EXCEPT !.master = TRUE]
             started == [master EXCEPT !.engine[p] = TRUE]
  <2>1. reset \in HbaType /\ Elsewhere(h, reset, p) /\ reset.cmd[p] = "none"
    BY AfterResetFacts, Zenon
  <2>2. \/ r = [h |-> reset, ok |-> FALSE] \/ r = [h |-> set, ok |-> FALSE]
        \/ r = [h |-> master, ok |-> FALSE] \/ r = [h |-> started, ok |-> FALSE]
        \/ r = [h |-> started, ok |-> TRUE]
    <3>1. CASE reset.link[p]
      <4>1. r \in {[h |-> x, ok |-> FALSE] : x \in {set, master, started}}
                  \cup {[h |-> started, ok |-> TRUE]}
        BY <1>4, <3>1, Zenon
      <4> QED BY <4>1, Zenon
    <3>2. CASE ~reset.link[p]
      BY <1>4, <3>2, Zenon
    <3> QED BY <3>1, <3>2, Zenon
  <2> HIDE DEF reset
  <2>3. /\ set \in HbaType /\ Elsewhere(reset, set, p)
        /\ master \in HbaType /\ Elsewhere(reset, master, p)
    BY <2>1, ProgramPortFacts, Zenon
  <2>4. /\ started \in HbaType /\ Elsewhere(reset, started, p)
        /\ CanDma(started, p) /\ started.cmd = reset.cmd
    BY <2>1, StartedFacts, Zenon
  <2> HIDE DEF set, master, started
  <2>5. Elsewhere(h, set, p) /\ Elsewhere(h, master, p) /\ Elsewhere(h, started, p)
    BY <2>1, <2>3, <2>4, ElsewhereTrans, Zenon
  <2>6. \/ r.ok = FALSE /\ (r.h = reset \/ r.h = set \/ r.h = master \/ r.h = started)
        \/ r.ok = TRUE /\ r.h = started
    BY <2>2
  <2> QED BY <2>1, <2>3, <2>4, <2>5, <2>6, Zenon
<1> QED
  <2> HIDE DEF A, B
  <2> QED BY <1>2, <1>3, <1>4, Zenon

LEMMA ConstantFacts ==
  /\ PortCount \in Nat /\ IrqGenerations \in Nat \ {0} /\ GenerationLimit \in Nat
  /\ GenerationLimit >= 1 /\ NoPort \notin Ports /\ NoDrive \notin Drives
  /\ 1 \in 1..GenerationLimit /\ 0 \in 0..GenerationLimit /\ 0 \in 0..IrqGenerations
  BY AhciAssumption DEF Ports, NoPort, Drives, NoDrive

LEMMA FreshDriverFacts ==
  /\ FreshDriver \in DriverType /\ FreshDriver.port = NoPort /\ FreshDriver.gen = 1
  /\ \A q \in Ports : FreshDriver.table[q] = NoDrive /\ FreshDriver.valid[q] = 0
  BY ConstantFacts, Zenon DEF FreshDriver, DriverType

\* One port, and only while the driver has its pages and registers.
Owned(h, d) ==
    /\ \A p \in Ports : h.engine[p] \/ h.based[p] \/ h.ie[p] => p = d.port
    /\ d.port \in Ports => d.pages /\ d.mmio

\* disable_driver: whatever it cannot stop keeps the pages, and no device is
\* left in the table.
LEMMA DisableDriverFacts ==
  ASSUME NEW h \in HbaType, NEW d \in DriverType, Owned(h, d),
         NEW r \in DisableDriver(h, d)
  PROVE  /\ r.h \in HbaType /\ r.d \in DriverType /\ Owned(r.h, r.d)
         /\ r.d.gen = d.gen
         /\ \A q \in Ports : r.d.table[q] = NoDrive /\ r.d.valid[q] = 0
<1> DEFINE stops == IF d.mmio /\ d.port # NoPort
                    THEN {[h |-> IF s.ok THEN [s.h EXCEPT !.based[d.port] = FALSE]
                                         ELSE s.h, ok |-> s.ok]
                          : s \in StopPort([h EXCEPT !.ie[d.port] = FALSE], d.port)}
                    ELSE {[h |-> h, ok |-> TRUE]}
           off   == [d EXCEPT !.table = FreshDriver.table, !.valid = FreshDriver.valid,
                              !.active = NoPort, !.present = FALSE]
           Fn(s, q) == LET gone == Released(s.ok, q.ok)
                           mask == [s.h EXCEPT !.gie = IF d.mmio THEN FALSE ELSE @,
                                               !.master = q.master]
                       IN [h |-> mask,
                           d |-> [off EXCEPT !.closed = s.ok /\ q.ok,
                                     !.pages = @ /\ ~gone, !.mmio = @ /\ ~gone,
                                     !.port = IF gone THEN NoPort ELSE @]]
           Q(s) == {[ok |-> TRUE, master |-> FALSE], [ok |-> FALSE, master |-> FALSE],
                    [ok |-> FALSE, master |-> s.h.master]}
<1>1. DisableDriver(h, d) = UNION {{Fn(s, q) : q \in Q(s)} : s \in stops}
  BY Zenon DEF DisableDriver
<1>2. PICK s \in stops : \E q \in Q(s) : r = Fn(s, q)
  <2> HIDE DEF stops, Fn, Q
  <2> QED BY <1>1, Zenon
<1>3. PICK q \in Q(s) : r = Fn(s, q)
  BY <1>2, Zenon
<1>4. /\ s.h \in HbaType /\ s.ok \in BOOLEAN
      /\ \A p \in Ports : s.h.engine[p] \/ s.h.based[p] \/ s.h.ie[p] => p = d.port
      /\ s.ok => \A p \in Ports : ~s.h.engine[p] /\ ~s.h.based[p] /\ ~s.h.ie[p]
  <2>1. CASE d.mmio /\ d.port # NoPort
    <3>1. d.port \in Ports
      BY <2>1, Zenon DEF DriverType
    <3> DEFINE g == [h EXCEPT !.ie[d.port] = FALSE]
    <3>2. g \in HbaType /\ Elsewhere(h, g, d.port) /\ ~g.ie[d.port]
      BY <3>1, Zenon DEF HbaType, Elsewhere
    <3>3. PICK t \in StopPort(g, d.port) :
            s = [h |-> IF t.ok THEN [t.h EXCEPT !.based[d.port] = FALSE] ELSE t.h,
                 ok |-> t.ok]
      BY <1>2, <2>1, Zenon
    <3> HIDE DEF g
    <3>4. /\ t.h \in HbaType /\ t.ok \in BOOLEAN /\ Elsewhere(g, t.h, d.port)
          /\ ~t.h.ie[d.port] /\ (t.ok => ~t.h.engine[d.port])
      BY <3>1, <3>2, StopPortFacts DEF SameWiring
    <3>5. Elsewhere(h, t.h, d.port)
      BY <3>2, <3>4, ElsewhereTrans, Zenon
    <3> DEFINE k == t.h
               b == [k EXCEPT !.based[d.port] = FALSE]
    <3>6. k \in HbaType /\ k = t.h
      BY <3>4, Zenon
    <3>7. s.ok = t.ok /\ (t.ok => s.h = b) /\ (~t.ok => s.h = k)
      <4>1. s = [h |-> IF t.ok THEN b ELSE k, ok |-> t.ok]
        BY <3>3, Zenon
      <4> HIDE DEF b, k
      <4> QED BY <4>1, <3>4, Zenon
    <3> HIDE DEF k
    <3>8. /\ b \in HbaType /\ b.engine = k.engine /\ b.ie = k.ie
          /\ Elsewhere(k, b, d.port) /\ ~b.based[d.port]
      BY <3>1, <3>6, Zenon DEF HbaType, Elsewhere
    <3> HIDE DEF b
    <3>9. Elsewhere(h, b, d.port)
      BY <3>5, <3>6, <3>8, ElsewhereTrans, Zenon
    <3> QED BY <3>4, <3>5, <3>6, <3>7, <3>8, <3>9, Zenon DEF Elsewhere, Owned
  <2>2. CASE ~(d.mmio /\ d.port # NoPort)
    <3>1. s = [h |-> h, ok |-> TRUE]
      BY <1>2, <2>2, Zenon
    <3>2. d.port = NoPort
      BY <2>2, Zenon DEF DriverType, Owned
    <3> QED BY <3>1, <3>2, ConstantFacts, Zenon DEF Owned
  <2> QED BY <2>1, <2>2, Zenon
<1> HIDE DEF stops, Fn, Q
<1>5. q.ok \in BOOLEAN /\ q.master \in BOOLEAN
  <2> DEFINE k == s.h
  <2>1. k.master \in BOOLEAN
    BY <1>4, Zenon DEF HbaType
  <2>2. \E x, y \in BOOLEAN : q = [ok |-> x, master |-> y]
    <3>1. \/ q = [ok |-> TRUE, master |-> FALSE] \/ q = [ok |-> FALSE, master |-> FALSE]
          \/ q = [ok |-> FALSE, master |-> k.master]
      BY <1>3, Zenon DEF Q
    <3> HIDE DEF k
    <3> QED BY <2>1, <3>1, Zenon
  <2> QED BY <2>2
<1> DEFINE gone == s.ok /\ q.ok
           k    == s.h
           mask == [k EXCEPT !.gie = IF d.mmio THEN FALSE ELSE @, !.master = q.master]
           pg   == off.pages /\ ~gone
           mm   == off.mmio /\ ~gone
           po   == IF gone THEN NoPort ELSE off.port
           left == [off EXCEPT !.closed = gone, !.pages = pg, !.mmio = mm, !.port = po]
<1>6. r = [h |-> mask, d |-> left]
  BY <1>3, Zenon DEF Released, Fn
<1>7. k \in HbaType /\ k = s.h /\ gone \in BOOLEAN /\ (gone => s.ok)
  BY <1>4, <1>5, Zenon
<1>8. mask \in HbaType /\ mask.engine = k.engine /\ mask.based = k.based /\ mask.ie = k.ie
  <2> HIDE DEF k
  <2> QED BY <1>5, <1>7, Zenon DEF HbaType
<1>9. /\ off \in DriverType /\ off.table = FreshDriver.table
      /\ off.valid = FreshDriver.valid /\ off.pages = d.pages /\ off.mmio = d.mmio
      /\ off.port = d.port /\ off.gen = d.gen
  BY FreshDriverFacts, Zenon DEF DriverType
<1>10. pg \in BOOLEAN /\ mm \in BOOLEAN /\ po \in Ports \cup {NoPort}
  <2> HIDE DEF off, gone
  <2> QED BY <1>7, <1>9, Zenon DEF DriverType
<1>11. /\ left \in DriverType /\ left.table = off.table /\ left.valid = off.valid
       /\ left.gen = off.gen /\ left.port = po /\ left.pages = pg /\ left.mmio = mm
  <2> HIDE DEF off, gone, pg, mm, po
  <2> QED BY <1>7, <1>9, <1>10, ZenonT(30) DEF DriverType
<1>12. r.h = mask /\ r.d = left
  <2> HIDE DEF mask, left
  <2> QED BY <1>6, Zenon
<1> HIDE DEF mask, left, off, gone, k
<1>13. Owned(mask, left)
  <2>1. CASE gone
    BY <2>1, <1>4, <1>7, <1>8, <1>11, ConstantFacts, Zenon DEF Owned
  <2>2. CASE ~gone
    <3>1. left.port = d.port /\ left.pages = d.pages /\ left.mmio = d.mmio
      BY <2>2, <1>9, <1>11, Zenon DEF DriverType
    <3> QED BY <3>1, <1>4, <1>7, <1>8, Zenon DEF Owned
  <2> QED BY <2>1, <2>2, Zenon
<1>14. left.gen = d.gen /\ \A x \in Ports : left.table[x] = NoDrive /\ left.valid[x] = 0
  BY <1>9, <1>11, FreshDriverFacts, Zenon
<1> QED BY <1>8, <1>11, <1>12, <1>13, <1>14, Zenon

-----------------------------------------------------------------------------
(* The steps *)

LEMMA RequestFacts ==
  NoRequest \in RequestType /\ NoRequest.dev = NoPort /\ NoRequest.purpose = "probe"
  BY AhciAssumption, ConstantFacts, Zenon DEF NoRequest, RequestType, Purposes

LEMMA BlankFacts == Blank \in BounceType /\ ~Blank.full
  BY Zenon DEF Blank, BounceType

LEMMA IrqResetFacts ==
  IrqStateReset \in IrqType /\ ~IrqStateReset.enabled /\ ~IrqStateReset.active
  BY ConstantFacts, Zenon DEF IrqStateReset, IrqType

\* A controller to which ahci_init has done nothing yet.
LEMMA CandidateKeeps ==
  ASSUME NEW up \in [Ports -> BOOLEAN], hba' = [FreshHba EXCEPT !.link = up],
         drv' = FreshDriver, irq' = IrqStateReset, recov' = "none",
         req' \in RequestType, bounce' \in BounceType, pc' = "prepare"
  PROVE  AhciInv'
<1> DEFINE k == [FreshHba EXCEPT !.link = up]
<1>1. /\ k \in HbaType /\ k.engine = FreshHba.engine /\ k.based = FreshHba.based
      /\ k.ie = FreshHba.ie
  BY FreshHbaFacts, Zenon DEF HbaType
<1>2. hba' = k
  BY Zenon
<1> HIDE DEF k
<1>3. Types'
  BY <1>1, <1>2, FreshDriverFacts, IrqResetFacts, Zenon DEF Types
<1>4. ~InUse' /\ ~Commanding'
  BY Zenon DEF InUse, Commanding
<1>5. PortInv'
  BY <1>1, <1>2, <1>4, FreshHbaFacts, FreshDriverFacts, ConstantFacts, Zenon
  DEF PortInv, OnePortOwnsThePages
<1>6. DriveInv'
  BY FreshDriverFacts DEF DriveInv
<1>7. DeviceInv' /\ RecoveryInv' /\ SlotInv' /\ IrqInv' /\ DeliversOwnData'
  BY <1>4, IrqResetFacts, Zenon DEF DeviceInv, RecoveryInv, SlotInv, IrqInv,
     DeliversOwnData
<1> QED BY <1>3, <1>5, <1>6, <1>7, Zenon DEF AhciInv

LEMMA IssueRefusedKeeps ==
  ASSUME AhciInv, IssueRefused
  PROVE  AhciInv'
<1>1. /\ hba' = hba /\ drv' = drv /\ irq' = irq /\ recov' = recov /\ bounce' = bounce
      /\ pc = "issue" /\ pc' = "issued"
  BY Zenon DEF IssueRefused
<1>2. /\ req' \in RequestType /\ req'.purpose = req.purpose /\ req'.dev = req.dev
      /\ req'.ok = FALSE
  BY Zenon DEF IssueRefused, AhciInv, Types, RequestType
<1>3. Types'
  BY <1>1, <1>2, Zenon DEF AhciInv, Types
<1>4. PortInv' /\ DeviceInv' /\ DriveInv'
  BY <1>1, <1>2, Zenon DEF AhciInv, PortInv, OnePortOwnsThePages, DeviceInv, DriveInv,
     Unsure, Probing, InUse, Commanding
<1>5. RecoveryInv' /\ SlotInv' /\ IrqInv' /\ DeliversOwnData'
  BY <1>1, <1>2, Zenon DEF AhciInv, RecoveryInv, SlotInv, IrqInv, DeliversOwnData, Probing,
     InUse, Commanding
<1> QED BY <1>3, <1>4, <1>5, Zenon DEF AhciInv

LEMMA PrepareKeeps ==
  ASSUME AhciInv, Prepare
  PROVE  AhciInv'
<1>1. /\ hba' = hba /\ irq' = irq /\ recov' = recov /\ req' = req /\ bounce' = Blank
      /\ pc = "prepare" /\ pc' \in {"probe", "disable"}
  BY Zenon DEF Prepare
<1>2. PICK mmio \in BOOLEAN, pages \in BOOLEAN :
        /\ drv' = [drv EXCEPT !.mmio = mmio, !.pages = pages]
        /\ pc' = "probe" => mmio /\ pages
  BY Zenon DEF Prepare
<1>3. /\ drv' \in DriverType /\ drv'.port = drv.port /\ drv'.mmio = mmio
      /\ drv'.pages = pages /\ drv'.table = drv.table /\ drv'.valid = drv.valid
      /\ drv'.gen = drv.gen
  BY <1>2, Zenon DEF AhciInv, Types, DriverType
<1>4. Types'
  BY <1>1, <1>2, <1>3, BlankFacts, ConstantFacts, Zenon DEF AhciInv, Types
<1>5. PortInv'
  BY <1>1, <1>2, <1>3, BlankFacts, ConstantFacts, Zenon DEF AhciInv, PortInv,
     OnePortOwnsThePages, InUse, Commanding
<1>6. DeviceInv' /\ DriveInv'
  BY <1>1, <1>2, <1>3, BlankFacts, ConstantFacts DEF AhciInv, DeviceInv,
     DriveInv, Unsure, Probing, Devices, InUse, Commanding
<1>7. RecoveryInv' /\ SlotInv' /\ IrqInv' /\ DeliversOwnData'
  BY <1>1, <1>2, <1>3, BlankFacts, ConstantFacts, Zenon DEF AhciInv, RecoveryInv,
     SlotInv, IrqInv, DeliversOwnData, Answer, Probing, InUse, Commanding
<1> QED BY <1>4, <1>5, <1>6, <1>7, Zenon DEF AhciInv

LEMMA ProbeSkipKeeps ==
  ASSUME AhciInv, ProbeSkip
  PROVE  AhciInv'
<1>1. /\ hba' = hba /\ drv' = drv /\ irq' = irq /\ recov' = recov /\ bounce' = bounce
      /\ pc = "probe" /\ pc' = "probe"
  BY Zenon DEF ProbeSkip
<1>2. req' \in RequestType
  BY DEF ProbeSkip, AhciInv, Types, RequestType
<1>3. Types'
  BY <1>1, <1>2, Zenon DEF AhciInv, Types
<1>4. PortInv'
  BY <1>1, <1>2, Zenon DEF AhciInv, PortInv, OnePortOwnsThePages, InUse, Commanding
<1>5. DeviceInv' /\ DriveInv'
  BY <1>1, <1>2, Zenon DEF AhciInv, DeviceInv, DriveInv, Unsure, Probing, Devices,
     InUse, Commanding
<1>6. RecoveryInv' /\ SlotInv' /\ IrqInv' /\ DeliversOwnData'
  BY <1>1, <1>2, Zenon DEF AhciInv, RecoveryInv, SlotInv, IrqInv, DeliversOwnData,
     Answer, Probing, InUse, Commanding
<1> QED BY <1>3, <1>4, <1>5, <1>6, Zenon DEF AhciInv

LEMMA RequestKeeps ==
  ASSUME AhciInv, NEW d \in Ports, NEW flags \in BOOLEAN, Request(d, flags)
  PROVE  AhciInv'
<1>1. /\ hba' = hba /\ drv' = drv /\ irq' = irq /\ recov' = recov /\ bounce' = bounce
      /\ pc = "idle" /\ pc' = "activate" /\ drv.present /\ d \in Devices
  BY Zenon DEF Request
<1>2. req' \in RequestType /\ req'.dev = d
  BY Zenon DEF Request, AhciInv, Types, RequestType
<1>3. Types'
  BY <1>1, <1>2, Zenon DEF AhciInv, Types
<1>4. PortInv'
  BY <1>1, <1>2, Zenon DEF AhciInv, PortInv, OnePortOwnsThePages, InUse, Commanding
<1>5. DeviceInv' /\ DriveInv'
  BY <1>1, <1>2, Zenon DEF AhciInv, DeviceInv, DriveInv, Unsure, Probing, Devices,
     InUse, Commanding
<1>6. RecoveryInv' /\ SlotInv' /\ IrqInv' /\ DeliversOwnData'
  BY <1>1, <1>2, Zenon DEF AhciInv, RecoveryInv, SlotInv, IrqInv, DeliversOwnData,
     Answer, Probing, InUse, Commanding
<1> QED BY <1>3, <1>4, <1>5, <1>6, Zenon DEF AhciInv

LEMMA AlreadyActiveKeeps ==
  ASSUME AhciInv, AlreadyActive
  PROVE  AhciInv'
<1>1. /\ hba' = hba /\ drv' = drv /\ irq' = irq /\ recov' = recov /\ bounce' = bounce
      /\ pc = "activate" /\ pc' = "issue" /\ drv.active = req.dev
  BY Zenon DEF AlreadyActive
<1>2. req' \in RequestType /\ req'.dev = req.dev /\ req'.purpose = "read"
  BY Zenon DEF AlreadyActive, AhciInv, Types, RequestType, Purposes
<1>3. Types'
  BY <1>1, <1>2, Zenon DEF AhciInv, Types
<1>4. PortInv'
  BY <1>1, <1>2, Zenon DEF AhciInv, PortInv, OnePortOwnsThePages, InUse, Commanding
<1>5. DeviceInv' /\ DriveInv'
  BY <1>1, <1>2, Zenon DEF AhciInv, DeviceInv, DriveInv, Unsure, Probing, Devices,
     InUse, Commanding
<1>6. RecoveryInv' /\ SlotInv' /\ IrqInv' /\ DeliversOwnData'
  BY <1>1, <1>2, Zenon DEF AhciInv, RecoveryInv, SlotInv, IrqInv, DeliversOwnData,
     Answer, Probing, InUse, Commanding
<1> QED BY <1>3, <1>4, <1>5, <1>6 DEF AhciInv

LEMMA NewsSeenKeeps ==
  ASSUME AhciInv, NewsSeen \/ WaitExpired
  PROVE  AhciInv'
<1>1. /\ hba' = hba /\ drv' = drv /\ irq' = irq /\ recov' = recov /\ bounce' = bounce
      /\ pc = "wait" /\ pc' = "judge"
  BY Zenon DEF NewsSeen, WaitExpired
<1>2. IrqObserve(irq, req.gen) \in {"none", "complete", "error"}
  BY Zenon DEF IrqObserve
<1>3. PICK seen \in {"none", "complete", "error"} : req' = [req EXCEPT !.seen = seen]
  BY <1>2, Zenon DEF NewsSeen, WaitExpired
<1>4. /\ req' \in RequestType /\ req'.dev = req.dev /\ req'.purpose = req.purpose
      /\ req'.useIrq = req.useIrq /\ req'.gen = req.gen
  BY <1>3, Zenon DEF AhciInv, Types, RequestType
<1>5. Types'
  BY <1>1, <1>4, Zenon DEF AhciInv, Types
<1>6. PortInv'
  BY <1>1, <1>4, Zenon DEF AhciInv, PortInv, OnePortOwnsThePages, InUse, Commanding
<1>7. DeviceInv' /\ DriveInv'
  BY <1>1, <1>4, Zenon DEF AhciInv, DeviceInv, DriveInv, Unsure, Probing, Devices,
     InUse, Commanding
<1>8. RecoveryInv' /\ SlotInv' /\ IrqInv' /\ DeliversOwnData'
  BY <1>1, <1>4, Zenon DEF AhciInv, RecoveryInv, SlotInv, IrqInv, DeliversOwnData,
     Answer, Probing, InUse, Commanding
<1> QED BY <1>5, <1>6, <1>7, <1>8, Zenon DEF AhciInv

LEMMA IssueKeeps ==
  ASSUME AhciInv, Issue
  PROVE  AhciInv'
<1> DEFINE p == drv.port
           useIrq == irq.enabled /\ req.flags
<1>1. /\ drv' = drv /\ recov' = recov /\ bounce' = Blank
      /\ pc = "issue" /\ pc' = "wait"
  BY Zenon DEF Issue
<1>2. p \in Ports /\ useIrq \in BOOLEAN
  BY <1>1, Zenon DEF AhciInv, Types, PortInv, Commanding, IrqType, RequestType
<1>3. /\ irq' \in IrqType /\ irq'.enabled = irq.enabled
      /\ useIrq => irq'.active /\ irq'.obs = {}
      /\ ~useIrq => irq' = irq
  <2>1. CASE useIrq
    <3>1. irq' = IrqBegin(irq)
      BY <2>1, Zenon DEF Issue
    <3>2. (irq.gen % IrqGenerations) + 1 \in 0..IrqGenerations
      BY ConstantFacts DEF AhciInv, Types, IrqType
    <3> QED BY <2>1, <3>1, <3>2, ConstantFacts, Zenon DEF IrqBegin, AhciInv, Types, IrqType
  <2>2. CASE ~useIrq
    BY <2>2, Zenon DEF Issue, AhciInv, Types
  <2> QED BY <2>1, <2>2, Zenon
<1>4. /\ req' \in RequestType /\ req'.purpose = req.purpose /\ req'.dev = req.dev
      /\ req'.useIrq = useIrq /\ (useIrq => req'.gen = irq'.gen)
  <2> DEFINE g == IF useIrq THEN irq'.gen ELSE 0
  <2>1. req' = [req EXCEPT !.useIrq = useIrq, !.gen = g, !.ok = FALSE]
    BY Zenon DEF Issue
  <2>2. g \in 0..IrqGenerations /\ (useIrq => g = irq'.gen)
    BY <1>3, ConstantFacts, Zenon DEF IrqType
  <2> HIDE DEF g, useIrq
  <2> QED BY <1>2, <2>1, <2>2, Zenon DEF AhciInv, Types, RequestType
<1>5. Kind(req.purpose) \in {"identify", "read"} /\ Kind(req'.purpose) = Kind(req.purpose)
  BY <1>4, Zenon DEF Kind
<1>6. /\ hba' \in HbaType /\ hba'.engine = hba.engine /\ hba'.based = hba.based
      /\ hba'.master = hba.master /\ hba'.ie = hba.ie /\ hba'.gie = hba.gie
      /\ hba'.drive = hba.drive /\ hba'.status[p] = {} /\ hba'.cmd[p] = Kind(req.purpose)
  <2> DEFINE k == Kind(req.purpose)
  <2>1. hba' = [ClearPending(hba, p) EXCEPT !.cmd[p] = k]
    BY Zenon DEF Issue
  <2> HIDE DEF p, k
  <2> QED BY <1>2, <1>5, <2>1, Zenon DEF AhciInv, Types, HbaType, ClearPending, k
<1>7. irq.active => FALSE
  BY <1>1, Zenon DEF AhciInv, IrqInv
<1> HIDE DEF useIrq
<1>8. useIrq => irq.enabled
  BY Zenon DEF useIrq
<1>9. Types'
  BY <1>1, <1>2, <1>3, <1>4, <1>5, <1>6, <1>7, <1>8, BlankFacts, Zenon DEF AhciInv, Types
<1>10. PortInv'
  BY <1>1, <1>2, <1>3, <1>4, <1>5, <1>6, <1>7, <1>8, BlankFacts, Zenon
  DEF AhciInv, PortInv, OnePortOwnsThePages, CanDma, InUse, Commanding
<1>11. DeviceInv' /\ DriveInv'
  BY <1>1, <1>2, <1>3, <1>4, <1>5, <1>6, <1>7, <1>8, BlankFacts
  DEF AhciInv, DeviceInv, DriveInv, Unsure, Probing, Devices, InUse, Commanding
<1>12. RecoveryInv' /\ SlotInv' /\ IrqInv' /\ DeliversOwnData'
  BY <1>1, <1>2, <1>3, <1>4, <1>5, <1>6, <1>7, <1>8, BlankFacts, Zenon
  DEF AhciInv, RecoveryInv, SlotInv, IrqInv, DeliversOwnData, Answer, Probing,
     InUse, Commanding
<1> QED BY <1>9, <1>10, <1>11, <1>12 DEF AhciInv

LEMMA JudgeKeeps ==
  ASSUME AhciInv, Judge
  PROVE  AhciInv'
<1> DEFINE p == drv.port
<1>1. /\ drv' = drv /\ recov' = recov /\ bounce' = bounce
      /\ pc = "judge" /\ pc' = "issued"
  BY Zenon DEF Judge
<1>2. p \in Ports
  BY <1>1, Zenon DEF AhciInv, PortInv, Commanding
<1>3. /\ irq' \in IrqType /\ irq'.enabled = irq.enabled /\ ~irq'.active
  <2>1. CASE req.useIrq
    <3>1. irq.active /\ irq.gen = req.gen
      BY <1>1, <2>1, Zenon DEF AhciInv, IrqInv
    <3>2. irq' = [irq EXCEPT !.active = FALSE, !.obsGen = 0, !.obs = {}]
      BY <2>1, <3>1, Zenon DEF Judge, IrqFinish
    <3> QED BY <3>2, ConstantFacts, Zenon DEF AhciInv, Types, IrqType
  <2>2. CASE ~req.useIrq
    BY <1>1, <2>2, Zenon DEF Judge, AhciInv, Types, IrqInv
  <2> QED BY <2>1, <2>2, Zenon
<1>4. /\ req' \in RequestType /\ req'.purpose = req.purpose /\ req'.dev = req.dev
      /\ req'.ok = Judgement
  <2> DEFINE j == Judgement
  <2>1. j \in BOOLEAN
    BY Zenon DEF Judgement
  <2>2. req' = [req EXCEPT !.ok = j, !.useIrq = FALSE, !.gen = 0, !.seen = "none"]
    BY Zenon DEF Judge
  <2> HIDE DEF j
  <2>3. /\ req' \in RequestType /\ req'.purpose = req.purpose /\ req'.dev = req.dev
        /\ req'.ok = j
    BY <2>1, <2>2, ConstantFacts, Zenon DEF AhciInv, Types, RequestType
  <2> QED BY <2>3, Zenon DEF j
<1>5. Judgement => bounce.full /\ hba.cmd[p] = "none"
  BY Zenon DEF Judgement
<1>6. /\ hba' \in HbaType /\ hba'.engine = hba.engine /\ hba'.based = hba.based
      /\ hba'.master = hba.master /\ hba'.ie = hba.ie /\ hba'.gie = hba.gie
      /\ hba'.drive = hba.drive /\ hba'.cmd = hba.cmd
  <2>1. hba' = ClearPending(hba, p) /\ hba \in HbaType
    BY Zenon DEF Judge, AhciInv, Types
  <2> QED BY <1>2, <2>1, ClearPendingFacts, Zenon DEF SameWiring
<1>7. Answer' = Answer
  BY <1>1, <1>4, <1>6, Zenon DEF Answer
<1>8. Types'
  BY <1>1, <1>2, <1>3, <1>4, <1>5, <1>6, <1>7, Zenon DEF AhciInv, Types
<1>9. PortInv'
  BY <1>1, <1>2, <1>3, <1>4, <1>5, <1>6, <1>7, Zenon DEF AhciInv, PortInv,
     OnePortOwnsThePages, CanDma, InUse, Commanding
<1>10. DeviceInv' /\ DriveInv'
  BY <1>1, <1>2, <1>3, <1>4, <1>5, <1>6, <1>7 DEF AhciInv, DeviceInv, DriveInv,
     Unsure, Probing, Devices, InUse, Commanding
<1>11. RecoveryInv' /\ SlotInv' /\ IrqInv' /\ DeliversOwnData'
  BY <1>1, <1>2, <1>3, <1>4, <1>5, <1>6, <1>7, Zenon DEF AhciInv, RecoveryInv, SlotInv,
     IrqInv, DeliversOwnData, Probing, InUse, Commanding
<1> QED BY <1>8, <1>9, <1>10, <1>11 DEF AhciInv

LEMMA RevalidatedKeeps ==
  ASSUME AhciInv, Revalidated
  PROVE  AhciInv'
<1>1. /\ hba' = hba /\ irq' = irq /\ recov' = recov /\ bounce' = bounce
      /\ pc = "issued" /\ req.purpose = "revalidate"
  BY Zenon DEF Revalidated
<1>2. CASE Identified
  <2>1. req.dev \in Ports /\ drv.port = req.dev /\ drv.present
    BY <1>1, Zenon DEF AhciInv, DeviceInv, PortInv, Commanding
  <2>2. /\ drv' \in DriverType /\ drv'.port = drv.port /\ drv'.mmio = drv.mmio
        /\ drv'.pages = drv.pages /\ drv'.table = drv.table /\ drv'.gen = drv.gen
        /\ drv'.valid = [drv.valid EXCEPT ![req.dev] = drv.gen]
        /\ drv'.active = req.dev /\ drv'.present = drv.present
        /\ drv'.baseline = drv.baseline /\ drv.gen \in 1..GenerationLimit
    <3> DEFINE n == req.dev
               g == drv.gen
               v == [drv.valid EXCEPT ![n] = g]
    <3>1. drv' = [drv EXCEPT !.valid = v, !.active = n]
      BY <1>2, Zenon DEF Revalidated
    <3>2. g \in 1..GenerationLimit /\ n \in Ports \cup {NoPort}
      BY <2>1, Zenon DEF AhciInv, Types, DriverType
    <3>3. v \in [Ports -> 0..GenerationLimit]
      <4> DEFINE w == drv.valid
      <4>1. w \in [Ports -> 0..GenerationLimit] /\ g \in 0..GenerationLimit
        BY <3>2, ConstantFacts DEF AhciInv, Types, DriverType
      <4> HIDE DEF g, n, w
      <4>2. [w EXCEPT ![n] = g] \in [Ports -> 0..GenerationLimit]
        BY <4>1, Zenon
      <4> QED BY <4>2, Zenon DEF w
    <3> HIDE DEF v, n
    <3>4. /\ drv' \in DriverType /\ drv'.port = drv.port /\ drv'.mmio = drv.mmio
          /\ drv'.pages = drv.pages /\ drv'.table = drv.table /\ drv'.gen = drv.gen
          /\ drv'.valid = v /\ drv'.active = n /\ drv'.present = drv.present
          /\ drv'.baseline = drv.baseline
      BY <3>1, <3>2, <3>3, Zenon DEF AhciInv, Types, DriverType
    <3> QED BY <3>2, <3>4, Zenon DEF v, n
  <2>3. /\ req' \in RequestType /\ req'.dev = req.dev /\ req'.purpose = "read"
        /\ pc' = "issue"
    BY <1>2 DEF Revalidated, AhciInv, Types, RequestType, Purposes
  <2>4. hba.cmd[drv.port] = "none" /\ hba.drive[drv.port] = drv.table[drv.port]
    BY <1>1, <1>2, <2>1 DEF Identified, AhciInv, SlotInv, DeviceInv, Answer,
       Commanding
  <2>5. drv.valid \in [Ports -> 0..GenerationLimit] /\ GenerationLimit \in Nat
    BY ConstantFacts, Zenon DEF AhciInv, Types, DriverType
  <2>6. Types'
    BY <1>1, <2>1, <2>2, <2>3, <2>4, <2>5, Zenon DEF AhciInv, Types
  <2>7. PortInv'
    BY <1>1, <2>1, <2>2, <2>3, <2>4, <2>5, Zenon DEF AhciInv, PortInv,
       OnePortOwnsThePages, InUse, Commanding
  <2>8. DeviceInv' /\ DriveInv'
    BY <1>1, <2>1, <2>2, <2>3, <2>4, <2>5 DEF AhciInv, DeviceInv, DriveInv,
       Unsure, Probing, Devices, InUse, Commanding
  <2>9. RecoveryInv' /\ SlotInv' /\ DeliversOwnData'
    BY <1>1, <2>1, <2>2, <2>3, <2>4, <2>5, Zenon DEF AhciInv, RecoveryInv, SlotInv,
       DeliversOwnData, Answer, Commanding
  <2>10. IrqInv'
    BY <1>1, <2>1, <2>2, <2>3, <2>4, <2>5, Zenon DEF AhciInv, IrqInv, Probing, InUse,
       Commanding
  <2> QED BY <2>6, <2>7, <2>8, <2>9, <2>10, Zenon DEF AhciInv
<1>3. CASE ~Identified
  <2>1. drv' = drv /\ req' = req /\ pc' = "disable"
    BY <1>3, Zenon DEF Revalidated
  <2> QED BY <1>1, <2>1, Zenon DEF AhciInv, Types, PortInv, OnePortOwnsThePages,
      DeviceInv, DriveInv, Unsure, RecoveryInv, SlotInv, IrqInv,
      DeliversOwnData, Probing, InUse, Commanding
<1> QED BY <1>2, <1>3, Zenon

LEMMA AdvanceFacts ==
  ASSUME AhciInv, NEW ok \in BOOLEAN, Advance(ok), recov \in {"port", "hba"}
  PROVE  /\ ok => pc' = "deliver" /\ recov' = "none"
         /\ ~ok /\ recov = "port" => pc' = "hbaReset" /\ recov' = "hba"
         /\ ~ok /\ recov = "hba" => pc' = "disable" /\ recov' = "closed"
  BY Zenon DEF Advance, RecoveryAdvance, RecoveryState, Stage

LEMMA ReadBackKeeps ==
  ASSUME AhciInv, ReadBack
  PROVE  AhciInv'
<1>1. /\ hba' = hba /\ drv' = drv /\ irq' = irq /\ req' = req /\ bounce' = bounce
      /\ pc = "issued" /\ req.purpose = "read"
  BY Zenon DEF ReadBack
<1>2. recov = "none"
  BY <1>1, Zenon DEF AhciInv, RecoveryInv, Commanding
<1>3. \/ req.ok /\ pc' = "deliver" /\ recov' = "none"
      \/ pc' = "portReset" /\ recov' = "port"
  BY <1>1, <1>2, Zenon DEF ReadBack, RecoveryBegin, Stage
<1>4. Types'
  BY <1>1, <1>2, <1>3, Zenon DEF AhciInv, Types
<1>5. PortInv'
  BY <1>1, <1>2, <1>3, Zenon DEF AhciInv, PortInv, OnePortOwnsThePages, InUse, Commanding
<1>6. DeviceInv' /\ DriveInv'
  BY <1>1, <1>2, <1>3, Zenon DEF AhciInv, DeviceInv, DriveInv, Unsure, Probing,
     Devices, InUse, Commanding
<1>7. RecoveryInv' /\ SlotInv' /\ IrqInv' /\ DeliversOwnData'
  BY <1>1, <1>2, <1>3 DEF AhciInv, RecoveryInv, SlotInv, IrqInv,
     DeliversOwnData, Answer, Kind, DeviceInv, DriveInv, Unsure, PortInv,
     Probing, InUse, Commanding
<1> QED BY <1>4, <1>5, <1>6, <1>7 DEF AhciInv

LEMMA RetryBackKeeps ==
  ASSUME AhciInv, RetryBack
  PROVE  AhciInv'
<1>1. /\ hba' = hba /\ drv' = drv /\ irq' = irq /\ req' = req /\ bounce' = bounce
      /\ pc = "issued" /\ req.purpose = "retry" /\ Advance(req.ok)
  BY Zenon DEF RetryBack
<1>2. recov \in {"port", "hba"} /\ req.ok \in BOOLEAN
  BY <1>1, Zenon DEF AhciInv, Types, RequestType, RecoveryInv, Commanding
<1>3. \/ req.ok /\ pc' = "deliver" /\ recov' = "none"
      \/ pc' = "hbaReset" /\ recov' = "hba"
      \/ pc' = "disable" /\ recov' = "closed"
  BY <1>1, <1>2, AdvanceFacts, Zenon
<1>4. Types'
  BY <1>1, <1>2, <1>3, Zenon DEF AhciInv, Types
<1>5. PortInv'
  BY <1>1, <1>2, <1>3, Zenon DEF AhciInv, PortInv, OnePortOwnsThePages, InUse, Commanding
<1>6. DeviceInv' /\ DriveInv'
  BY <1>1, <1>2, <1>3, Zenon DEF AhciInv, DeviceInv, DriveInv, Unsure, Probing,
     Devices, InUse, Commanding
<1>7. RecoveryInv' /\ SlotInv' /\ IrqInv' /\ DeliversOwnData'
  BY <1>1, <1>2, <1>3 DEF AhciInv, RecoveryInv, SlotInv, IrqInv,
     DeliversOwnData, Answer, Kind, DeviceInv, DriveInv, Unsure, PortInv,
     Probing, InUse, Commanding
<1> QED BY <1>4, <1>5, <1>6, <1>7 DEF AhciInv

LEMMA PortCheckedKeeps ==
  ASSUME AhciInv, PortChecked
  PROVE  AhciInv'
<1>1. /\ hba' = hba /\ drv' = drv /\ irq' = irq /\ bounce' = bounce
      /\ pc = "issued" /\ req.purpose = "portCheck"
  BY Zenon DEF PortChecked
<1>2. recov = "port"
  BY <1>1, Zenon DEF AhciInv, RecoveryInv, Commanding
<1>3. CASE Identified
  <2>1. /\ req' \in RequestType /\ req'.dev = req.dev /\ req'.purpose = "retry"
        /\ pc' = "issue" /\ recov' = "port"
    BY <1>2, <1>3 DEF PortChecked, AhciInv, Types, RequestType, Purposes
  <2>2. /\ hba.cmd[drv.port] = "none" /\ hba.drive[drv.port] = drv.table[drv.port]
        /\ drv.port \in Ports
    BY <1>1, <1>3 DEF Identified, AhciInv, SlotInv, DeviceInv,
       PortInv, Answer, InUse, Commanding
  <2> QED BY <1>1, <1>2, <2>1, <2>2, Zenon DEF AhciInv, Types, PortInv,
      OnePortOwnsThePages, DeviceInv, DriveInv, Unsure, RecoveryInv, SlotInv,
      IrqInv, DeliversOwnData, Answer, Kind, Probing, InUse, Commanding
<1>4. CASE ~Identified
  <2>1. req' = req /\ pc' = "hbaReset" /\ recov' = "hba"
    BY <1>2, <1>4, AdvanceFacts, Zenon DEF PortChecked
  <2> QED BY <1>1, <1>2, <2>1, Zenon DEF AhciInv, Types, PortInv, OnePortOwnsThePages,
      DeviceInv, DriveInv, Unsure, RecoveryInv, SlotInv, IrqInv,
      DeliversOwnData, Answer, Kind, Probing, InUse, Commanding
<1> QED BY <1>3, <1>4

LEMMA DeliverKeeps ==
  ASSUME AhciInv, Deliver
  PROVE  AhciInv'
<1>1. /\ hba' = hba /\ drv' = drv /\ irq' = irq /\ recov' = recov /\ bounce' = Blank
      /\ pc = "deliver" /\ pc' = "idle"
  BY Zenon DEF Deliver
<1>2. req' \in RequestType
  BY RequestFacts, Zenon DEF Deliver, RequestType
<1>3. Types'
  BY <1>1, <1>2, BlankFacts, Zenon DEF AhciInv, Types
<1>4. PortInv'
  BY <1>1, <1>2, BlankFacts, Zenon DEF AhciInv, PortInv, OnePortOwnsThePages, InUse,
     Commanding
<1>5. DeviceInv' /\ DriveInv'
  BY <1>1, <1>2, BlankFacts, Zenon DEF AhciInv, DeviceInv, DriveInv, Unsure, Probing,
     Devices, InUse, Commanding
<1>6. RecoveryInv' /\ SlotInv' /\ IrqInv' /\ DeliversOwnData'
  BY <1>1, <1>2, BlankFacts, Zenon DEF AhciInv, RecoveryInv, SlotInv, IrqInv,
     DeliversOwnData, Answer, Probing, InUse, Commanding
<1> QED BY <1>3, <1>4, <1>5, <1>6 DEF AhciInv

\* A port that can write is the selected one.
LEMMA WriterIsSelected ==
  ASSUME AhciInv, NEW p \in Ports, CanDma(hba, p)
  PROVE  p = drv.port
  BY Zenon DEF AhciInv, PortInv, OnePortOwnsThePages, CanDma

LEMMA CompleteKeeps ==
  ASSUME AhciInv, NEW p \in Ports, Complete(p)
  PROVE  AhciInv'
<1>1. /\ drv' = drv /\ irq' = irq /\ recov' = recov /\ req' = req /\ pc' = pc
      /\ CanDma(hba, p) /\ hba.cmd[p] # "none"
  BY Zenon DEF Complete
<1>2. p = drv.port
  BY <1>1, WriterIsSelected, Zenon
<1>3. PICK full \in BOOLEAN, sent \in BOOLEAN :
        /\ bounce' = [by |-> hba.cmd[p], port |-> p, drive |-> hba.drive[p], full |-> full]
        /\ hba' = [hba EXCEPT !.cmd[p] = "none",
                      !.status[p] = IF sent THEN @ \cup {"done"} ELSE @,
                      !.msi = @ \/ (sent /\ Interrupts(hba, p))]
  BY Zenon DEF Complete
<1>4. /\ hba' \in HbaType /\ hba'.engine = hba.engine /\ hba'.based = hba.based
      /\ hba'.master = hba.master /\ hba'.ie = hba.ie /\ hba'.gie = hba.gie
      /\ hba'.drive = hba.drive /\ hba'.cmd[p] = "none"
  <2> DEFINE st == IF sent THEN hba.status[p] \cup {"done"} ELSE hba.status[p]
             ms == hba.msi \/ (sent /\ Interrupts(hba, p))
  <2>1. hba' = [hba EXCEPT !.cmd[p] = "none", !.status[p] = st, !.msi = ms]
    BY <1>3, Zenon
  <2>2. st \in SUBSET {"done", "error"} /\ ms \in BOOLEAN
    BY Zenon DEF AhciInv, Types, HbaType, Interrupts
  <2> HIDE DEF st, ms
  <2> QED BY <2>1, <2>2, Zenon DEF AhciInv, Types, HbaType
<1>5. /\ bounce' \in BounceType /\ bounce'.full = full /\ bounce'.by = hba.cmd[p]
      /\ bounce'.port = p /\ bounce'.drive = hba.drive[p]
  BY <1>1, <1>3, Zenon DEF AhciInv, Types, HbaType, BounceType
<1>6. pc \in {"wait", "judge"} /\ bounce'.full => bounce' = Answer'
  <2> SUFFICES ASSUME pc \in {"wait", "judge"}, bounce'.full
               PROVE  bounce' = Answer'
    BY Zenon
  <2>1. hba.cmd[p] = Kind(req.purpose)
    BY <1>1, <1>2, Zenon DEF AhciInv, SlotInv
  <2>2. full = TRUE
    BY <1>5, Zenon
  <2>3. hba'.drive[drv'.port] = hba.drive[p] /\ drv'.port = p /\ req'.purpose = req.purpose
    BY <1>1, <1>2, <1>4, Zenon
  <2> QED BY <1>3, <2>1, <2>2, <2>3, Zenon DEF Answer
<1>7. pc \notin {"idle", "activate", "issue", "deliver"} /\ ~(pc = "issued" /\ req.ok)
  BY <1>1, <1>2, Zenon DEF AhciInv, SlotInv
<1>8. Types'
  BY <1>1, <1>2, <1>4, <1>5, <1>6, <1>7, Zenon DEF AhciInv, Types
<1>9. PortInv'
  BY <1>1, <1>2, <1>4, <1>5, <1>6, <1>7, Zenon DEF AhciInv, PortInv,
     OnePortOwnsThePages, CanDma, InUse, Commanding
<1>10. DeviceInv' /\ DriveInv'
  BY <1>1, <1>2, <1>4, <1>5, <1>6, <1>7, Zenon DEF AhciInv, DeviceInv, DriveInv,
     Unsure, Probing, Devices, InUse, Commanding
<1>11. RecoveryInv' /\ SlotInv' /\ IrqInv' /\ DeliversOwnData'
  BY <1>1, <1>2, <1>4, <1>5, <1>6, <1>7, Zenon DEF AhciInv, RecoveryInv, SlotInv,
     IrqInv, DeliversOwnData, Probing, InUse, Commanding
<1> QED BY <1>8, <1>9, <1>10, <1>11, Zenon DEF AhciInv

LEMMA ErrorKeeps ==
  ASSUME AhciInv, NEW p \in Ports, Error(p)
  PROVE  AhciInv'
<1>1. /\ drv' = drv /\ irq' = irq /\ recov' = recov /\ req' = req /\ pc' = pc
      /\ bounce' = bounce /\ CanDma(hba, p)
  BY Zenon DEF Error
<1>2. p = drv.port
  BY <1>1, WriterIsSelected, Zenon
<1>3. /\ hba' \in HbaType /\ hba'.engine = hba.engine /\ hba'.based = hba.based
      /\ hba'.master = hba.master /\ hba'.ie = hba.ie /\ hba'.gie = hba.gie
      /\ hba'.drive = hba.drive /\ hba'.cmd = hba.cmd
      /\ hba'.status[p] = hba.status[p] \cup {"error"}
  <2> DEFINE st == hba.status[p] \cup {"error"}
             ms == hba.msi \/ Interrupts(hba, p)
  <2>1. hba' = [hba EXCEPT !.status[p] = st, !.msi = ms]
    BY Zenon DEF Error
  <2>2. st \in SUBSET {"done", "error"} /\ ms \in BOOLEAN
    BY Zenon DEF AhciInv, Types, HbaType, Interrupts
  <2> HIDE DEF ms, st
  <2>3. /\ hba' \in HbaType /\ hba'.engine = hba.engine /\ hba'.based = hba.based
        /\ hba'.master = hba.master /\ hba'.ie = hba.ie /\ hba'.gie = hba.gie
        /\ hba'.drive = hba.drive /\ hba'.cmd = hba.cmd /\ hba'.status[p] = st
    BY <2>1, <2>2, ZenonT(30) DEF AhciInv, Types, HbaType
  <2> QED BY <2>3, Zenon DEF st
<1>4. "done" \in hba'.status[p] => "done" \in hba.status[p]
  BY <1>3, Zenon
<1>5. Answer' = Answer
  BY <1>1, <1>3, Zenon DEF Answer
<1>6. Types'
  BY <1>1, <1>2, <1>3, <1>4, <1>5, Zenon DEF AhciInv, Types
<1>7. PortInv'
  BY <1>1, <1>2, <1>3, <1>4, <1>5, Zenon DEF AhciInv, PortInv, OnePortOwnsThePages,
     CanDma, InUse, Commanding
<1>8. DeviceInv' /\ DriveInv'
  BY <1>1, <1>2, <1>3, <1>4, <1>5 DEF AhciInv, DeviceInv, DriveInv,
     Unsure, Probing, Devices, InUse, Commanding
<1>9. RecoveryInv' /\ SlotInv' /\ IrqInv' /\ DeliversOwnData'
  BY <1>1, <1>2, <1>3, <1>4, <1>5, Zenon DEF AhciInv, RecoveryInv, SlotInv, IrqInv,
     DeliversOwnData, Probing, InUse, Commanding
<1> QED BY <1>6, <1>7, <1>8, <1>9, Zenon DEF AhciInv

LEMMA IrqHandlerKeeps ==
  ASSUME AhciInv, IrqHandler
  PROVE  AhciInv'
<1>1. /\ drv' = drv /\ recov' = recov /\ req' = req /\ pc' = pc /\ bounce' = bounce
  BY Zenon DEF IrqHandler
<1>2. /\ hba' \in HbaType /\ hba'.engine = hba.engine /\ hba'.based = hba.based
      /\ hba'.master = hba.master /\ hba'.ie = hba.ie /\ hba'.gie = hba.gie
      /\ hba'.drive = hba.drive /\ hba'.cmd = hba.cmd
      /\ \A p \in Ports : hba'.status[p] \subseteq hba.status[p]
  <2>1. \/ hba' = [hba EXCEPT !.msi = FALSE]
        \/ drv.port \in Ports /\ hba' = [hba EXCEPT !.msi = FALSE, !.status[drv.port] = {}]
    BY Zenon DEF IrqHandler, AhciInv, Types, DriverType
  <2> DEFINE n == drv.port
  <2>2. CASE hba' = [hba EXCEPT !.msi = FALSE]
    BY <2>2, Zenon DEF AhciInv, Types, HbaType
  <2>3. CASE n \in Ports /\ hba' = [hba EXCEPT !.msi = FALSE, !.status[n] = {}]
    <3> HIDE DEF n
    <3> QED BY <2>3, Zenon DEF AhciInv, Types, HbaType
  <2> QED BY <2>1, <2>2, <2>3, Zenon
<1>3. /\ irq' \in IrqType /\ irq'.enabled = irq.enabled /\ irq'.active = irq.active
      /\ irq'.gen = irq.gen
      /\ \/ irq' = irq
         \/ drv.port \in Ports /\ irq'.obs = irq.obs \cup hba.status[drv.port]
  <2>1. \/ irq' = irq
        \/ /\ drv.port \in Ports
           /\ irq' = [irq EXCEPT !.obs = @ \cup hba.status[drv.port], !.obsGen = irq.gen]
    BY Zenon DEF IrqHandler, IrqRecord, AhciInv, Types, DriverType
  <2>2. CASE irq' = irq
    BY <2>2, Zenon DEF AhciInv, Types
  <2>3. CASE drv.port \in Ports
             /\ irq' = [irq EXCEPT !.obs = @ \cup hba.status[drv.port], !.obsGen = irq.gen]
    <3> DEFINE st == hba.status[drv.port]
               ob == irq.obs \cup st
    <3>1. ob \in SUBSET {"done", "error"} /\ irq' = [irq EXCEPT !.obs = ob, !.obsGen = irq.gen]
      BY <2>3, Zenon DEF AhciInv, Types, HbaType, IrqType
    <3> HIDE DEF ob
    <3>2. /\ irq' \in IrqType /\ irq'.enabled = irq.enabled /\ irq'.active = irq.active
          /\ irq'.gen = irq.gen /\ irq'.obs = ob
      BY <3>1, Zenon DEF AhciInv, Types, IrqType
    <3> QED BY <2>3, <3>2, Zenon DEF ob
  <2> QED BY <2>1, <2>2, <2>3, Zenon
<1>4. "done" \in irq'.obs => "done" \in irq.obs \/ "done" \in hba.status[drv.port]
  BY <1>3, Zenon
<1>5. Answer' = Answer
  BY <1>1, <1>2, Zenon DEF Answer
<1>6. Commanding => drv.port \in Ports
  BY Zenon DEF AhciInv, PortInv
<1>7. Types'
  BY <1>1, <1>2, <1>3, <1>4, <1>5, <1>6, Zenon DEF AhciInv, Types
<1>8. PortInv'
  BY <1>1, <1>2, <1>3, <1>4, <1>5, <1>6, Zenon DEF AhciInv, PortInv,
     OnePortOwnsThePages, CanDma, InUse, Commanding
<1>9. DeviceInv' /\ DriveInv'
  BY <1>1, <1>2, <1>3, <1>4, <1>5, <1>6 DEF AhciInv, DeviceInv,
     DriveInv, Unsure, Probing, Devices, InUse, Commanding
<1>10. RecoveryInv' /\ SlotInv' /\ IrqInv' /\ DeliversOwnData'
  BY <1>1, <1>2, <1>3, <1>4, <1>5, <1>6, Zenon DEF AhciInv, RecoveryInv, SlotInv,
     IrqInv, DeliversOwnData, Probing, InUse, Commanding
<1> QED BY <1>7, <1>8, <1>9, <1>10 DEF AhciInv

LEMMA IrqDisableFacts ==
  ASSUME NEW i \in IrqType
  PROVE  IrqDisable(i) \in IrqType /\ ~IrqDisable(i).enabled /\ ~IrqDisable(i).active
  BY ConstantFacts, Zenon DEF IrqDisable, IrqType

LEMMA EnableIrqModeKeeps ==
  ASSUME AhciInv, EnableIrqMode
  PROVE  AhciInv'
<1> DEFINE p == drv.port
           m == MaskHba(hba, p)
<1>1. /\ drv' = drv /\ recov' = recov /\ req' = req /\ bounce' = bounce
      /\ pc = "idle" /\ pc' = "idle"
  BY Zenon DEF EnableIrqMode
<1>2. p \in Ports /\ hba \in HbaType /\ irq \in IrqType
  BY <1>1, Zenon DEF AhciInv, Types, PortInv, InUse
<1>3. /\ m \in HbaType /\ Elsewhere(hba, m, p) /\ m.engine = hba.engine
      /\ m.based = hba.based /\ m.cmd = hba.cmd /\ m.master = hba.master
      /\ m.drive = hba.drive
  BY <1>2, MaskHbaFacts, Zenon
<1>4. /\ hba' \in HbaType /\ Elsewhere(hba, hba', p) /\ hba'.engine = hba.engine
      /\ hba'.based = hba.based /\ hba'.cmd = hba.cmd /\ hba'.master = hba.master
      /\ hba'.drive = hba.drive /\ irq' \in IrqType /\ ~irq'.active
      /\ irq'.enabled => hba'.ie[p] /\ hba'.gie
  <2>1. CASE hba' = m /\ irq' = IrqDisable(irq)
    <3> HIDE DEF m
    <3> QED BY <1>2, <1>3, <2>1, IrqDisableFacts, Zenon
  <2>2. ASSUME NEW e \in EnableHba(m, p), hba' = e.h,
               irq' = [IrqDisable(irq) EXCEPT !.enabled = e.ok]
        PROVE  <1>4!:
    <3> HIDE DEF m
    <3>1. /\ e.h \in HbaType /\ e.ok \in BOOLEAN /\ Elsewhere(m, e.h, p)
          /\ e.h.engine = m.engine /\ e.h.based = m.based /\ e.h.cmd = m.cmd
          /\ e.h.master = m.master /\ e.h.drive = m.drive
          /\ e.ok => e.h.ie[p] /\ e.h.gie
      BY <1>2, <1>3, EnableHbaFacts, Zenon
    <3>2. Elsewhere(hba, e.h, p)
      BY <1>3, <3>1, ElsewhereTrans, Zenon
    <3>3. irq' \in IrqType /\ ~irq'.active /\ irq'.enabled = e.ok
      BY <1>2, <2>2, <3>1, IrqDisableFacts, Zenon DEF IrqType
    <3> QED BY <1>3, <2>2, <3>1, <3>2, <3>3, Zenon
  <2> QED BY <2>1, <2>2, Zenon DEF EnableIrqMode
<1> HIDE DEF m
<1>5. Types'
  BY <1>1, <1>2, <1>4, Zenon DEF AhciInv, Types
<1>6. PortInv'
  BY <1>1, <1>2, <1>4, Zenon DEF AhciInv, PortInv, OnePortOwnsThePages, Elsewhere,
     CanDma, InUse, Commanding
<1>7. DeviceInv' /\ DriveInv'
  BY <1>1, <1>2, <1>4, Zenon DEF AhciInv, DeviceInv, DriveInv, Unsure, Probing,
     Devices, InUse, Commanding
<1>8. RecoveryInv' /\ SlotInv' /\ DeliversOwnData'
  BY <1>1, <1>2, <1>4, Zenon DEF AhciInv, RecoveryInv, SlotInv, DeliversOwnData,
     Answer, Commanding
<1>9. IrqInv'
  BY <1>1, <1>2, <1>4, Zenon DEF AhciInv, IrqInv, Probing, InUse, Commanding
<1> QED BY <1>5, <1>6, <1>7, <1>8, <1>9 DEF AhciInv

LEMMA ProbePortKeeps ==
  ASSUME AhciInv, ProbePort
  PROVE  AhciInv'
<1> DEFINE p == req.scan
<1>1. /\ irq' = irq /\ recov' = recov /\ bounce' = Blank /\ pc = "probe" /\ p \in Ports
  BY Zenon DEF ProbePort
<1>2. PICK s \in SelectPort(hba, p, FALSE) :
        /\ hba' = s.h /\ drv' = [drv EXCEPT !.port = s.port]
        /\ pc' = IF s.ok THEN "issue" ELSE "disable"
  BY Zenon DEF ProbePort
<1>3. Selected(hba, s, p, FALSE)
  BY <1>1, SelectPortFacts, Zenon DEF AhciInv, Types
<1>4. /\ s.h \in HbaType /\ s.ok \in BOOLEAN /\ s.port \in {p, NoPort}
      /\ Elsewhere(hba, s.h, p) /\ s.h.drive = hba.drive
      /\ s.port = NoPort => s.h = hba
      /\ s.ok => s.port = p /\ CanDma(s.h, p) /\ s.h.cmd[p] = "none"
  BY <1>3, Zenon DEF Selected
<1>5. /\ drv' \in DriverType /\ drv'.port = s.port /\ drv'.mmio = drv.mmio
      /\ drv'.pages = drv.pages /\ drv'.table = drv.table /\ drv'.valid = drv.valid
      /\ drv'.gen = drv.gen
  BY <1>1, <1>2, <1>4, Zenon DEF AhciInv, Types, DriverType
<1>6. req' \in RequestType /\ req'.purpose = "probe"
  BY Zenon DEF ProbePort, AhciInv, Types, RequestType, Purposes
<1>7. \/ s.ok /\ pc' = "issue"
      \/ ~s.ok /\ pc' = "disable"
  BY <1>2, <1>4, Zenon
<1>8. hba' = s.h /\ p # NoPort
  BY <1>1, <1>2, ConstantFacts, Zenon
<1> HIDE DEF p
<1>9. Types'
  BY <1>1, <1>4, <1>5, <1>6, <1>7, <1>8, BlankFacts, Zenon DEF AhciInv, Types
<1>10. PortInv'
  <2>1. drv.port = NoPort /\ drv.pages /\ drv.mmio
    BY <1>1, Zenon DEF AhciInv, PortInv
  <2>2. \A x \in Ports : ~hba.engine[x] /\ ~hba.based[x] /\ ~hba.ie[x]
    BY <2>1, ConstantFacts, Zenon DEF AhciInv, PortInv, OnePortOwnsThePages
  <2>3. OnePortOwnsThePages'
    BY <1>4, <1>5, <1>8, <2>2, Zenon DEF OnePortOwnsThePages, Elsewhere
  <2> QED BY <1>1, <1>4, <1>5, <1>7, <1>8, <2>1, <2>3, Zenon DEF PortInv, InUse, Commanding
<1>11. DeviceInv' /\ DriveInv'
  BY <1>1, <1>4, <1>5, <1>6, <1>7, <1>8, BlankFacts, ZenonT(30) DEF AhciInv, DeviceInv,
     DriveInv, Unsure, Probing, Devices, InUse, Commanding
<1>12. RecoveryInv' /\ SlotInv' /\ IrqInv' /\ DeliversOwnData'
  BY <1>1, <1>4, <1>5, <1>6, <1>7, <1>8, BlankFacts, Zenon DEF AhciInv, RecoveryInv,
     SlotInv, IrqInv, DeliversOwnData, Answer, Probing, InUse, Commanding
<1> QED BY <1>9, <1>10, <1>11, <1>12, Zenon DEF AhciInv

LEMMA ProbeDoneKeeps ==
  ASSUME AhciInv, ProbeDone
  PROVE  AhciInv'
<1> DEFINE p == drv.port
<1>1. /\ irq' = irq /\ recov' = recov /\ bounce' = bounce /\ pc = "issued"
      /\ req.purpose = "probe"
  BY Zenon DEF ProbeDone
<1>2. p \in Ports /\ p # NoPort /\ drv.pages /\ drv.mmio
  BY <1>1, ConstantFacts, Zenon DEF AhciInv, PortInv, Commanding
<1>3. PICK usable \in BOOLEAN, q \in QuiescePort(hba, p) :
        /\ hba' = q.h
        /\ drv' = [drv EXCEPT !.table[p] = IF req.ok /\ usable THEN bounce.drive ELSE @,
                       !.valid[p] = IF req.ok /\ usable THEN drv.gen ELSE @,
                       !.port = IF q.ok THEN NoPort ELSE @]
        /\ pc' = IF q.ok THEN "probe" ELSE "disable"
  BY Zenon DEF ProbeDone
<1>4. /\ q.h \in HbaType /\ q.ok \in BOOLEAN
      /\ Elsewhere(hba, q.h, p) /\ q.h.drive = hba.drive
      /\ q.ok => ~q.h.engine[p] /\ ~q.h.based[p] /\ ~q.h.ie[p]
  BY <1>2, QuiescePortFacts, Zenon DEF AhciInv, Types
<1> DEFINE add == req.ok /\ usable
           tp == IF add THEN bounce.drive ELSE drv.table[p]
           vp == IF add THEN drv.gen ELSE drv.valid[p]
           po == IF q.ok THEN NoPort ELSE drv.port
<1>5. drv' = [drv EXCEPT !.table[p] = tp, !.valid[p] = vp, !.port = po]
  BY <1>3, Zenon
<1>6. /\ tp \in Drives \cup {NoDrive} /\ vp \in 0..GenerationLimit
      /\ po \in Ports \cup {NoPort}
  BY <1>2, ConstantFacts DEF AhciInv, Types, DriverType, BounceType
<1>7. add => tp = hba.drive[p] /\ vp = drv.gen
  BY <1>1 DEF AhciInv, SlotInv, Answer
<1>8. ~add => tp = drv.table[p] /\ vp = drv.valid[p]
  BY Zenon
<1>9. po = IF q.ok THEN NoPort ELSE p
  BY Zenon
<1> HIDE DEF add, tp, vp, po
<1>10. /\ drv' \in DriverType /\ drv'.port = po /\ drv'.mmio = drv.mmio
       /\ drv'.pages = drv.pages /\ drv'.gen = drv.gen
       /\ drv'.table = [drv.table EXCEPT ![p] = tp]
       /\ drv'.valid = [drv.valid EXCEPT ![p] = vp]
  <2> DEFINE t == [drv.table EXCEPT ![p] = tp]
             v == [drv.valid EXCEPT ![p] = vp]
  <2>1. drv' = [drv EXCEPT !.table = t, !.valid = v, !.port = po]
    BY <1>5, Zenon
  <2>2. t \in [Ports -> Drives \cup {NoDrive}] /\ v \in [Ports -> 0..GenerationLimit]
    <3>1. /\ drv.table \in [Ports -> Drives \cup {NoDrive}]
          /\ drv.valid \in [Ports -> 0..GenerationLimit]
      BY Zenon DEF AhciInv, Types, DriverType
    <3> QED BY <1>6, <3>1, Zenon
  <2> HIDE DEF t, v
  <2>3. /\ drv' \in DriverType /\ drv'.port = po /\ drv'.mmio = drv.mmio
        /\ drv'.pages = drv.pages /\ drv'.gen = drv.gen /\ drv'.table = t /\ drv'.valid = v
    BY <1>6, <2>1, <2>2, Zenon DEF AhciInv, Types, DriverType
  <2> QED BY <2>3, Zenon DEF t, v
<1>11. req' \in RequestType
  BY DEF ProbeDone, AhciInv, Types, RequestType
<1>12. \/ q.ok /\ pc' = "probe" /\ drv'.port = NoPort
       \/ ~q.ok /\ pc' = "disable" /\ drv'.port = p
  BY <1>3, <1>4, <1>9, <1>10, Zenon
<1>13. hba' = q.h
  BY <1>3, Zenon
<1>14. /\ drv.table \in [Ports -> Drives \cup {NoDrive}] /\ GenerationLimit \in Nat
       /\ drv.valid \in [Ports -> 0..GenerationLimit] /\ drv.gen \in 1..GenerationLimit
  BY ConstantFacts, Zenon DEF AhciInv, Types, DriverType
<1> HIDE DEF p
<1>15. Types'
  BY <1>1, <1>2, <1>4, <1>10, <1>11, <1>12, <1>13, Zenon DEF AhciInv, Types
<1>16. PortInv'
  BY <1>1, <1>2, <1>4, <1>10, <1>11, <1>12, <1>13, Zenon DEF AhciInv, PortInv,
     OnePortOwnsThePages, Elsewhere, InUse, Commanding, p
<1>17. DriveInv'
  <2> SUFFICES ASSUME NEW x \in Ports
               PROVE  /\ drv'.valid[x] <= drv'.gen
                      /\ drv'.table[x] # NoDrive => drv'.valid[x] = drv'.gen
                      /\ drv'.table[x] # NoDrive => hba'.drive[x] = drv'.table[x]
    BY Zenon DEF DriveInv
  <2>1. /\ drv.valid[x] <= drv.gen
        /\ drv.table[x] # NoDrive => drv.valid[x] = drv.gen /\ hba.drive[x] = drv.table[x]
    BY <1>1, Zenon DEF AhciInv, DriveInv, Probing, Unsure, Commanding
  <2>2. CASE x = p
    BY <1>2, <1>4, <1>7, <1>8, <1>10, <1>13, <1>14, <2>1, <2>2
  <2>3. CASE x # p
    BY <1>4, <1>10, <1>13, <1>14, <2>1, <2>3, Zenon
  <2> QED BY <2>2, <2>3, Zenon
<1>18. DeviceInv' /\ RecoveryInv' /\ SlotInv' /\ IrqInv' /\ DeliversOwnData'
  BY <1>1, <1>2, <1>4, <1>10, <1>11, <1>12, <1>13, Zenon DEF AhciInv, DeviceInv,
     RecoveryInv, SlotInv, IrqInv, DeliversOwnData, Probing, InUse, Commanding
<1> QED BY <1>15, <1>16, <1>17, <1>18, Zenon DEF AhciInv

\* With no port selected, no port does anything.
LEMMA NothingRuns ==
  ASSUME AhciInv, drv.port = NoPort
  PROVE  \A x \in Ports : ~hba.engine[x] /\ ~hba.based[x] /\ ~hba.ie[x]
  BY ConstantFacts, Zenon DEF AhciInv, PortInv, OnePortOwnsThePages

LEMMA SwitchKeeps ==
  ASSUME AhciInv, Switch
  PROVE  AhciInv'
<1> DEFINE p == drv.port
<1>1. /\ irq' = irq /\ recov' = recov /\ req' = req /\ bounce' = bounce
      /\ pc = "activate"
  BY Zenon DEF Switch
<1>2. p \in Ports /\ p # NoPort /\ drv.pages /\ drv.mmio
  BY <1>1, ConstantFacts, Zenon DEF AhciInv, PortInv, InUse
<1>3. PICK q \in QuiescePort(hba, p) :
        /\ hba' = q.h
        /\ drv' = IF q.ok THEN [drv EXCEPT !.port = NoPort, !.active = NoPort] ELSE drv
        /\ pc' = IF q.ok THEN "select" ELSE "disable"
  BY Zenon DEF Switch
<1>4. /\ q.h \in HbaType /\ q.ok \in BOOLEAN
      /\ Elsewhere(hba, q.h, p) /\ q.h.drive = hba.drive
      /\ q.ok => ~q.h.engine[p] /\ ~q.h.based[p] /\ ~q.h.ie[p]
  BY <1>2, QuiescePortFacts, Zenon DEF AhciInv, Types
<1>5. /\ drv' \in DriverType /\ drv'.mmio = drv.mmio /\ drv'.pages = drv.pages
      /\ drv'.table = drv.table /\ drv'.valid = drv.valid /\ drv'.gen = drv.gen
      /\ drv'.present = drv.present
      /\ \/ q.ok /\ drv'.port = NoPort
         \/ ~q.ok /\ drv'.port = p
  <2>1. CASE q.ok
    BY <1>3, <2>1, ZenonT(30) DEF AhciInv, Types, DriverType
  <2>2. CASE ~q.ok
    BY <1>3, <2>2, Zenon DEF AhciInv, Types
  <2> QED BY <1>4, <2>1, <2>2, Zenon
<1>6. \/ q.ok /\ pc' = "select"
      \/ ~q.ok /\ pc' = "disable"
  BY <1>3, <1>4, Zenon
<1>7. hba' = q.h
  BY <1>3, Zenon
<1>8. Types'
  BY <1>1, <1>2, <1>4, <1>5, <1>6, <1>7, Zenon DEF AhciInv, Types
<1>9. PortInv'
  BY <1>1, <1>2, <1>4, <1>5, <1>6, <1>7, ZenonT(30) DEF AhciInv, PortInv,
     OnePortOwnsThePages, Elsewhere, InUse, Commanding
<1>10. DeviceInv' /\ DriveInv'
  BY <1>1, <1>2, <1>4, <1>5, <1>6, <1>7 DEF AhciInv, DeviceInv,
     DriveInv, Unsure, Probing, Devices, InUse, Commanding
<1>11. RecoveryInv' /\ SlotInv' /\ IrqInv' /\ DeliversOwnData'
  BY <1>1, <1>2, <1>4, <1>5, <1>6, <1>7, Zenon DEF AhciInv, RecoveryInv, SlotInv,
     IrqInv, DeliversOwnData, Answer, Probing, InUse, Commanding
<1> QED BY <1>8, <1>9, <1>10, <1>11, Zenon DEF AhciInv

LEMMA SelectKeeps ==
  ASSUME AhciInv, Select
  PROVE  AhciInv'
<1> DEFINE p == req.dev
           restore == irq.enabled
           fresh == drv.valid[p] = drv.gen
<1>1. recov' = recov /\ bounce' = Blank /\ pc = "select"
  BY Zenon DEF Select
<1>2. /\ p \in Ports /\ p # NoPort /\ drv.table[p] # NoDrive /\ drv.present
      /\ drv.port = NoPort /\ drv.pages /\ drv.mmio /\ restore \in BOOLEAN
  BY <1>1, ConstantFacts, Zenon DEF AhciInv, Types, IrqType, DeviceInv, PortInv, Devices
<1>3. PICK s \in SelectPort(hba, p, restore) :
        /\ hba' = s.h
        /\ irq' = IF s.irq = irq.enabled THEN irq ELSE IrqDisable(irq)
        /\ drv' = [drv EXCEPT !.port = s.port,
                      !.baseline = IF s.ok THEN drv.table[p] ELSE @,
                      !.active = IF s.ok /\ fresh THEN p ELSE NoPort]
        /\ req' = [req EXCEPT !.purpose = IF fresh THEN "read" ELSE "revalidate"]
        /\ pc' = IF s.ok THEN "issue" ELSE "disable"
  BY Zenon DEF Select
<1>4. Selected(hba, s, p, restore)
  BY <1>2, SelectPortFacts, Zenon DEF AhciInv, Types
<1>5. /\ s.h \in HbaType /\ s.ok \in BOOLEAN /\ s.port \in {p, NoPort}
      /\ Elsewhere(hba, s.h, p) /\ s.h.drive = hba.drive
      /\ s.port = NoPort => s.h = hba
      /\ s.ok => /\ s.port = p /\ CanDma(s.h, p) /\ s.h.cmd[p] = "none"
                 /\ s.irq = restore /\ (restore => s.h.ie[p] /\ s.h.gie)
  BY <1>4, Zenon DEF Selected
<1> DEFINE ac == IF s.ok /\ fresh THEN p ELSE NoPort
           bl == IF s.ok THEN drv.table[p] ELSE drv.baseline
           pu == IF fresh THEN "read" ELSE "revalidate"
<1>6. /\ drv' = [drv EXCEPT !.port = s.port, !.baseline = bl, !.active = ac]
      /\ req' = [req EXCEPT !.purpose = pu]
  BY <1>3, Zenon
<1>7. /\ ac \in Ports \cup {NoPort} /\ bl \in Drives \cup {NoDrive}
      /\ s.ok => bl = drv.table[p] /\ (fresh => ac = p)
      /\ fresh => pu = "read"
      /\ ~fresh => pu = "revalidate"
  BY <1>2, <1>5, Zenon DEF AhciInv, Types, DriverType
<1>8. (fresh => drv.valid[p] = drv.gen) /\ fresh \in BOOLEAN
  BY Zenon
<1> HIDE DEF ac, bl, pu, fresh
<1>9. /\ drv' \in DriverType /\ drv'.port = s.port /\ drv'.mmio = drv.mmio
      /\ drv'.pages = drv.pages /\ drv'.table = drv.table /\ drv'.valid = drv.valid
      /\ drv'.gen = drv.gen /\ drv'.present = drv.present /\ drv'.active = ac
      /\ drv'.baseline = bl
  BY <1>2, <1>5, <1>6, <1>7, Zenon DEF AhciInv, Types, DriverType
<1>10. /\ req' \in RequestType /\ req'.dev = p /\ req'.purpose = pu
       /\ pu \in {"read", "revalidate"}
  BY <1>6, <1>7, <1>8, Zenon DEF AhciInv, Types, RequestType, Purposes
<1>11. /\ irq' \in IrqType /\ ~irq'.active
       /\ s.ok => irq'.enabled = restore
  <2>1. irq \in IrqType /\ ~irq.active
    BY <1>1, Zenon DEF AhciInv, Types, IrqInv
  <2>2. irq' = irq \/ irq' = IrqDisable(irq)
    BY <1>3, Zenon
  <2>3. s.ok => irq' = irq
    BY <1>3, <1>5, Zenon
  <2> QED BY <2>1, <2>2, <2>3, IrqDisableFacts, Zenon
<1>12. \/ s.ok /\ pc' = "issue" /\ drv'.port = p
       \/ ~s.ok /\ pc' = "disable"
  BY <1>3, <1>5, <1>9, Zenon
<1>13. hba' = s.h /\ recov = "none"
  BY <1>1, <1>3, Zenon DEF AhciInv, RecoveryInv
<1> HIDE DEF p, restore
<1>14. Types'
  BY <1>1, <1>5, <1>9, <1>10, <1>11, <1>12, <1>13, BlankFacts, Zenon DEF AhciInv, Types
<1>15. PortInv'
  <2>1. OnePortOwnsThePages'
    BY <1>2, <1>5, <1>9, <1>13, NothingRuns, Zenon DEF OnePortOwnsThePages, Elsewhere
  <2> QED BY <1>2, <1>5, <1>9, <1>12, <1>13, <2>1, Zenon DEF PortInv, InUse, Commanding
<1>16. DeviceInv'
  BY <1>2, <1>7, <1>8, <1>9, <1>10, <1>12, Zenon DEF DeviceInv, InUse, Commanding
<1>17. DriveInv'
  BY <1>1, <1>5, <1>9, <1>10, <1>12, <1>13
  DEF AhciInv, DriveInv, Unsure, Probing, Commanding
<1>18. RecoveryInv' /\ SlotInv' /\ IrqInv' /\ DeliversOwnData'
  BY <1>1, <1>5, <1>10, <1>11, <1>12, <1>13, Zenon DEF AhciInv, RecoveryInv, SlotInv,
     IrqInv, DeliversOwnData, Probing, InUse, Commanding
<1> QED BY <1>14, <1>15, <1>16, <1>17, <1>18, Zenon DEF AhciInv

LEMMA PortResetKeeps ==
  ASSUME AhciInv, PortReset
  PROVE  AhciInv'
<1> DEFINE p == drv.port
<1>1. /\ drv' = drv /\ irq' = irq /\ bounce' = bounce /\ pc = "portReset"
  BY Zenon DEF PortReset
<1>2. p \in Ports /\ recov = "port" /\ CanDma(hba, p) /\ ~irq.active
  BY <1>1, Zenon DEF AhciInv, PortInv, RecoveryInv, IrqInv, InUse
<1>3. PICK r \in ResetPortLink(hba, p) :
        /\ hba' = r.h
        /\ IF r.ok THEN pc' = "issue" /\ recov' = recov ELSE Advance(FALSE)
  BY Zenon DEF PortReset
<1>4. /\ r.h \in HbaType /\ r.ok \in BOOLEAN /\ Elsewhere(hba, r.h, p)
      /\ r.h.ie = hba.ie /\ r.h.gie = hba.gie
      /\ r.h.based = hba.based /\ r.h.master = hba.master
      /\ \A q \in Ports \ {p} : r.h.drive[q] = hba.drive[q]
      /\ r.ok => r.h.engine[p] /\ r.h.cmd[p] = "none"
  BY <1>2, ResetPortLinkFacts, Zenon DEF AhciInv, Types
<1>5. req' \in RequestType /\ req'.purpose = "portCheck" /\ req'.dev = req.dev
  BY Zenon DEF PortReset, AhciInv, Types, RequestType, Purposes
<1>6. \/ r.ok /\ pc' = "issue" /\ recov' = "port"
      \/ pc' = "hbaReset" /\ recov' = "hba"
  BY <1>2, <1>3, AdvanceFacts, ZenonT(30)
<1>7. hba' = r.h
  BY <1>3, Zenon
<1>8. Types'
  BY <1>1, <1>4, <1>5, <1>6, <1>7, Zenon DEF AhciInv, Types
<1>9. PortInv'
  BY <1>1, <1>2, <1>4, <1>6, <1>7, ZenonT(30) DEF AhciInv, PortInv, OnePortOwnsThePages,
     Elsewhere, CanDma, InUse, Commanding
<1>10. DeviceInv'
  BY <1>1, <1>5, <1>6, Zenon DEF AhciInv, DeviceInv, InUse, Commanding
<1>11. DriveInv'
  BY <1>1, <1>4, <1>5, <1>6, <1>7, ZenonT(30) DEF AhciInv, DriveInv, Unsure, Probing, Commanding
<1>12. RecoveryInv' /\ SlotInv' /\ IrqInv' /\ DeliversOwnData'
  BY <1>1, <1>2, <1>4, <1>5, <1>6, <1>7, Zenon DEF AhciInv, RecoveryInv, SlotInv, IrqInv,
     DeliversOwnData, Probing, InUse, Commanding
<1> QED BY <1>8, <1>9, <1>10, <1>11, <1>12, Zenon DEF AhciInv

LEMMA HbaResetKeeps ==
  ASSUME AhciInv, HbaResetStep
  PROVE  AhciInv'
<1> DEFINE p == drv.port
<1>1. /\ drv' = drv /\ irq' = IrqDisable(irq) /\ bounce' = Blank /\ pc = "hbaReset"
  BY Zenon DEF HbaResetStep
<1>2. p \in Ports /\ recov = "hba" /\ irq'  \in IrqType /\ ~irq'.active /\ ~irq'.enabled
  BY <1>1, IrqDisableFacts, Zenon DEF AhciInv, Types, PortInv, RecoveryInv, InUse
<1>3. PICK r \in HbaReset(hba, p) :
        /\ hba' = r.h
        /\ IF r.ok THEN pc' = "issue" /\ recov' = recov ELSE Advance(FALSE)
  BY Zenon DEF HbaResetStep
<1>4. /\ r.h \in HbaType /\ r.ok \in BOOLEAN /\ Elsewhere(hba, r.h, p)
      /\ r.ok => CanDma(r.h, p) /\ r.h.cmd[p] = "none"
  BY <1>2, HbaResetFacts, Zenon DEF AhciInv, Types
<1>5. req' \in RequestType /\ req'.purpose = "hbaCheck" /\ req'.dev = req.dev
  BY Zenon DEF HbaResetStep, AhciInv, Types, RequestType, Purposes, IrqType
<1>6. \/ r.ok /\ pc' = "issue" /\ recov' = "hba"
      \/ pc' = "disable" /\ recov' = "closed"
  BY <1>2, <1>3, AdvanceFacts, ZenonT(30)
<1>7. hba' = r.h
  BY <1>3
<1>8. Types'
  BY <1>1, <1>2, <1>4, <1>5, <1>6, <1>7, BlankFacts, Zenon DEF AhciInv, Types
<1>9. PortInv'
  BY <1>1, <1>2, <1>4, <1>6, <1>7, Zenon DEF AhciInv, PortInv, OnePortOwnsThePages,
     Elsewhere, InUse, Commanding
<1>10. DeviceInv'
  BY <1>1, <1>5, <1>6, Zenon DEF AhciInv, DeviceInv, InUse, Commanding
<1>11. DriveInv'
  BY <1>1, <1>5, <1>6, Zenon DEF AhciInv, DriveInv, Unsure, Probing, Commanding
<1>12. RecoveryInv' /\ SlotInv' /\ IrqInv' /\ DeliversOwnData'
  BY <1>1, <1>2, <1>4, <1>5, <1>6, <1>7, Zenon DEF AhciInv, RecoveryInv, SlotInv, IrqInv,
     DeliversOwnData, Probing, InUse, Commanding
<1> QED BY <1>8, <1>9, <1>10, <1>11, <1>12 DEF AhciInv

LEMMA HbaCheckedKeeps ==
  ASSUME AhciInv, HbaChecked
  PROVE  AhciInv'
<1> DEFINE p == drv.port
<1>1. bounce' = bounce /\ pc = "issued" /\ req.purpose = "hbaCheck"
  BY Zenon DEF HbaChecked
<1>2. /\ p \in Ports /\ recov = "hba" /\ CanDma(hba, p) /\ ~irq.active
      /\ drv.active = p
  BY <1>1, Zenon DEF AhciInv, PortInv, RecoveryInv, IrqInv, DeviceInv, InUse, Commanding
<1>3. CASE ~Identified \/ drv.gen = GenerationLimit
  <2>1. /\ hba' = hba /\ drv' = drv /\ irq' = irq /\ req' = req
        /\ pc' = "disable" /\ recov' = "closed"
    BY <1>2, <1>3, AdvanceFacts, Zenon DEF HbaChecked
  <2> QED BY <1>1, <1>2, <2>1, Zenon DEF AhciInv, Types, PortInv, OnePortOwnsThePages,
      DeviceInv, DriveInv, Unsure, RecoveryInv, SlotInv, IrqInv,
      DeliversOwnData, Probing, InUse, Commanding
<1>4. CASE Identified /\ drv.gen # GenerationLimit
  <2> DEFINE g == drv.gen
             v == [drv.valid EXCEPT ![p] = g + 1]
  <2>1. /\ drv.valid \in [Ports -> 0..GenerationLimit] /\ g \in 1..GenerationLimit
        /\ GenerationLimit \in Nat
    BY ConstantFacts, Zenon DEF AhciInv, Types, DriverType
  <2>2. drv' = [drv EXCEPT !.gen = g + 1, !.valid = v]
    BY <1>2, <1>4, Zenon DEF HbaChecked, NextGeneration
  <2>3. g + 1 \in 1..GenerationLimit
    BY <1>4, <2>1
  <2>4. v \in [Ports -> 0..GenerationLimit]
    <3> DEFINE w == drv.valid
    <3>1. w \in [Ports -> 0..GenerationLimit] /\ g + 1 \in 0..GenerationLimit
      BY <2>1, <2>3
    <3> HIDE DEF w, g
    <3>2. [w EXCEPT ![p] = g + 1] \in [Ports -> 0..GenerationLimit]
      BY <3>1, Zenon
    <3> QED BY <3>2, Zenon DEF w
  <2> HIDE DEF v
  <2>5. /\ drv' \in DriverType /\ drv'.port = drv.port /\ drv'.mmio = drv.mmio
        /\ drv'.pages = drv.pages /\ drv'.table = drv.table /\ drv'.gen = g + 1
        /\ drv'.valid = v /\ drv'.active = drv.active /\ drv'.present = drv.present
        /\ drv'.baseline = drv.baseline
    BY <2>2, <2>3, <2>4, Zenon DEF AhciInv, Types, DriverType
  <2>6. /\ hba.cmd[p] = "none" /\ hba.drive[p] = drv.table[p]
    BY <1>1, <1>4 DEF Identified, AhciInv, SlotInv, DeviceInv, Answer,
       InUse, Commanding
  <2>7. ASSUME hba' \in HbaType, Elsewhere(hba, hba', p), hba'.engine = hba.engine,
               hba'.based = hba.based, hba'.cmd = hba.cmd, hba'.master = hba.master,
               hba'.drive = hba.drive, irq' \in IrqType, ~irq'.active,
               irq'.enabled => hba'.ie[p] /\ hba'.gie,
               req' \in RequestType, req'.dev = req.dev,
               \/ req'.purpose = "retry" /\ pc' = "issue" /\ recov' = "hba"
               \/ pc' = "disable" /\ recov' = "closed"
        PROVE  AhciInv'
    <3>1. Types'
      BY <1>1, <2>5, <2>7, Zenon DEF AhciInv, Types
    <3>2. PortInv'
      <4>1. CanDma(hba', p)
        BY <1>2, <2>7, Zenon DEF CanDma
      <4>2. drv'.port = p /\ drv'.pages /\ drv'.mmio
        BY <1>2, <2>5, Zenon DEF AhciInv, PortInv
      <4>3. OnePortOwnsThePages'
        BY <2>7, <4>2, Zenon DEF AhciInv, PortInv, OnePortOwnsThePages, Elsewhere
      <4> QED BY <1>2, <2>7, <4>1, <4>2, <4>3, Zenon DEF PortInv, InUse, Commanding
    <3>3. drv'.valid[p] = drv'.gen
      BY <1>2, <2>1, <2>5, Zenon DEF v
    <3>4. DeviceInv'
      BY <1>1, <1>2, <2>5, <2>7, <3>3, Zenon DEF AhciInv, DeviceInv, InUse, Commanding
    <3>5. DriveInv'
      <4>1. ~Probing'
        BY <2>7, Zenon DEF Probing, Commanding
      <4> SUFFICES ASSUME NEW x \in Ports
                   PROVE  /\ drv'.valid[x] <= drv'.gen
                          /\ drv'.valid[x] = drv'.gen => hba'.drive[x] = drv'.table[x]
        BY <4>1, Zenon DEF DriveInv
      <4>2. CASE x = p
        BY <2>1, <2>3, <2>5, <2>6, <2>7, <3>3, <4>2
      <4>3. CASE x # p
        <5>1. drv'.valid[x] = drv.valid[x] /\ drv.valid[x] \in Nat
          BY <2>1, <2>5, <4>3 DEF v
        <5>2. drv.valid[x] <= g
          BY Zenon DEF AhciInv, DriveInv
        <5> QED BY <2>1, <2>5, <5>1, <5>2
      <4> QED BY <4>2, <4>3, Zenon
    <3>6. RecoveryInv' /\ SlotInv' /\ IrqInv' /\ DeliversOwnData'
      BY <2>5, <2>6, <2>7, Zenon DEF RecoveryInv, SlotInv, IrqInv, DeliversOwnData,
         Probing, InUse, Commanding
    <3> QED BY <3>1, <3>2, <3>4, <3>5, <3>6, Zenon DEF AhciInv
  <2>8. hba \in HbaType /\ irq \in IrqType /\ req \in RequestType
    BY Zenon DEF AhciInv, Types
  <2>9. CASE /\ pc' = "issue" /\ req' = [req EXCEPT !.purpose = "retry"]
             /\ hba' = hba /\ irq' = irq /\ recov' = recov
    <3>1. req' \in RequestType /\ req'.purpose = "retry" /\ req'.dev = req.dev
      BY <2>8, <2>9, Zenon DEF RequestType, Purposes
    <3>2. Elsewhere(hba, hba', p)
      BY <2>9, Zenon DEF Elsewhere
    <3>3. irq.enabled => hba.ie[p] /\ hba.gie
      BY <1>1, Zenon DEF AhciInv, IrqInv, Commanding
    <3> QED BY <1>2, <2>7, <2>8, <2>9, <3>1, <3>2, <3>3, Zenon
  <2>10. ASSUME NEW e \in EnableHba(hba, p), hba' = e.h,
                irq' = [irq EXCEPT !.enabled = e.ok],
                IF e.ok
                THEN /\ pc' = "issue" /\ recov' = recov
                     /\ req' = [req EXCEPT !.purpose = "retry"]
                ELSE Advance(FALSE) /\ req' = req
         PROVE  AhciInv'
    <3>1. /\ e.h \in HbaType /\ e.ok \in BOOLEAN /\ Elsewhere(hba, e.h, p)
          /\ e.h.engine = hba.engine /\ e.h.based = hba.based /\ e.h.cmd = hba.cmd
          /\ e.h.master = hba.master /\ e.h.drive = hba.drive
          /\ e.ok => e.h.ie[p] /\ e.h.gie
      BY <1>2, <2>8, EnableHbaFacts, Zenon
    <3>2. irq' \in IrqType /\ ~irq'.active /\ irq'.enabled = e.ok
      BY <1>2, <2>8, <2>10, <3>1, Zenon DEF IrqType
    <3>3. /\ req' \in RequestType /\ req'.dev = req.dev
          /\ \/ req'.purpose = "retry" /\ pc' = "issue" /\ recov' = "hba"
             \/ pc' = "disable" /\ recov' = "closed"
      <4>1. CASE e.ok
        BY <1>2, <2>8, <2>10, <4>1 DEF RequestType, Purposes
      <4>2. CASE ~e.ok
        BY <1>2, <2>8, <2>10, <4>2, AdvanceFacts, Zenon
      <4> QED BY <4>1, <4>2, Zenon
    <3> QED BY <2>7, <2>10, <3>1, <3>2, <3>3, Zenon
  <2> QED BY <1>4, <2>9, <2>10, Zenon DEF HbaChecked
<1> QED BY <1>3, <1>4, Zenon

LEMMA DisableKeeps ==
  ASSUME AhciInv, Disable
  PROVE  AhciInv'
<1>1. /\ irq' = IrqDisable(irq) /\ bounce' = Blank /\ recov' = recov
      /\ pc = "disable" /\ pc' \in {"candidate", "off"}
  BY Zenon DEF Disable
<1>2. PICK r \in DisableDriver(hba, drv) : hba' = r.h /\ drv' = r.d
  BY Zenon DEF Disable
<1>3. Owned(hba, drv)
  BY Zenon DEF AhciInv, PortInv, OnePortOwnsThePages, Owned
<1>4. /\ hba' \in HbaType /\ drv' \in DriverType /\ Owned(hba', drv')
      /\ drv'.gen = drv.gen
      /\ \A q \in Ports : drv'.table[q] = NoDrive /\ drv'.valid[q] = 0
  BY <1>2, <1>3, DisableDriverFacts, Zenon DEF AhciInv, Types
<1>5. irq' \in IrqType /\ ~irq'.active /\ ~irq'.enabled
  BY <1>1, IrqDisableFacts, Zenon DEF AhciInv, Types
<1>6. req' \in RequestType
  BY RequestFacts, Zenon DEF Disable, AhciInv, Types, RequestType
<1>7. Types'
  BY <1>1, <1>4, <1>5, <1>6, BlankFacts, Zenon DEF AhciInv, Types
<1>8. ~InUse' /\ ~Commanding' /\ ~Probing'
  BY <1>1, Zenon DEF InUse, Commanding, Probing
<1>9. PortInv'
  BY <1>1, <1>4, <1>8, Zenon DEF PortInv, OnePortOwnsThePages, Owned
<1>10. DriveInv'
  BY <1>4, <1>8 DEF DriveInv, DriverType
<1>11. DeviceInv' /\ RecoveryInv' /\ SlotInv' /\ IrqInv' /\ DeliversOwnData'
  BY <1>1, <1>5, <1>8, Zenon DEF DeviceInv, RecoveryInv, SlotInv, IrqInv, DeliversOwnData
<1> QED BY <1>7, <1>9, <1>10, <1>11, Zenon DEF AhciInv

LEMMA NextCandidateKeeps ==
  ASSUME AhciInv, NextCandidate
  PROVE  AhciInv'
<1>1. CASE drv.closed /\ req.left > 1
  <2>1. PICK up \in [Ports -> BOOLEAN] : hba' = [FreshHba EXCEPT !.link = up]
    BY <1>1, Zenon DEF NextCandidate
  <2>2. /\ drv' = FreshDriver /\ irq' = IrqStateReset /\ recov' = "none"
        /\ pc' = "prepare" /\ bounce' = bounce
    BY <1>1, Zenon DEF NextCandidate
  <2>3. req' \in RequestType /\ bounce' \in BounceType
    BY <1>1, <2>2, RequestFacts DEF NextCandidate, AhciInv, Types, RequestType
  <2> QED BY <2>1, <2>2, <2>3, CandidateKeeps, Zenon
<1>2. CASE ~(drv.closed /\ req.left > 1)
  <2>1. /\ hba' = hba /\ drv' = drv /\ irq' = irq /\ recov' = recov /\ req' = req
        /\ bounce' = bounce /\ pc = "candidate" /\ pc' = "off"
    BY <1>2, Zenon DEF NextCandidate
  <2> QED BY <2>1, Zenon DEF AhciInv, Types, PortInv, OnePortOwnsThePages, DeviceInv,
      DriveInv, Unsure, RecoveryInv, SlotInv, IrqInv, DeliversOwnData, Probing,
      InUse, Commanding
<1> QED BY <1>1, <1>2, Zenon

-----------------------------------------------------------------------------
(* The theorems *)

LEMMA InitKeeps ==
  ASSUME Init
  PROVE  AhciInv
<1>1. PICK up \in [Ports -> BOOLEAN] : hba = [FreshHba EXCEPT !.link = up]
  BY Zenon DEF Init
<1>2. /\ drv = FreshDriver /\ irq = IrqStateReset /\ recov = "none" /\ pc = "prepare"
      /\ req \in RequestType /\ bounce \in BounceType
  BY RequestFacts, BlankFacts, Zenon DEF Init
<1> DEFINE k == [FreshHba EXCEPT !.link = up]
<1>3. /\ k \in HbaType /\ k.engine = FreshHba.engine /\ k.based = FreshHba.based
      /\ k.ie = FreshHba.ie
  BY FreshHbaFacts, Zenon DEF HbaType
<1>4. hba = k
  BY <1>1, Zenon
<1> HIDE DEF k
<1>5. Types
  BY <1>2, <1>3, <1>4, FreshDriverFacts, IrqResetFacts, Zenon DEF Types
<1>6. ~InUse /\ ~Commanding
  BY <1>2, Zenon DEF InUse, Commanding
<1>7. PortInv
  BY <1>2, <1>3, <1>4, <1>6, FreshHbaFacts, FreshDriverFacts, ConstantFacts, Zenon
  DEF PortInv, OnePortOwnsThePages
<1>8. DriveInv
  BY <1>2, FreshDriverFacts DEF DriveInv
<1>9. DeviceInv /\ RecoveryInv /\ SlotInv /\ IrqInv /\ DeliversOwnData
  BY <1>2, <1>6, IrqResetFacts, Zenon DEF DeviceInv, RecoveryInv, SlotInv, IrqInv,
     DeliversOwnData
<1> QED BY <1>5, <1>7, <1>8, <1>9, Zenon DEF AhciInv

LEMMA StutterKeeps ==
  ASSUME AhciInv, UNCHANGED vars
  PROVE  AhciInv'
<1>1. /\ UNCHANGED <<hba, drv, irq, recov>> /\ UNCHANGED <<req, bounce, pc>>
  BY Zenon DEF vars
<1>2. Types' /\ RecoveryInv' /\ DeliversOwnData'
  BY <1>1, Zenon DEF AhciInv, Types, RecoveryInv, DeliversOwnData, Commanding
<1>3. PortInv'
  BY <1>1, Zenon DEF AhciInv, PortInv, OnePortOwnsThePages, InUse, Commanding
<1>4. DeviceInv'
  BY <1>1, Zenon DEF AhciInv, DeviceInv, Devices, InUse, Commanding
<1>5. DriveInv'
  BY <1>1, Zenon DEF AhciInv, DriveInv, Unsure, Probing, Commanding
<1>6. SlotInv'
  BY <1>1, Zenon DEF AhciInv, SlotInv, Answer
<1>7. IrqInv'
  BY <1>1, Zenon DEF AhciInv, IrqInv, Probing, InUse, Commanding
<1> QED BY <1>2, <1>3, <1>4, <1>5, <1>6, <1>7, Zenon DEF AhciInv

\* A device is found when there is one: the naturals are well ordered.
W == INSTANCE WellFoundedInduction

LEMMA FirstDeviceFacts ==
  ASSUME Devices # {}
  PROVE  FirstDevice \in Devices
<1> DEFINE S == Devices
           R == {ab \in Nat \X Nat : ab[1] < ab[2]}
<1>1. W!IsWellFoundedOn(R, Nat)
  BY W!NatLessThanWellFounded, Zenon DEF W!OpToRel
<1>2. S \subseteq Nat
  BY ConstantFacts DEF Devices, Ports
<1>3. PICK x \in S : \A y \in S : ~(<<y, x>> \in R)
  <2> HIDE DEF R, S
  <2> QED BY <1>1, <1>2, W!WFMin, ZenonT(30) DEF S
<1> HIDE DEF S
<1>4. ASSUME NEW y \in S PROVE x <= y
  <2>1. x \in Nat /\ y \in Nat /\ <<y, x>> \in Nat \X Nat
    BY <1>2, Zenon
  <2>2. ~(y < x)
    BY <1>3, <2>1, Zenon
  <2> QED BY <2>1, <2>2
<1>5. \E z \in S : \A y \in S : z <= y
  BY <1>4, Zenon
<1> QED BY <1>5, Zenon DEF FirstDevice, S

LEMMA ProbeEndKeeps ==
  ASSUME AhciInv, ProbeEnd
  PROVE  AhciInv'
<1>1. /\ irq' = irq /\ recov' = recov /\ bounce' = Blank /\ pc = "probe"
      /\ req' = IF drv'.present THEN [NoRequest EXCEPT !.flags = TRUE] ELSE req
  BY Zenon DEF ProbeEnd
<1>2. req' \in RequestType
  BY <1>1, RequestFacts, ZenonT(30) DEF AhciInv, Types, RequestType
<1>3. CASE pc' = "disable" /\ hba' = hba /\ drv' = drv
  BY <1>1, <1>2, <1>3, BlankFacts, Zenon DEF AhciInv, Types, PortInv,
     OnePortOwnsThePages, DeviceInv, DriveInv, Unsure, RecoveryInv, SlotInv,
     IrqInv, DeliversOwnData, Probing, InUse, Commanding
<1>4. ASSUME Devices # {},
             \E s \in SelectPort(hba, FirstDevice, FALSE) :
                /\ hba' = s.h
                /\ drv' = [drv EXCEPT !.port = s.port, !.present = s.ok,
                              !.active = IF s.ok THEN FirstDevice ELSE NoPort,
                              !.baseline = IF s.ok THEN drv.table[FirstDevice] ELSE @]
                /\ pc' = IF s.ok THEN "idle" ELSE "disable"
      PROVE  AhciInv'
  <2> DEFINE p == FirstDevice
  <2>1. p \in Ports /\ p # NoPort /\ drv.table[p] # NoDrive
    BY <1>4, FirstDeviceFacts, ConstantFacts, Zenon DEF Devices
  <2> HIDE DEF p
  <2>2. PICK s \in SelectPort(hba, p, FALSE) :
          /\ hba' = s.h
          /\ drv' = [drv EXCEPT !.port = s.port, !.present = s.ok,
                        !.active = IF s.ok THEN p ELSE NoPort,
                        !.baseline = IF s.ok THEN drv.table[p] ELSE @]
          /\ pc' = IF s.ok THEN "idle" ELSE "disable"
    BY <1>4, Zenon DEF p
  <2>3. Selected(hba, s, p, FALSE)
    BY <2>1, SelectPortFacts, Zenon DEF AhciInv, Types
  <2>4. /\ s.h \in HbaType /\ s.ok \in BOOLEAN /\ s.port \in {p, NoPort}
        /\ Elsewhere(hba, s.h, p) /\ s.h.drive = hba.drive
        /\ s.port = NoPort => s.h = hba
        /\ s.ok => s.port = p /\ CanDma(s.h, p) /\ s.h.cmd[p] = "none"
    BY <2>3, Zenon DEF Selected
  <2> DEFINE ac == IF s.ok THEN p ELSE NoPort
             bl == IF s.ok THEN drv.table[p] ELSE drv.baseline
  <2>5. drv' = [drv EXCEPT !.port = s.port, !.present = s.ok, !.active = ac, !.baseline = bl]
    BY <2>2, Zenon
  <2>6. /\ ac \in Ports \cup {NoPort} /\ bl \in Drives \cup {NoDrive}
        /\ s.ok => ac = p /\ bl = drv.table[p]
    BY <2>1, <2>4, Zenon DEF AhciInv, Types, DriverType
  <2> HIDE DEF ac, bl
  <2>7. /\ drv' \in DriverType /\ drv'.port = s.port /\ drv'.mmio = drv.mmio
        /\ drv'.pages = drv.pages /\ drv'.table = drv.table /\ drv'.valid = drv.valid
        /\ drv'.gen = drv.gen /\ drv'.present = s.ok /\ drv'.active = ac
        /\ drv'.baseline = bl
    BY <2>1, <2>4, <2>5, <2>6, Zenon DEF AhciInv, Types, DriverType
  <2>8. \/ s.ok /\ pc' = "idle" /\ drv'.port = p
        \/ ~s.ok /\ pc' = "disable"
    BY <2>2, <2>4, <2>7, Zenon
  <2>9. hba' = s.h
    BY <2>2, Zenon
  <2>10. drv.pages /\ drv.mmio /\ drv.port = NoPort /\ recov = "none" /\ ~irq.enabled
    BY <1>1, Zenon DEF AhciInv, PortInv, RecoveryInv, IrqInv, Probing
  <2>11. drv.valid[p] = drv.gen
    BY <1>1, <2>1, Zenon DEF AhciInv, DriveInv, Probing
  <2>12. Types'
    BY <1>1, <1>2, <2>4, <2>7, <2>8, <2>9, BlankFacts, Zenon DEF AhciInv, Types
  <2>13. PortInv'
    <3>1. OnePortOwnsThePages'
      BY <2>4, <2>7, <2>9, <2>10, NothingRuns, Zenon DEF OnePortOwnsThePages, Elsewhere
    <3> QED BY <2>1, <2>4, <2>7, <2>8, <2>9, <2>10, <3>1, Zenon DEF PortInv, InUse,
        Commanding
  <2>14. DeviceInv'
    BY <2>1, <2>4, <2>6, <2>7, <2>8, <2>11, Zenon DEF DeviceInv, InUse, Commanding
  <2>15. DriveInv'
    BY <1>1, <2>4, <2>7, <2>8, <2>9 DEF AhciInv, DriveInv, Unsure, Probing,
       Commanding
  <2>16. RecoveryInv' /\ SlotInv' /\ IrqInv' /\ DeliversOwnData'
    BY <1>1, <2>4, <2>8, <2>9, <2>10, Zenon DEF AhciInv, RecoveryInv, SlotInv, IrqInv,
       DeliversOwnData, Probing, InUse, Commanding
  <2> QED BY <2>12, <2>13, <2>14, <2>15, <2>16, Zenon DEF AhciInv
<1> QED BY <1>3, <1>4, ZenonT(30) DEF ProbeEnd

LEMMA StepKeeps ==
  ASSUME AhciInv, [Next]_vars
  PROVE  AhciInv'
<1>1. CASE UNCHANGED vars
  BY <1>1, StutterKeeps, Zenon
<1>2. CASE DriverStep
  BY <1>2, PrepareKeeps, ProbeSkipKeeps, ProbePortKeeps, ProbeDoneKeeps,
     ProbeEndKeeps, AlreadyActiveKeeps, SwitchKeeps, SelectKeeps,
     RevalidatedKeeps, IssueRefusedKeeps, IssueKeeps, NewsSeenKeeps, JudgeKeeps,
     ReadBackKeeps, RetryBackKeeps, PortResetKeeps, PortCheckedKeeps,
     HbaResetKeeps, HbaCheckedKeeps, DeliverKeeps, DisableKeeps,
     NextCandidateKeeps, Zenon DEF DriverStep
<1>3. CASE EnableIrqMode
  BY <1>3, EnableIrqModeKeeps, Zenon
<1>4. CASE \E d \in Ports, flags \in BOOLEAN : Request(d, flags)
  BY <1>4, RequestKeeps, Zenon
<1>5. CASE \E p \in Ports : Complete(p) \/ Error(p)
  BY <1>5, CompleteKeeps, ErrorKeeps, Zenon
<1>6. CASE IrqHandler
  BY <1>6, IrqHandlerKeeps
<1>7. CASE RefusedRead
  BY <1>1, <1>7, Zenon DEF RefusedRead
<1> QED BY <1>1, <1>2, <1>3, <1>4, <1>5, <1>6, <1>7, Zenon DEF Next

\* The invariant of the driver holds in every reachable state.
THEOREM AhciInvariance == Spec => []AhciInv
<1>1. Init => AhciInv
  BY InitKeeps, Zenon
<1>2. AhciInv /\ [Next]_vars => AhciInv'
  BY StepKeeps, Zenon
<1> QED BY <1>1, <1>2, PTL DEF Spec

\* For any number of ports and whatever the controller does: disable_driver
\* gives the DMA pages back only when no port can write to them, and at most
\* the selected port is ever set up to write.
THEOREM PagesStaySafe == Spec => []PagesAreSafe
<1>1. AhciInv => PagesAreSafe
  <2> SUFFICES ASSUME AhciInv PROVE PagesAreSafe
    BY Zenon
  <2>1. TypeOK
    BY Zenon DEF AhciInv, Types, TypeOK, HbaType, DriverType, IrqType, RequestType
  <2>2. OnePortOwnsThePages /\ (drv.port \in Ports => drv.pages)
    BY Zenon DEF AhciInv, PortInv
  <2>3. PagesOutliveDma
    BY <2>2, Zenon DEF PagesOutliveDma, OnePortOwnsThePages, CanDma
  <2> QED BY <2>1, <2>2, <2>3, Zenon DEF PagesAreSafe
<1> QED BY <1>1, AhciInvariance, PTL

\* A read that ahci_block_read reports as successful delivers what this READ
\* brought from the drive that ahci_init found on the port, whatever drives are
\* replaced while ports and controller are being reset.
THEOREM ReadsDeliverOwnData == Spec => []DeliversOwnData
<1>1. AhciInv => DeliversOwnData
  BY Zenon DEF AhciInv
<1> QED BY <1>1, AhciInvariance, PTL

\* A completion that the interrupt handler has recorded for the command the
\* driver waits for is that command's: generations may wrap, messages may be
\* late or lost.
THEOREM CompletionsAreOwn == Spec => []NoPhantomCompletion
<1>1. AhciInv => NoPhantomCompletion
  BY Zenon DEF AhciInv, SlotInv, NoPhantomCompletion, IrqObserve
<1> QED BY <1>1, AhciInvariance, PTL

\* Between two reads the driver is ready for the next one, whatever the last
\* read went through.
THEOREM AlwaysReady == Spec => []ReadyBetweenReads
<1>1. AhciInv => ReadyBetweenReads
  BY Zenon DEF AhciInv, PortInv, DeviceInv, RecoveryInv, SlotInv, IrqInv,
     ReadyBetweenReads, InUse
<1> QED BY <1>1, AhciInvariance, PTL

=============================================================================
