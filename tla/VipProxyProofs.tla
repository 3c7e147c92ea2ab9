---------------------------- MODULE VipProxyProofs ----------------------------
(***************************************************************************)
(* Internal traffic for any apps, pools and nft commands in flight: the    *)
(* types with the key of the server, what it means that the proxy skips a  *)
(* ruleset, and what its count of listeners tells.                         *)
(***************************************************************************)
EXTENDS VipProxy, FiniteSetTheorems, TLAPS

-----------------------------------------------------------------------------
(* The inductive invariant *)

Versions == {"missing", "old", "current"}
Files == Config \union {Unwritten}
Server == [file : Files, bin : Versions, unit : Versions, names : SUBSET App]
Process ==
  [at : {"down", "starting", "up"}, cfg : Files, seen : Files, bound : Config,
   applied : (SUBSET App) \union {NeverApplied}, natOk : BOOLEAN]
Command == [rules : SUBSET App, at : {"started", "committed"}]
Converging ==
  [at : {"idle", "lock", "probe", "write", "fix", "active", "status"}, rendered : Files,
   fix : {"none", "install", "unit"}, status : {"none", "ok", "bad"}]
Passing == [at : {"idle", "observe", "lock", "write"}, names : SUBSET App]

\* The panel's side: who works on the server holds its key, and a converge has
\* rendered what it is to write.
PanelOK ==
  /\ want \in Config /\ server \in Servers /\ host \in Server /\ ready \in BOOLEAN
  /\ conv \in Converging /\ pass \in Passing
  /\ lock \in {"free", "proxy", "hosts", "network", "operation", "reconciler"}
  /\ conv.at # "idle" => conv.rendered \in Config
  /\ lock = "proxy" <=> conv.at \notin {"idle", "lock"}
  /\ lock = "hosts" <=> pass.at = "write"
  /\ lock = "network" <=> pass.at = "observe"
  /\ mishaps \in 0..MaxMishaps /\ changes \in 0..MaxChanges

\* The proxy's side: a process runs with a configuration, its listeners have the
\* current pools or are absent, and nobody else starts nft.
DaemonOK ==
  /\ proc \in Process /\ kernel \in SUBSET App /\ crossed \in BOOLEAN
  /\ nft \in [Slot -> Command \union {Free}]
  /\ proc.at = "down" => \A s \in Slot : nft[s] = Free
  /\ proc.at # "down" =>
       /\ host.file \in Config /\ proc.cfg \in Config /\ proc.seen = proc.cfg
       /\ \A a \in App : proc.bound[a] \in {None, proc.cfg[a]}

\* While commands are reported in the order they committed in: the kernel has the
\* rules of the one that is not reported yet, else of the last one that was.
Committed(s) == nft[s].at = "committed"
KernelOK == ~crossed =>
  /\ \A s, q \in Slot : Committed(s) /\ Committed(q) => s = q
  /\ \A s \in Slot : Committed(s) => kernel = nft[s].rules
  /\ (\A s \in Slot : ~Committed(s)) /\ proc.applied # NeverApplied => kernel = proc.applied

Inv == PanelOK /\ DaemonOK /\ KernelOK

\* What the two early conclusions of the code are worth.
SkippedIsInForce ==
  ~crossed /\ (\A s \in Slot : ~Committed(s)) /\ proc.at = "up" /\ proc.applied = Rules(proc.cfg) =>
    kernel = Rules(proc.cfg)
OkIsBound == Status = "ok" => proc.bound = proc.cfg

-----------------------------------------------------------------------------
(* Steps that leave the proxy alone *)

\* The proxy does not notice what the panel does, save that it may find another
\* configuration file.
LEMMA DaemonKept ==
  ASSUME Inv, UNCHANGED daemon, host'.file = host.file \/ host'.file \in Config
  PROVE  DaemonOK' /\ KernelOK'
<1>1. /\ proc' = proc /\ nft' = nft /\ kernel' = kernel /\ crossed' = crossed
  BY DEF daemon
<1>2. DaemonOK'
  BY <1>1 DEF Inv, DaemonOK
<1>3. KernelOK'
  BY <1>1 DEF Inv, KernelOK, Committed
<1> QED  BY <1>2, <1>3

\* A mishap stays within its bound.
LEMMA MishapCounts ==
  ASSUME PanelOK, Mishap \/ UNCHANGED bounds
  PROVE  mishaps' \in 0..MaxMishaps /\ changes' \in 0..MaxChanges
BY ProxyAssumption DEF PanelOK, Mishap, bounds

\* The forms a converge starts from.
LEMMA Starts ==
  /\ Unwritten \in Files /\ Resting \in Converging /\ Resting.at = "idle"
  /\ Looking \in Passing /\ Looking.at = "idle"
BY DEF Unwritten, Files, Resting, Converging, Looking, Passing

\* Render, the wait for the key, and a converge that gives up.
LEMMA WaitKeeps ==
  ASSUME Inv, Render \/ TakeLock \/ GiveUp
  PROVE  Inv'
<1>1. /\ UNCHANGED daemon /\ host' = host /\ want' = want /\ server' = server /\ ready' = ready /\ pass' = pass
      /\ Mishap \/ UNCHANGED bounds
  BY DEF Render, TakeLock, GiveUp, rows
<1>2. DaemonOK' /\ KernelOK'
  BY <1>1, DaemonKept
<1>3. mishaps' \in 0..MaxMishaps /\ changes' \in 0..MaxChanges
  BY <1>1, MishapCounts DEF Inv
<1>4. conv \in Converging /\ want \in Config /\ want \in Files
  BY DEF Inv, PanelOK, Files
<1>5. CASE Render
  <2>1. conv' = [Resting EXCEPT !.at = "lock", !.rendered = want] /\ lock' = lock /\ conv.at = "idle"
    BY <1>5 DEF Render
  <2>2. conv' \in Converging /\ conv'.at = "lock" /\ conv'.rendered = want
    BY <1>4, <2>1, Starts DEF Converging
  <2>3. PanelOK'
    BY <1>1, <1>3, <2>1, <2>2 DEF Inv, PanelOK
  <2> QED  BY <1>2, <2>3 DEF Inv
<1>6. CASE TakeLock
  <2>1. conv' = [conv EXCEPT !.at = "probe"] /\ lock' = "proxy" /\ lock = "free" /\ conv.at = "lock"
    BY <1>6 DEF TakeLock, Took
  <2>2. conv' \in Converging /\ conv'.at = "probe" /\ conv'.rendered = conv.rendered
    BY <1>4, <2>1 DEF Converging
  <2>3. PanelOK'
    BY <1>1, <1>3, <2>1, <2>2 DEF Inv, PanelOK
  <2> QED  BY <1>2, <2>3 DEF Inv
<1>7. CASE GiveUp
  <2>1. conv' = Resting /\ lock' = lock /\ conv.at = "lock"
    BY <1>7 DEF GiveUp
  <2>2. PanelOK'
    BY <1>1, <1>3, <2>1, Starts DEF Inv, PanelOK
  <2> QED  BY <1>2, <2>2 DEF Inv
<1> QED  BY <1>5, <1>6, <1>7

\* The end of a converge, whatever it did to the server: the key is released.
LEMMA LeaveKeeps ==
  ASSUME Inv, conv.at \notin {"idle", "lock"}, Leave, want' = want, server' = server, pass' = pass,
         ready' \in BOOLEAN, host' \in Server, Mishap \/ UNCHANGED bounds
  PROVE  PanelOK'
<1>1. lock = "proxy" /\ lock' = "free" /\ conv' = Resting
  BY DEF Inv, PanelOK, Leave
<1>2. mishaps' \in 0..MaxMishaps /\ changes' \in 0..MaxChanges
  BY MishapCounts DEF Inv
<1> QED  BY <1>1, <1>2, Starts DEF Inv, PanelOK

\* A converge goes on to its next call, with the key.
LEMMA GoesOn ==
  ASSUME Inv, conv.at \notin {"idle", "lock"}, conv' \in Converging, conv'.at \notin {"idle", "lock"},
         conv'.rendered = conv.rendered, want' = want, server' = server, pass' = pass, lock' = lock, ready' = ready,
         host' \in Server, Mishap \/ UNCHANGED bounds
  PROVE  PanelOK'
<1>1. mishaps' \in 0..MaxMishaps /\ changes' \in 0..MaxChanges
  BY MishapCounts DEF Inv
<1> QED  BY <1>1 DEF Inv, PanelOK

\* The probe, and a probe that fails.
LEMMA ProbeKeeps ==
  ASSUME Inv, Probe \/ ProbeFails
  PROVE  Inv'
<1>1. /\ UNCHANGED daemon /\ host' = host /\ want' = want /\ server' = server /\ pass' = pass /\ conv.at = "probe"
  BY DEF Probe, ProbeFails, rows
<1>2. DaemonOK' /\ KernelOK'
  BY <1>1, DaemonKept
<1>3. host \in Server /\ ready \in BOOLEAN /\ conv \in Converging
  BY DEF Inv, PanelOK
<1>4. CASE ProbeFails
  <2>1. Leave /\ Mishap /\ ready' = ready
    BY <1>4 DEF ProbeFails, Failed
  <2>2. PanelOK'
    BY <1>1, <1>3, <2>1, LeaveKeeps
  <2> QED  BY <1>2, <2>2 DEF Inv
<1>5. CASE Probe
  <2>1. PICK fix \in {"install", "unit", "none"}, status \in {"ok", "bad", "none"} :
          /\ Answer(status)
          /\ IF host.file = conv.rendered /\ fix = "none" THEN Settled(status)
             ELSE /\ conv' = [conv EXCEPT !.fix = fix, !.status = status,
                                          !.at = IF host.file = conv.rendered THEN "fix" ELSE "write"]
                  /\ UNCHANGED <<ready, lock>>
    BY <1>5 DEF Probe
  <2>2. Mishap \/ UNCHANGED bounds
    BY <2>1 DEF Answer
  <2>3. CASE Settled(status)
    <3>1. Leave /\ ready' \in BOOLEAN
      BY <1>3, <2>3 DEF Settled
    <3>2. PanelOK'
      BY <1>1, <1>3, <2>2, <3>1, LeaveKeeps
    <3> QED  BY <1>2, <3>2 DEF Inv
  <2>4. CASE ~Settled(status)
    <3>1. PICK at \in {"fix", "write"} : at = IF host.file = conv.rendered THEN "fix" ELSE "write"
      OBVIOUS
    <3>2. conv' = [conv EXCEPT !.fix = fix, !.status = status, !.at = at] /\ ready' = ready /\ lock' = lock
      BY <2>1, <2>4, <3>1
    <3>3. conv' \in Converging /\ conv'.at \in {"fix", "write"} /\ conv'.rendered = conv.rendered
      BY <1>3, <3>2 DEF Converging
    <3>4. PanelOK'
      BY <1>1, <1>3, <2>2, <3>2, <3>3, GoesOn
    <3> QED  BY <1>2, <3>4 DEF Inv
  <2> QED  BY <2>3, <2>4
<1> QED  BY <1>4, <1>5

\* The write of the configuration, and one that fails with or without its work done.
LEMMA WriteKeeps ==
  ASSUME Inv, Write \/ WriteFails
  PROVE  Inv'
<1>1. /\ UNCHANGED daemon /\ want' = want /\ server' = server /\ pass' = pass /\ conv.at = "write"
      /\ Mishap \/ UNCHANGED bounds
  BY DEF Write, WriteFails, Failed, rows
<1>2. /\ host \in Server /\ ready \in BOOLEAN /\ conv \in Converging
      /\ conv.rendered \in Config /\ conv.rendered \in Files
  BY <1>1 DEF Inv, PanelOK, Files
<1>3. host' \in {host, [host EXCEPT !.file = conv.rendered]}
  BY DEF Write, WriteFails
<1>4. host' \in Server /\ (host'.file = host.file \/ host'.file \in Config)
  BY <1>2, <1>3 DEF Server, Files
<1>5. DaemonOK' /\ KernelOK'
  BY <1>1, <1>4, DaemonKept
<1>6. CASE Leave /\ ready' \in BOOLEAN
  BY <1>1, <1>4, <1>5, <1>6, LeaveKeeps DEF Inv
<1>7. CASE conv' = [conv EXCEPT !.at = "fix"] /\ UNCHANGED <<ready, lock>>
  <2>1. conv' \in Converging /\ conv'.at = "fix" /\ conv'.rendered = conv.rendered
    BY <1>2, <1>7 DEF Converging
  <2>2. PanelOK'
    BY <1>1, <1>4, <1>7, <2>1, GoesOn
  <2> QED  BY <1>5, <2>2 DEF Inv
<1>8. (Leave /\ ready' \in BOOLEAN) \/ (conv' = [conv EXCEPT !.at = "fix"] /\ UNCHANGED <<ready, lock>>)
  <2>1. CASE Write
    BY <2>1, <1>2 DEF Write, Settled
  <2>2. CASE WriteFails
    BY <2>2, <1>2 DEF WriteFails, Failed
  <2> QED  BY <2>1, <2>2
<1> QED  BY <1>6, <1>7, <1>8

\* The last calls of a converge, which only ask.
LEMMA AsksKeep ==
  ASSUME Inv, Active \/ AskStatus
  PROVE  Inv'
<1>1. /\ UNCHANGED daemon /\ host' = host /\ want' = want /\ server' = server /\ pass' = pass
      /\ conv.at \in {"active", "status"}
  BY DEF Active, AskStatus, rows
<1>2. DaemonOK' /\ KernelOK'
  BY <1>1, DaemonKept
<1>3. host \in Server /\ ready \in BOOLEAN /\ conv \in Converging
  BY DEF Inv, PanelOK
<1>4. CASE Active
  <2>1. CASE Failed
    <3>1. Leave /\ Mishap /\ ready' = ready
      BY <2>1 DEF Failed
    <3>2. PanelOK'
      BY <1>1, <1>3, <3>1, LeaveKeeps
    <3> QED  BY <1>2, <3>2 DEF Inv
  <2>2. CASE conv' = [conv EXCEPT !.at = "status"] /\ UNCHANGED <<ready, lock, bounds>>
    <3>1. conv' \in Converging /\ conv'.at = "status" /\ conv'.rendered = conv.rendered
      BY <1>3, <2>2 DEF Converging
    <3>2. PanelOK'
      BY <1>1, <1>3, <2>2, <3>1, GoesOn
    <3> QED  BY <1>2, <3>2 DEF Inv
  <2> QED  BY <1>4, <2>1, <2>2 DEF Active
<1>5. CASE AskStatus
  <2>1. PICK status \in {"ok", "bad", "none"} : Answer(status) /\ Settled(status)
    BY <1>5 DEF AskStatus
  <2>2. Leave /\ ready' \in BOOLEAN /\ (Mishap \/ UNCHANGED bounds)
    BY <1>3, <2>1 DEF Settled, Answer
  <2>3. PanelOK'
    BY <1>1, <1>3, <2>2, LeaveKeeps
  <2> QED  BY <1>2, <2>3 DEF Inv
<1> QED  BY <1>4, <1>5

-----------------------------------------------------------------------------
(* Steps that kill the proxy *)

\* A process that is down, with no command in flight, was told nothing yet.
LEMMA KilledKeeps ==
  ASSUME Inv, Killed, kernel' \in SUBSET App, crossed' = crossed
  PROVE  DaemonOK' /\ KernelOK'
<1>1. proc' = Down /\ nft' = [s \in Slot |-> Free]
  BY DEF Killed
<1>2. /\ Down \in Process /\ Down.at = "down" /\ Down.applied = NeverApplied
  <2>1. Unwritten \in Files /\ [a \in App |-> None] \in Config
    BY DEF Files, Config
  <2> QED  BY <2>1 DEF Down, Process
<1>3. crossed \in BOOLEAN
  BY DEF Inv, DaemonOK
<1>4. DaemonOK'
  BY <1>1, <1>2, <1>3 DEF DaemonOK
<1>5. KernelOK'
  BY <1>1, <1>2 DEF KernelOK, Committed, Free
<1> QED  BY <1>4, <1>5

\* The installation and the rewrite of the unit end in a restart of the service;
\* a failing one may.
LEMMA FixKeeps ==
  ASSUME Inv, Install \/ RewriteUnit \/ FixFails
  PROVE  Inv'
<1>1. /\ kernel' = kernel /\ crossed' = crossed /\ want' = want /\ server' = server /\ pass' = pass /\ conv.at = "fix"
      /\ Mishap \/ UNCHANGED bounds
  BY DEF Install, RewriteUnit, FixFails, Failed, rows
<1>2. /\ host \in Server /\ ready \in BOOLEAN /\ conv \in Converging /\ kernel \in SUBSET App
  BY DEF Inv, PanelOK, DaemonOK
<1>3. host' \in Server /\ host'.file = host.file
  <2>1. host' \in {host, [host EXCEPT !.bin = "current"], [host EXCEPT !.unit = "current"],
                   [host EXCEPT !.bin = "current", !.unit = "current"]}
    BY DEF Install, RewriteUnit, FixFails
  <2> QED  BY <1>2, <2>1 DEF Server, Versions
<1>4. Killed \/ UNCHANGED daemon
  BY <1>1 DEF Install, RewriteUnit, FixFails, daemon
<1>5. DaemonOK' /\ KernelOK'
  BY <1>1, <1>2, <1>3, <1>4, DaemonKept, KilledKeeps
<1>6. CASE Install \/ RewriteUnit
  <2>1. PICK at \in {"active", "status"} : conv' = [conv EXCEPT !.at = at]
    BY <1>6 DEF Install, RewriteUnit
  <2>2. conv' \in Converging /\ conv'.at = at /\ conv'.rendered = conv.rendered
    BY <1>2, <2>1 DEF Converging
  <2>3. ready' = ready /\ lock' = lock
    BY <1>6 DEF Install, RewriteUnit
  <2>4. PanelOK'
    BY <1>1, <1>3, <2>2, <2>3, GoesOn
  <2> QED  BY <1>5, <2>4 DEF Inv
<1>7. CASE FixFails
  <2>1. Leave /\ ready' = ready
    BY <1>7 DEF FixFails, Failed
  <2>2. PanelOK'
    BY <1>1, <1>2, <1>3, <2>1, LeaveKeeps
  <2> QED  BY <1>5, <2>2 DEF Inv
<1> QED  BY <1>6, <1>7

-----------------------------------------------------------------------------
(* The pass over /etc/hosts and everybody else *)

\* The steps of the network controller.
LEMMA PassKeeps ==
  ASSUME Inv, Observe \/ Observed \/ Look \/ Lines \/ Skip \/ WriteHosts
  PROVE  Inv'
<1>1. /\ UNCHANGED daemon /\ want' = want /\ ready' = ready /\ conv' = conv
      /\ Mishap \/ UNCHANGED bounds
  BY DEF Observe, Observed, Look, Lines, Skip, WriteHosts, rows
<1>2. /\ host \in Server /\ pass \in Passing /\ want \in Config
      /\ mishaps' \in 0..MaxMishaps /\ changes' \in 0..MaxChanges
  BY <1>1, MishapCounts DEF Inv, PanelOK
<1>3. pass.names \in SUBSET App /\ Named(want) \in SUBSET App
  BY <1>2 DEF Passing, Named, Config
<1>4. host' \in Server /\ host'.file = host.file
  <2>1. host' \in {host, [host EXCEPT !.names = pass.names]}
    BY DEF Observe, Observed, Look, Lines, Skip, WriteHosts
  <2> QED  BY <1>2, <1>3, <2>1 DEF Server
<1>5. DaemonOK' /\ KernelOK'
  BY <1>1, <1>4, DaemonKept
<1>6. server' \in Servers
  BY DEF Observe, Observed, Look, Lines, Skip, WriteHosts, rows, Servers, Inv, PanelOK
<1>7. \/ pass.at \in {"idle", "lock"} /\ lock' = lock /\ pass'.at \in {"idle", "lock"}
      \/ pass.at = "idle" /\ lock = "free" /\ lock' = "network" /\ pass'.at = "observe"
      \/ pass.at = "lock" /\ lock = "free" /\ lock' = "hosts" /\ pass'.at = "write"
      \/ pass.at \in {"observe", "write"} /\ lock' = "free" /\ pass'.at = "idle"
  <2>1. CASE Observe
    BY <1>2, <2>1 DEF Observe, Took, Passing
  <2>2. CASE Observed \/ WriteHosts
    BY <2>2, Starts DEF Observed, WriteHosts
  <2>3. CASE Look \/ Lines \/ Skip
    BY <2>3, Starts DEF Look, Lines, Skip
  <2> QED  BY <2>1, <2>2, <2>3
<1>8. pass' \in Passing
  <2>1. CASE Observe
    BY <1>2, <2>1 DEF Observe, Passing
  <2>2. CASE ~Observe
    <3>1. \/ pass' = Looking \/ pass' = [at |-> "lock", names |-> Named(want)]
          \/ \E names \in {pass.names, {}} : pass' = [at |-> "write", names |-> names]
      BY <2>2 DEF Observed, Look, Lines, Skip, WriteHosts
    <3> QED  BY <1>3, <3>1, Starts DEF Passing
  <2> QED  BY <2>1, <2>2
<1>9. PanelOK'
  BY <1>1, <1>2, <1>4, <1>6, <1>7, <1>8 DEF Inv, PanelOK
<1> QED  BY <1>5, <1>9 DEF Inv

\* Changes of the database, operations on the server and the other reconcilers.
LEMMA OthersKeep ==
  ASSUME Inv, Change \/ OperationBegins \/ ReconcilerBegins \/ OthersEnd
  PROVE  Inv'
<1>1. /\ UNCHANGED daemon /\ host' = host /\ ready' = ready /\ conv' = conv /\ pass' = pass
  BY DEF Change, OperationBegins, ReconcilerBegins, OthersEnd, panel
<1>2. DaemonOK' /\ KernelOK'
  BY <1>1, DaemonKept
<1>3. CASE Change
  <2>1. want' \in Config /\ server' = server /\ lock' = lock /\ mishaps' = mishaps /\ changes < MaxChanges /\ changes' = changes + 1
    BY <1>3 DEF Change, panel
  <2>2. changes' \in 0..MaxChanges
    BY <2>1, ProxyAssumption DEF Inv, PanelOK
  <2>3. PanelOK'
    BY <1>1, <2>1, <2>2 DEF Inv, PanelOK
  <2> QED  BY <1>2, <2>3 DEF Inv
<1>4. CASE OperationBegins \/ ReconcilerBegins
  <2>1. /\ want' = want /\ server' = server /\ lock = "free" /\ lock' \in {"operation", "reconciler"}
        /\ Mishap \/ UNCHANGED bounds
    BY <1>4 DEF OperationBegins, ReconcilerBegins, Took, rows
  <2>2. PanelOK'
    BY <1>1, <2>1, MishapCounts DEF Inv, PanelOK
  <2> QED  BY <1>2, <2>2 DEF Inv
<1>5. CASE OthersEnd
  <2>1. /\ want' = want /\ server' = server /\ lock \in {"operation", "reconciler"} /\ lock' = "free"
        /\ UNCHANGED bounds
    BY <1>5 DEF OthersEnd, rows
  <2>2. PanelOK'
    BY <1>1, <2>1, MishapCounts DEF Inv, PanelOK
  <2> QED  BY <1>2, <2>2 DEF Inv
<1> QED  BY <1>3, <1>4, <1>5

\* The panel comes back without its locks, perhaps with an older server.
LEMMA RestartKeeps ==
  ASSUME Inv, RestartPanel
  PROVE  Inv'
<1>1. /\ UNCHANGED daemon /\ want' = want /\ server' = server /\ changes' = changes /\ Mishap
      /\ ready' = FALSE /\ conv' = Resting /\ pass' = Looking /\ lock' = "free"
  BY DEF RestartPanel, rows
<1>2. PICK bin \in Outdated(host.bin), unit \in Outdated(host.unit),
           file \in {host.file} \union {c \in {conv.rendered} : conv.at = "write"} :
        host' = [host EXCEPT !.bin = bin, !.unit = unit, !.file = file]
  BY DEF RestartPanel
<1>3. host \in Server
  BY DEF Inv, PanelOK
<1>4. bin \in Versions /\ unit \in Versions
  BY <1>3 DEF Outdated, Server, Versions
<1>5. file = host.file \/ file \in Config
  BY DEF Inv, PanelOK
<1>6. file \in Files
  BY <1>3, <1>5 DEF Files, Server
<1>7. host' \in Server /\ host'.file = file
  BY <1>2, <1>3, <1>4, <1>6 DEF Server, Files
<1>8. DaemonOK' /\ KernelOK'
  BY <1>1, <1>5, <1>7, DaemonKept
<1>9. mishaps' \in 0..MaxMishaps /\ changes' \in 0..MaxChanges
  BY <1>1, MishapCounts DEF Inv
<1>10. PanelOK'
  BY <1>1, <1>7, <1>9, Starts DEF Inv, PanelOK
<1> QED  BY <1>8, <1>10 DEF Inv

-----------------------------------------------------------------------------
(* The proxy *)

\* What the proxy does by itself leaves the panel alone.
LEMMA PanelKept ==
  ASSUME Inv, want' = want, server' = server, host' = host, UNCHANGED panel, Mishap \/ UNCHANGED bounds
  PROVE  PanelOK'
<1>1. mishaps' \in 0..MaxMishaps /\ changes' \in 0..MaxChanges
  BY MishapCounts DEF Inv
<1> QED  BY <1>1 DEF Inv, PanelOK, panel

\* Listeners after a pass over them: the current pools, or absent where a bind
\* failed.
LEMMA Listeners ==
  ASSUME NEW p \in Process, p.cfg \in Config, Reconcile(p)
  PROVE  /\ proc' \in Process /\ proc'.at = p.at /\ proc'.cfg = p.cfg /\ proc'.seen = p.seen
         /\ proc'.applied = p.applied /\ proc'.natOk = p.natOk
         /\ \A a \in App : proc'.bound[a] \in {None, p.cfg[a]}
         /\ Mishap \/ UNCHANGED bounds
<1>1. ASSUME NEW F
      PROVE  /\ Bound(p, F) \in Config /\ \A a \in App : Bound(p, F)[a] \in {None, p.cfg[a]}
  <2>1. \A a \in App : p.cfg[a] \in Pool \union {None}
    BY DEF Config
  <2> QED  BY <2>1 DEF Bound, Config
<1>2. PICK F : proc' = [p EXCEPT !.bound = Bound(p, F)] /\ (Mishap \/ UNCHANGED bounds)
  BY DEF Reconcile
<1>3. PICK b : b = Bound(p, F)
  OBVIOUS
<1>4. b \in Config /\ \A a \in App : b[a] \in {None, p.cfg[a]}
  BY <1>1, <1>3
<1>5. proc' = [p EXCEPT !.bound = b]
  BY <1>2, <1>3
<1>6. /\ proc' \in Process /\ proc'.at = p.at /\ proc'.cfg = p.cfg /\ proc'.seen = p.seen
      /\ proc'.applied = p.applied /\ proc'.natOk = p.natOk /\ proc'.bound = b
  BY <1>4, <1>5 DEF Process
<1> QED  BY <1>2, <1>4, <1>6

\* A command that is started has not committed; the others stay as they are.
LEMMA Started ==
  ASSUME Inv, NEW rules \in SUBSET App, NEW applied, SyncNat(rules, applied)
  PROVE  /\ nft' \in [Slot -> Command \union {Free}]
         /\ \A s \in Slot : Committed(s)' <=> Committed(s)
         /\ \A s \in Slot : Committed(s) => nft'[s] = nft[s]
<1>1. nft \in [Slot -> Command \union {Free}]
  BY DEF Inv, DaemonOK
<1>2. CASE nft' = nft
  BY <1>1, <1>2 DEF Committed
<1>3. CASE nft' # nft
  <2>1. PICK s \in Slot : nft[s].at = "free" /\ nft' = [nft EXCEPT ![s] = [rules |-> rules, at |-> "started"]]
    BY <1>3 DEF SyncNat
  <2>2. [rules |-> rules, at |-> "started"] \in Command
    BY DEF Command
  <2> QED  BY <1>1, <2>1, <2>2 DEF Committed
<1> QED  BY <1>2, <1>3

\* As long as no command commits or is reported, the kernel and what is known of
\* it agree as before; a process that was just started knows nothing.
LEMMA KernelAgrees ==
  ASSUME Inv, kernel' = kernel, crossed' = crossed,
         \A s \in Slot : Committed(s)' <=> Committed(s),
         \A s \in Slot : Committed(s) => nft'[s] = nft[s],
         proc'.applied \in {proc.applied, NeverApplied}
  PROVE  KernelOK'
BY DEF Inv, KernelOK

\* A start, a change of the file and the timer.
LEMMA ReconcileKeeps ==
  ASSUME Inv, Boot \/ Watch \/ Tick
  PROVE  Inv'
<1>1. /\ want' = want /\ server' = server /\ host' = host /\ kernel' = kernel /\ crossed' = crossed /\ UNCHANGED panel
  BY DEF Boot, Watch, Tick, rows
<1>2. /\ proc \in Process /\ host \in Server /\ kernel \in SUBSET App /\ crossed \in BOOLEAN
  BY DEF Inv, DaemonOK, PanelOK
<1>3. PICK p \in Process :
        /\ Reconcile(p) /\ SyncNat(Rules(p.cfg), p.applied)
        /\ p.cfg \in Config /\ p.seen = p.cfg /\ host.file \in Config
        /\ p.at \in {"starting", "up"} /\ p.applied \in {proc.applied, NeverApplied}
  <2>1. CASE Boot
    <3>1. PICK p : p = [Down EXCEPT !.at = "starting", !.cfg = host.file, !.seen = host.file]
      OBVIOUS
    <3>2. host.file \in Config
      BY <1>2, <2>1 DEF Boot, Server, Files
    <3>3. Unwritten \in Files /\ host.file \in Files /\ [a \in App |-> None] \in Config
      BY <3>2 DEF Files, Config
    <3>4. p \in Process /\ p.cfg = host.file /\ p.seen = host.file /\ p.at = "starting" /\ p.applied = NeverApplied
      BY <3>1, <3>3 DEF Down, Process
    <3>5. Reconcile(p) /\ SyncNat(Rules(p.cfg), p.applied)
      BY <2>1, <3>1, <3>4 DEF Boot
    <3> QED  BY <3>2, <3>4, <3>5
  <2>2. CASE Watch
    <3>1. PICK p : p = [proc EXCEPT !.cfg = host.file, !.seen = host.file]
      OBVIOUS
    <3>2. proc.at = "up" /\ host.file \in Config /\ host.file \in Files
      BY <2>2 DEF Watch, Inv, DaemonOK, Files
    <3>3. p \in Process /\ p.cfg = host.file /\ p.seen = host.file /\ p.at = "up" /\ p.applied = proc.applied
      BY <1>2, <3>1, <3>2 DEF Process
    <3>4. Reconcile(p) /\ SyncNat(Rules(p.cfg), p.applied)
      BY <2>2, <3>1, <3>3 DEF Watch
    <3> QED  BY <3>2, <3>3, <3>4
  <2>3. CASE Tick
    <3>1. Reconcile(proc) /\ SyncNat(Rules(proc.cfg), proc.applied) /\ proc.at = "up"
      BY <2>3 DEF Tick
    <3> QED  BY <1>2, <3>1 DEF Inv, DaemonOK
  <2> QED  BY <2>1, <2>2, <2>3
<1>4. /\ proc' \in Process /\ proc'.at = p.at /\ proc'.cfg = p.cfg /\ proc'.seen = p.seen
      /\ proc'.applied = p.applied
      /\ \A a \in App : proc'.bound[a] \in {None, p.cfg[a]}
      /\ Mishap \/ UNCHANGED bounds
  BY <1>3, Listeners
<1>5. Rules(p.cfg) \in SUBSET App
  BY <1>3 DEF Rules, Named, Config
<1>6. /\ nft' \in [Slot -> Command \union {Free}]
      /\ \A s \in Slot : Committed(s)' <=> Committed(s)
      /\ \A s \in Slot : Committed(s) => nft'[s] = nft[s]
  BY <1>3, <1>5, Started
<1>7. PanelOK'
  BY <1>1, <1>4, PanelKept
<1>8. DaemonOK'
  BY <1>1, <1>2, <1>3, <1>4, <1>6 DEF DaemonOK
<1>9. KernelOK'
  BY <1>1, <1>3, <1>4, <1>6, KernelAgrees
<1> QED  BY <1>7, <1>8, <1>9 DEF Inv

\* A command commits: the kernel has its rules, unless an earlier one is still
\* to be reported.
LEMMA CommitKeeps ==
  ASSUME Inv, NEW s \in Slot, Commit(s)
  PROVE  Inv'
<1>1. /\ nft[s].at = "started" /\ kernel' = nft[s].rules /\ nft' = [nft EXCEPT ![s].at = "committed"]
      /\ crossed' = (crossed \/ \E q \in Slot : nft[q].at = "committed")
      /\ want' = want /\ server' = server /\ host' = host /\ proc' = proc /\ UNCHANGED panel /\ UNCHANGED bounds
  BY DEF Commit, rows
<1>2. nft \in [Slot -> Command \union {Free}] /\ nft[s] \in Command
  <2>1. nft \in [Slot -> Command \union {Free}] /\ nft[s] # Free
    BY <1>1 DEF Inv, DaemonOK, Free
  <2> QED  BY <2>1
<1>3. PICK c : c = [nft[s] EXCEPT !.at = "committed"]
  OBVIOUS
<1>4. c \in Command /\ c.at = "committed" /\ c.rules = nft[s].rules /\ nft[s].rules \in SUBSET App
  BY <1>2, <1>3 DEF Command
<1>5. nft' = [nft EXCEPT ![s] = c]
  BY <1>1, <1>3
<1>6. /\ nft' \in [Slot -> Command \union {Free}] /\ nft'[s] = c
      /\ \A q \in Slot : q # s => nft'[q] = nft[q]
  BY <1>2, <1>4, <1>5
<1>7. crossed' \in BOOLEAN
  BY <1>1
<1>8. proc.at # "down"
  BY <1>1 DEF Inv, DaemonOK, Free
<1>9. DaemonOK'
  BY <1>1, <1>4, <1>6, <1>7, <1>8 DEF Inv, DaemonOK
<1>10. KernelOK'
  <2> SUFFICES ASSUME ~crossed'
               PROVE  /\ \A p, q \in Slot : Committed(p)' /\ Committed(q)' => p = q
                      /\ \A q \in Slot : Committed(q)' => kernel' = nft'[q].rules
                      /\ \E q \in Slot : Committed(q)'
    BY DEF KernelOK
  <2>1. \A q \in Slot : nft[q].at # "committed"
    BY <1>1
  <2>2. \A q \in Slot : Committed(q)' <=> q = s
    BY <1>4, <1>6, <2>1 DEF Committed
  <2> QED  BY <1>1, <1>4, <1>6, <2>2
<1>11. PanelOK'
  BY <1>1, PanelKept
<1> QED  BY <1>9, <1>10, <1>11 DEF Inv

\* A command is reported: what it applied is what the kernel has, or nothing new
\* is known.
LEMMA ReportKeeps ==
  ASSUME Inv, NEW s \in Slot, Applied(s) \/ NotApplied(s)
  PROVE  Inv'
<1>1. /\ nft' = [nft EXCEPT ![s] = Free] /\ kernel' = kernel /\ crossed' = crossed
      /\ want' = want /\ server' = server /\ host' = host /\ UNCHANGED panel /\ (Mishap \/ UNCHANGED bounds)
      /\ nft[s].at \in {"started", "committed"}
  BY DEF Applied, NotApplied, rows
<1>2. /\ nft \in [Slot -> Command \union {Free}] /\ proc \in Process
      /\ proc.at # "down" /\ nft[s] \in Command
  <2>1. nft \in [Slot -> Command \union {Free}] /\ nft[s] # Free /\ proc \in Process
    BY <1>1 DEF Inv, DaemonOK, Free
  <2>2. proc.at # "down"
    BY <2>1 DEF Inv, DaemonOK
  <2> QED  BY <2>1, <2>2
<1>3. /\ nft' \in [Slot -> Command \union {Free}] /\ nft'[s] = Free
      /\ \A q \in Slot : q # s => nft'[q] = nft[q]
  BY <1>1, <1>2
<1>4. nft[s].rules \in SUBSET App
  BY <1>2 DEF Command
<1>5. PICK rules \in (SUBSET App) \union {NeverApplied}, ok \in BOOLEAN :
        /\ proc' = [proc EXCEPT !.applied = rules, !.natOk = ok, !.at = "up"]
        /\ \/ rules = nft[s].rules /\ Committed(s)
           \/ rules = proc.applied /\ ~Committed(s)
  <2>1. CASE Applied(s)
    BY <1>4, <2>1 DEF Applied, Committed
  <2>2. CASE NotApplied(s)
    <3>1. proc' = [proc EXCEPT !.natOk = FALSE, !.at = "up"] /\ ~Committed(s)
      BY <2>2 DEF NotApplied, Committed
    <3>2. proc' = [proc EXCEPT !.applied = proc.applied, !.natOk = FALSE, !.at = "up"]
      BY <1>2, <3>1 DEF Process
    <3>3. proc.applied \in (SUBSET App) \union {NeverApplied}
      BY <1>2 DEF Process
    <3> QED  BY <3>1, <3>2, <3>3
  <2> QED  BY <2>1, <2>2
<1>6. /\ proc' \in Process /\ proc'.at = "up" /\ proc'.cfg = proc.cfg /\ proc'.seen = proc.seen
      /\ proc'.bound = proc.bound /\ proc'.applied = rules
  BY <1>2, <1>5 DEF Process
<1>7. DaemonOK'
  BY <1>1, <1>2, <1>3, <1>6 DEF Inv, DaemonOK
<1>8. KernelOK'
  <2> SUFFICES ASSUME ~crossed
               PROVE  /\ \A p, q \in Slot : Committed(p)' /\ Committed(q)' => p = q
                      /\ \A q \in Slot : Committed(q)' => kernel = nft'[q].rules
                      /\ (\A q \in Slot : ~Committed(q)') /\ rules # NeverApplied => kernel = rules
    BY <1>1, <1>6 DEF KernelOK
  <2>1. \A q \in Slot : Committed(q)' <=> q # s /\ Committed(q)
    BY <1>3 DEF Committed, Free
  <2>2. /\ \A p, q \in Slot : Committed(p) /\ Committed(q) => p = q
        /\ \A q \in Slot : Committed(q) => kernel = nft[q].rules
        /\ (\A q \in Slot : ~Committed(q)) /\ proc.applied # NeverApplied => kernel = proc.applied
    BY DEF Inv, KernelOK
  <2> QED  BY <1>3, <1>5, <2>1, <2>2
<1>9. PanelOK'
  BY <1>1, PanelKept
<1> QED  BY <1>7, <1>8, <1>9 DEF Inv

\* A crash of the process and a reboot, after which the kernel redirects nothing.
LEMMA CrashKeeps ==
  ASSUME Inv, Crash \/ Reboot
  PROVE  Inv'
<1>1. /\ Killed /\ crossed' = crossed /\ kernel' \in {kernel, {}} /\ Mishap
      /\ want' = want /\ server' = server /\ host' = host /\ UNCHANGED panel
  BY DEF Crash, Reboot, rows
<1>2. kernel' \in SUBSET App
  BY <1>1 DEF Inv, DaemonOK
<1> QED  BY <1>1, <1>2, KilledKeeps, PanelKept DEF Inv

-----------------------------------------------------------------------------
(* The theorems *)

\* A new server satisfies the invariant.
LEMMA InitInv == Init => Inv
<1> SUFFICES ASSUME Init
             PROVE  Inv
  OBVIOUS
<1>1. Unwritten \in Files /\ [a \in App |-> None] \in Config
  BY DEF Files, Config
<1>2. Down \in Process /\ Down.at = "down" /\ Down.applied = NeverApplied
  BY <1>1 DEF Down, Process
<1>3. PanelOK
  <2>1. host \in Server
    BY <1>1 DEF Init, Server, Versions, Files
  <2>2. conv \in Converging /\ conv.at = "idle" /\ pass \in Passing /\ pass.at = "idle"
    BY Starts DEF Init
  <2>3. want \in Config /\ server \in Servers /\ ready \in BOOLEAN /\ lock = "free"
    BY DEF Init, Servers
  <2>4. mishaps \in 0..MaxMishaps /\ changes \in 0..MaxChanges
    BY ProxyAssumption DEF Init
  <2> QED  BY <2>1, <2>2, <2>3, <2>4 DEF PanelOK
<1>4. DaemonOK
  BY <1>2 DEF Init, DaemonOK
<1>5. KernelOK
  BY <1>2 DEF Init, KernelOK, Committed, Free
<1> QED  BY <1>3, <1>4, <1>5 DEF Inv

\* Every step keeps the invariant.
LEMMA NextInv == Inv /\ [Next]_vars => Inv'
<1> SUFFICES ASSUME Inv, [Next]_vars
             PROVE  Inv'
  OBVIOUS
<1>1. CASE UNCHANGED vars
  <2>1. /\ UNCHANGED daemon /\ want' = want /\ server' = server /\ host' = host /\ UNCHANGED panel /\ UNCHANGED bounds
    BY <1>1 DEF vars, rows
  <2> QED  BY <2>1, DaemonKept, PanelKept DEF Inv
<1>2. CASE Boot \/ Watch \/ Tick
  BY <1>2, ReconcileKeeps
<1>3. CASE \E s \in Slot : Nft(s)
  BY <1>3, CommitKeeps, ReportKeeps DEF Nft
<1>4. CASE Render \/ TakeLock \/ GiveUp
  BY <1>4, WaitKeeps
<1>5. CASE Converge
  BY <1>5, ProbeKeeps, WriteKeeps, FixKeeps, AsksKeep DEF Converge
<1>6. CASE Observe \/ Observed \/ Look \/ Lines \/ Skip \/ WriteHosts
  BY <1>6, PassKeeps
<1>7. CASE Crash \/ Reboot
  BY <1>7, CrashKeeps
<1>8. CASE RestartPanel
  BY <1>8, RestartKeeps
<1>9. CASE OperationBegins \/ ReconcilerBegins \/ OthersEnd \/ Change
  BY <1>9, OthersKeep
<1> QED  BY <1>1, <1>2, <1>3, <1>4, <1>5, <1>6, <1>7, <1>8, <1>9 DEF Next, Proxy

\* Invariance: the invariant of the server, of the panel's work on it and of the
\* proxy's commands.
THEOREM Invariance == Spec => []Inv
BY InitInv, NextInv, PTL DEF Spec

\* TypeCorrectness: every variable keeps its form, and the key of the server is
\* held by whoever works on it.
THEOREM TypeCorrectness == Spec => []TypeOK
<1>1. Inv => TypeOK
  <2> SUFFICES ASSUME Inv
               PROVE  TypeOK
    OBVIOUS
  <2>1. /\ want \in Config /\ server \in Servers
        /\ host.file \in Config \union {Unwritten} /\ host.names \subseteq App
        /\ {host.bin, host.unit} \subseteq {"missing", "old", "current"}
    BY DEF Inv, PanelOK, Server, Versions, Files
  <2>2. /\ proc.at \in {"down", "starting", "up"} /\ proc.natOk \in BOOLEAN
        /\ proc.at # "down" => proc.cfg \in Config /\ proc.seen = proc.cfg /\ proc.bound \in Config
        /\ nft \in [Slot -> [rules : SUBSET App, at : {"started", "committed"}] \union {Free}]
        /\ proc.at = "down" => \A s \in Slot : nft[s] = Free
        /\ kernel \subseteq App /\ crossed \in BOOLEAN
    BY DEF Inv, DaemonOK, Process, Command
  <2>3. /\ ready \in BOOLEAN
        /\ conv.at \in {"idle", "lock", "probe", "write", "fix", "active", "status"}
        /\ lock = "proxy" <=> conv.at \notin {"idle", "lock"}
        /\ lock = "hosts" <=> pass.at = "write"
        /\ lock = "network" <=> pass.at = "observe"
    BY DEF Inv, PanelOK, Converging
  <2> QED  BY <2>1, <2>2, <2>3 DEF TypeOK
<1> QED  BY <1>1, Invariance, PTL

\* SkippedRulesetIsInForce: syncNat does nothing when the ruleset is the last one
\* it knows applied; the kernel then has it, unless commands were reported in
\* another order than they committed in.
THEOREM SkippedRulesetIsInForce == Spec => []SkippedIsInForce
<1>1. Inv => SkippedIsInForce
  <2> SUFFICES ASSUME Inv, ~crossed, \A s \in Slot : ~Committed(s), proc.at = "up",
                      proc.applied = Rules(proc.cfg)
               PROVE  kernel = Rules(proc.cfg)
    BY DEF SkippedIsInForce
  <2>1. Rules(proc.cfg) \in SUBSET App
    BY DEF Inv, DaemonOK, Rules, Named, Config
  <2>2. proc.applied # NeverApplied
    BY <2>1, ProxyAssumption DEF NeverApplied
  <2> QED  BY <2>2 DEF Inv, KernelOK
<1> QED  BY <1>1, Invariance, PTL

\* OkMeansBound: the status of the proxy compares two counts, of the listeners and
\* of the apps; when it says ok, each app has its listener, with its current pool.
THEOREM OkMeansBound == Spec => []OkIsBound
<1>1. Inv => OkIsBound
  <2> SUFFICES ASSUME Inv, Status = "ok"
               PROVE  proc.bound = proc.cfg
    BY DEF OkIsBound
  <2>1. proc.at = "up" /\ Ok
    BY DEF Status
  <2>2. /\ proc.cfg \in Config /\ proc.bound \in Config
        /\ \A a \in App : proc.bound[a] \in {None, proc.cfg[a]}
    BY <2>1 DEF Inv, DaemonOK, Process
  <2> DEFINE B == Named(proc.bound)
             C == Named(proc.cfg)
  <2>3. B \subseteq C /\ C \subseteq App
    BY <2>2 DEF Named, Config
  <2>4. IsFiniteSet(C)
    BY <2>3, ProxyAssumption, FS_Subset
  <2>5. Cardinality(B) = Cardinality(C)
    BY <2>1 DEF Ok
  <2>6. B = C
    BY <2>3, <2>4, <2>5, FS_Subset
  <2>7. \A a \in App : proc.bound[a] = proc.cfg[a]
    BY <2>2, <2>6 DEF Named, Config
  <2> QED  BY <2>2, <2>7 DEF Config
<1> QED  BY <1>1, Invariance, PTL

=============================================================================
