------------------------------ MODULE VipProxy ------------------------------
(***************************************************************************)
(* Internal traffic on one server.  The panel renders the apps of its      *)
(* database into a configuration file, installs the proxy and its unit,    *)
(* and names the apps in /etc/hosts once the proxy answered; the proxy     *)
(* polls the file, binds one listener per app and redirects the ports of   *)
(* its apps to it with a kernel ruleset.                                   *)
(*                                                                         *)
(* The converge, the network controller with its pass over /etc/hosts, the *)
(* other reconcilers and operations share the key of the server; every SSH *)
(* call and every nft command is an action of its own, so what was read    *)
(* before it may be stale after it.  Two nft commands of the proxy may be  *)
(* in flight at once.                                                      *)
(***************************************************************************)
EXTENDS Integers, FiniteSets

CONSTANTS
  App,
  Pool,        \* the pools of backends an app can have
  None,
  Slot,        \* bound: nft commands in flight
  MaxChanges,  \* bound: changes of the database
  MaxMishaps   \* bound: failing calls, detachments, crashes, reboots, operations on the server

ASSUME ProxyAssumption ==
  /\ IsFiniteSet(App) /\ None \notin App \union Pool /\ MaxChanges \in Nat /\ MaxMishaps \in Nat

VARIABLES
  want,     \* the database: the pool of each app, named for its virtual address
  server,   \* the row of the server: ready, without a private address, or unavailable
  host,     \* on the server: configuration file, current binary, current unit, lines
  proc,     \* the proxy process
  nft,      \* its nft commands in flight
  kernel,   \* the apps whose ports the kernel redirects
  ready,    \* in the panel's memory: the proxy answered once
  conv,     \* the converge of this server
  pass,     \* the network controller: observation of the server, pass over /etc/hosts
  lock,     \* who holds server:<id>
  crossed,  \* history: a command committed before an earlier commit was reported
  mishaps, changes

rows == <<want, server>>
panel == <<ready, conv, pass, lock>>
daemon == <<proc, nft, kernel, crossed>>
bounds == <<mishaps, changes>>
vars == <<rows, host, daemon, panel, bounds>>

Config == [App -> Pool \union {None}]
Unwritten == [a \in {} |-> None]
Named(c) == {a \in DOMAIN c : c[a] # None}

\* renderNatRuleset reads the addresses and ports of the apps, not their backends.
Rules(c) == Named(c)
NeverApplied == {None}

Free == [rules |-> {}, at |-> "free"]
Down == [at |-> "down", cfg |-> Unwritten, seen |-> Unwritten, bound |-> [a \in App |-> None],
         applied |-> NeverApplied, natOk |-> FALSE]
Resting == [at |-> "idle", rendered |-> Unwritten, fix |-> "none", status |-> "none"]
Looking == [at |-> "idle", names |-> {}]

Mishap == mishaps < MaxMishaps /\ mishaps' = mishaps + 1 /\ UNCHANGED changes

-----------------------------------------------------------------------------
(* The proxy *)

\* A listener that is there takes the new pool; one that is not is bound, and
\* stays absent when that fails.
Bound(p, failing) == [a \in App |-> IF a \in failing /\ p.bound[a] = None THEN None ELSE p.cfg[a]]
Reconcile(p) ==
  \/ proc' = [p EXCEPT !.bound = Bound(p, {})] /\ UNCHANGED bounds
  \/ /\ Mishap
     /\ \E a \in Named(p.cfg) : p.bound[a] = None /\ proc' = [p EXCEPT !.bound = Bound(p, {a})]

\* syncNat: nothing to do when this ruleset is the last one applied, else nft is
\* started.
SyncNat(rules, applied) ==
  IF rules = applied THEN UNCHANGED nft
  ELSE \E s \in Slot :
         /\ nft[s].at = "free" /\ \A q \in Slot : nft[q].at = "free" => s <= q
         /\ nft' = [nft EXCEPT ![s] = [rules |-> rules, at |-> "started"]]

\* systemd starts the process again until it finds a configuration; the first
\* nft command is awaited before the status server and the watch start.
Boot ==
  /\ proc.at = "down" /\ "missing" \notin {host.bin, host.unit} /\ host.file # Unwritten
  /\ Reconcile([Down EXCEPT !.at = "starting", !.cfg = host.file, !.seen = host.file])
  /\ SyncNat(Rules(host.file), NeverApplied)
  /\ UNCHANGED <<rows, host, kernel, crossed, panel>>

\* The poll finds the file changed.
Watch ==
  /\ proc.at = "up" /\ host.file # proc.seen
  /\ Reconcile([proc EXCEPT !.cfg = host.file, !.seen = host.file])
  /\ SyncNat(Rules(host.file), proc.applied)
  /\ UNCHANGED <<rows, host, kernel, crossed, panel>>

\* The timer retries failed binds and failed commands.
Tick ==
  /\ proc.at = "up"
  /\ Reconcile(proc)
  /\ SyncNat(Rules(proc.cfg), proc.applied)
  /\ UNCHANGED <<rows, host, kernel, crossed, panel>>

Commit(s) ==
  /\ nft[s].at = "started"
  /\ kernel' = nft[s].rules
  /\ nft' = [nft EXCEPT ![s].at = "committed"]
  /\ crossed' = (crossed \/ \E q \in Slot : nft[q].at = "committed")
  /\ UNCHANGED <<rows, host, proc, panel, bounds>>

Applied(s) ==
  /\ nft[s].at = "committed"
  /\ proc' = [proc EXCEPT !.applied = nft[s].rules, !.natOk = TRUE, !.at = "up"]
  /\ nft' = [nft EXCEPT ![s] = Free]
  /\ UNCHANGED <<rows, host, kernel, crossed, panel, bounds>>

\* Faulty variant of NotApplied: the ruleset is taken for applied.
NotAppliedQuietly(s) ==
  /\ nft[s].at = "started"
  /\ proc' = [proc EXCEPT !.applied = nft[s].rules, !.natOk = FALSE, !.at = "up"]
  /\ nft' = [nft EXCEPT ![s] = Free]
  /\ Mishap
  /\ UNCHANGED <<rows, host, kernel, crossed, panel>>

NotApplied(s) ==
  /\ nft[s].at = "started"
  /\ proc' = [proc EXCEPT !.natOk = FALSE, !.at = "up"]
  /\ nft' = [nft EXCEPT ![s] = Free]
  /\ Mishap
  /\ UNCHANGED <<rows, host, kernel, crossed, panel>>

\* The unit and the commands it started are killed; the ruleset stays.
Killed == proc' = Down /\ nft' = [s \in Slot |-> Free]

Crash ==
  /\ proc.at # "down"
  /\ Killed /\ Mishap
  /\ UNCHANGED <<rows, host, kernel, crossed, panel>>

Reboot ==
  /\ Killed /\ kernel' = {} /\ Mishap
  /\ UNCHANGED <<rows, host, crossed, panel>>

\* GET /status; nobody answers before the process is up, or when curl fails.
Ok == proc.natOk /\ Cardinality(Named(proc.bound)) = Cardinality(Named(proc.cfg))
Status == IF proc.at # "up" THEN "none" ELSE IF Ok THEN "ok" ELSE "bad"

-----------------------------------------------------------------------------
(* The panel: converge *)

Servers == {"ready", "detached", "unavailable"}

Took(who) == lock = "free" /\ lock' = who
Leave == conv' = Resting /\ lock' = "free"

\* The configuration is rendered once, then the key of each ready server is waited for.
Render ==
  /\ conv.at = "idle" /\ server # "unavailable"
  /\ conv' = [Resting EXCEPT !.at = "lock", !.rendered = want]
  /\ UNCHANGED <<rows, host, daemon, ready, pass, lock, bounds>>

TakeLock ==
  /\ conv.at = "lock" /\ Took("proxy")
  /\ conv' = [conv EXCEPT !.at = "probe"]
  /\ UNCHANGED <<rows, host, daemon, ready, pass, bounds>>

\* Ten seconds have passed, which a controller needs only if its calls hang.
GiveUp ==
  /\ conv.at = "lock" /\ lock # "free"
  /\ \/ lock = "operation" /\ UNCHANGED bounds
     \/ Mishap
  /\ conv' = Resting
  /\ UNCHANGED <<rows, host, daemon, ready, pass, lock>>

\* The outcome of a converge: an explicit "not ok" is not ready, no answer is.
Settled(status) == ready' = (ready \/ status # "bad") /\ Leave
Failed == Leave /\ Mishap /\ UNCHANGED ready

\* curl may fail where the proxy would have answered.
Answer(status) == \/ status = Status /\ UNCHANGED bounds
                  \/ status = "none" /\ Status # "none" /\ Mishap

\* One round trip reports what all later steps go by.
Probe ==
  /\ conv.at = "probe"
  /\ LET fix == IF host.bin # "current" \/ proc.at = "down" THEN "install"
                ELSE IF host.unit # "current" THEN "unit" ELSE "none" IN
     \E status \in {"ok", "bad", "none"} :
       /\ Answer(status)
       /\ IF host.file = conv.rendered /\ fix = "none" THEN Settled(status)
          ELSE /\ conv' = [conv EXCEPT !.fix = fix, !.status = status,
                                       !.at = IF host.file = conv.rendered THEN "fix" ELSE "write"]
               /\ UNCHANGED <<ready, lock>>
  /\ UNCHANGED <<rows, host, daemon, pass>>

\* Faulty variant of ProbeFails: the key of the server is not released.
ProbeFailsHolding ==
  /\ conv.at = "probe" /\ conv' = Resting /\ Mishap
  /\ UNCHANGED <<rows, host, daemon, ready, pass, lock>>

ProbeFails ==
  /\ conv.at = "probe" /\ Failed
  /\ UNCHANGED <<rows, host, daemon, pass>>

\* The configuration comes first, so that whatever starts next finds it.
Write ==
  /\ conv.at = "write"
  /\ host' = [host EXCEPT !.file = conv.rendered]
  /\ IF conv.fix = "none" THEN Settled(conv.status)
     ELSE conv' = [conv EXCEPT !.at = "fix"] /\ UNCHANGED <<ready, lock>>
  /\ UNCHANGED <<rows, daemon, pass, bounds>>

\* The call fails; its command may have done its work.
WriteFails ==
  /\ conv.at = "write" /\ Failed
  /\ host' \in {host, [host EXCEPT !.file = conv.rendered]}
  /\ UNCHANGED <<rows, daemon, pass>>

\* The binary is compiled, shipped and verified before the service restarts.
Install ==
  /\ conv.at = "fix" /\ conv.fix = "install"
  /\ host' = [host EXCEPT !.bin = "current", !.unit = "current"]
  /\ Killed
  /\ conv' = [conv EXCEPT !.at = "active"]
  /\ UNCHANGED <<rows, kernel, crossed, ready, pass, lock, bounds>>

RewriteUnit ==
  /\ conv.at = "fix" /\ conv.fix = "unit"
  /\ host' = [host EXCEPT !.unit = "current"]
  /\ Killed
  /\ conv' = [conv EXCEPT !.at = "status"]
  /\ UNCHANGED <<rows, kernel, crossed, ready, pass, lock, bounds>>

\* The script or the restart fails, before or after what it wrote.
FixFails ==
  /\ conv.at = "fix" /\ Failed
  /\ \/ UNCHANGED <<host, proc, nft>>
     \/ conv.fix = "install" /\ host' = [host EXCEPT !.bin = "current"] /\ UNCHANGED <<proc, nft>>
     \/ conv.fix = "unit" /\ host' = [host EXCEPT !.unit = "current"] /\ UNCHANGED <<proc, nft>>
     \/ host' = [host EXCEPT !.bin = "current", !.unit = "current"] /\ Killed
  /\ UNCHANGED <<rows, kernel, crossed, pass>>

\* "sleep 3; systemctl is-active": three seconds outlive a start, not a crash.
Active ==
  /\ conv.at = "active"
  /\ \/ proc.at # "down" /\ conv' = [conv EXCEPT !.at = "status"] /\ UNCHANGED <<ready, lock, bounds>>
     \/ proc.at = "down" /\ Failed
  /\ UNCHANGED <<rows, host, daemon, pass>>

\* After a restart the status of the new process counts, not that of the probe.
AskStatus ==
  /\ conv.at = "status"
  /\ \E status \in {"ok", "bad", "none"} : Answer(status) /\ Settled(status)
  /\ UNCHANGED <<rows, host, daemon, pass>>

-----------------------------------------------------------------------------
(* The panel: the network controller *)

\* The controller first asks the provider about the server, unless somebody works on it
\* or there is no token.
Observe ==
  /\ pass.at = "idle" /\ Took("network")
  /\ pass' = [pass EXCEPT !.at = "observe"]
  /\ UNCHANGED <<rows, host, daemon, ready, conv, bounds>>

\* What was repaired or seen to be running is ready; a server that lost its private
\* network and is not attached again loses its address in the row; one that is off or
\* gone twice is unavailable; and a failing call says nothing.
Observed ==
  /\ pass.at = "observe"
  /\ pass' = Looking /\ lock' = "free"
  /\ \/ server' = "ready" /\ UNCHANGED bounds
     \/ server' \in Servers /\ Mishap
  /\ UNCHANGED <<want, host, daemon, ready, conv>>

Look ==
  /\ pass.at = "idle" /\ server # "unavailable"
  /\ pass' = [at |-> "lock", names |-> Named(want)]
  /\ UNCHANGED <<rows, host, daemon, ready, conv, lock, bounds>>

\* A server whose proxy never answered since the panel started gets no names, nor one
\* without a private address; one that is not ready any more is left alone.
Lines ==
  /\ pass.at = "lock" /\ lock = "free"
  /\ IF server = "unavailable" THEN pass' = Looking /\ UNCHANGED lock
     ELSE /\ pass' = [at |-> "write", names |-> IF ready /\ server = "ready" THEN pass.names ELSE {}]
          /\ lock' = "hosts"
  /\ UNCHANGED <<rows, host, daemon, ready, conv, bounds>>

\* Unlike the converge, this pass does not wait for the key.
Skip ==
  /\ pass.at = "lock" /\ lock # "free"
  /\ pass' = Looking
  /\ UNCHANGED <<rows, host, daemon, ready, conv, lock, bounds>>

WriteHosts ==
  /\ pass.at = "write"
  /\ pass' = Looking /\ lock' = "free"
  /\ \/ host' = [host EXCEPT !.names = pass.names] /\ UNCHANGED bounds
     \/ UNCHANGED host /\ Mishap
  /\ UNCHANGED <<rows, daemon, ready, conv>>

-----------------------------------------------------------------------------
(* Everybody else *)

\* Apps are inserted and deleted, their replicas come and go.  An address is its
\* app's for life; the next app gets the lowest free one, so perhaps the same.
Change ==
  /\ changes < MaxChanges /\ changes' = changes + 1
  /\ want' \in Config \ {want}
  /\ UNCHANGED <<server, host, daemon, panel, mishaps>>

\* An operation on the server.
OperationBegins ==
  /\ Took("operation") /\ Mishap
  /\ UNCHANGED <<rows, host, daemon, ready, conv, pass>>

\* The reconcilers of the firewall and of the volumes, which do not wait either.
ReconcilerBegins ==
  /\ Took("reconciler")
  /\ UNCHANGED <<rows, host, daemon, ready, conv, pass, bounds>>

OthersEnd ==
  /\ lock \in {"operation", "reconciler"} /\ lock' = "free"
  /\ UNCHANGED <<rows, host, daemon, ready, conv, pass, bounds>>

\* The panel forgets what was ready and may come with another binary or unit; the
\* file it was writing may still arrive.
Outdated(v) == IF v = "missing" THEN {v} ELSE {v, "old"}
RestartPanel ==
  /\ Mishap
  /\ ready' = FALSE /\ conv' = Resting /\ pass' = Looking /\ lock' = "free"
  /\ \E bin \in Outdated(host.bin), unit \in Outdated(host.unit),
        file \in {host.file} \union {c \in {conv.rendered} : conv.at = "write"} :
       host' = [host EXCEPT !.bin = bin, !.unit = unit, !.file = file]
  /\ UNCHANGED <<rows, daemon, changes>>

-----------------------------------------------------------------------------

\* A new server, and apps without one on it.
Init ==
  /\ want \in Config /\ server = "ready"
  /\ host = [file |-> Unwritten, bin |-> "missing", unit |-> "missing", names |-> {}]
  /\ proc = Down /\ nft = [s \in Slot |-> Free] /\ kernel = {} /\ crossed = FALSE
  /\ ready = FALSE /\ conv = Resting /\ pass = Looking /\ lock = "free"
  /\ mishaps = 0 /\ changes = 0

Nft(s) == Commit(s) \/ Applied(s) \/ NotApplied(s)
Proxy == Boot \/ Watch \/ Tick \/ \E s \in Slot : Nft(s)
Converge == Probe \/ ProbeFails \/ Write \/ WriteFails \/ Install \/ RewriteUnit \/ FixFails \/ Active \/ AskStatus

Next ==
  \/ Proxy
  \/ Render \/ TakeLock \/ GiveUp \/ Converge
  \/ Observe \/ Observed \/ Look \/ Lines \/ Skip \/ WriteHosts
  \/ Crash \/ Reboot \/ RestartPanel \/ OperationBegins \/ ReconcilerBegins \/ OthersEnd \/ Change

Spec == Init /\ [][Next]_vars

\* The timers of the proxy and of the panel go on, calls return, the service is
\* started again, and the converge, which asks for the key of the server every quarter
\* of a second, finds it free in the end.  Nothing of the kind holds for the network
\* controller.
FairSpec ==
  /\ Spec
  /\ WF_vars(Boot) /\ WF_vars(Watch) /\ WF_vars(Tick)
  /\ \A s \in Slot : WF_vars(Nft(s))
  /\ WF_vars(Render) /\ SF_vars(TakeLock) /\ WF_vars(Converge)
  /\ WF_vars(Observed) /\ WF_vars(Look) /\ WF_vars(Lines \/ Skip) /\ WF_vars(WriteHosts)
  /\ WF_vars(OthersEnd)

-----------------------------------------------------------------------------
(* Properties *)

\* TypeOK: the forms of the state; the key of the server is held by whoever works
\* on it, and a process that is up knows its listeners.
TypeOK ==
  /\ want \in Config /\ server \in Servers
  /\ host.file \in Config \union {Unwritten} /\ host.names \subseteq App
  /\ {host.bin, host.unit} \subseteq {"missing", "old", "current"}
  /\ proc.at \in {"down", "starting", "up"} /\ proc.natOk \in BOOLEAN
  /\ proc.at # "down" => proc.cfg \in Config /\ proc.seen = proc.cfg /\ proc.bound \in Config
  /\ nft \in [Slot -> [rules : SUBSET App, at : {"started", "committed"}] \union {Free}]
  /\ proc.at = "down" => \A s \in Slot : nft[s] = Free
  /\ kernel \subseteq App /\ crossed \in BOOLEAN /\ ready \in BOOLEAN
  /\ conv.at \in {"idle", "lock", "probe", "write", "fix", "active", "status"}
  /\ lock = "proxy" <=> conv.at \notin {"idle", "lock"}
  /\ lock = "hosts" <=> pass.at = "write"
  /\ lock = "network" <=> pass.at = "observe"

\* Once the database rests, the proxy comes to serve its configuration and the kernel
\* to redirect its ports, for good: no change, restart, failed call or failed command
\* is lost.  And the server comes to resolve its apps, or no name while it has no
\* private address, unless every pass from some moment on finds the key taken: the
\* proxy's converge waits because "skipping a busy lock can starve that server's proxy
\* forever", and the pass skips a busy lock.  Left out: a server that stays
\* unavailable; two nft commands that are reported in another order than they were
\* committed in; and a proxy whose last command failed before the configuration went
\* back to the ruleset applied earlier, which then never reports ok again, so that a
\* panel restarted after that gives no names.
Stuck == ~ready /\ ~proc.natOk /\ proc.applied = Rules(proc.cfg)
Serves == proc.at = "up" /\ proc.bound = want /\ kernel = Rules(want)
Resolves == host.names = (IF server = "ready" THEN Named(want) ELSE {}) \/ Stuck
Excused == crossed \/ server = "unavailable"
Starved == <>[][~Lines]_vars
Wired ==
  /\ <>[](Excused \/ (host.file = want /\ Serves))
  /\ Starved \/ <>[](Excused \/ Resolves)

=============================================================================
