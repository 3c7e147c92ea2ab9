----------------------------- MODULE StackProofs -----------------------------
(***************************************************************************)
(* Stacks of any members and dependencies, for any requests and any number *)
(* of rows and mishaps: the types, that no restart of a parent deploys or  *)
(* removes a member twice, that a destruction which reports done leaves no *)
(* planned app but those whose child was cancelled, that a member is only  *)
(* begun when those it needs serve, and that a deployment which reports    *)
(* done leaves the members it was asked for and no others.                 *)
(*                                                                         *)
(* What the first three need is Inv: the id of an app names the row that   *)
(* inserted it, for ever, and one parent at a time walks through its       *)
(* members.  The last two need Desired as well: Queue, that the parents    *)
(* run in the order of their rows; ChildrenOK and AppsOK, that what is     *)
(* under way belongs to the parent that leads, or is a stray; Progress,    *)
(* that behind the place of that parent everything serves; and Clearing,   *)
(* that each app it no longer wants is gone, or has a child removing it.   *)
(***************************************************************************)
EXTENDS Stack, FiniteSetTheorems, SequenceTheorems, TLAPS

-----------------------------------------------------------------------------
(* The inductive invariant *)

Kinds == Parents \union {"restart_app", "deploy", "apply", "destroy_app"}
Steps == {"plan", "deploy_apps", "reconcile_removals", "finalize", "plan_destroy",
          "destroy_members", "delete_stack_row", "insert", "serve", "redeploy", "mark",
          "remove", "restart"}
Status == Settled \union {"pending", "running"}
OpRow ==
  [kind : Kinds, parent : Nat, at : Steps, status : Status, cancel : BOOLEAN,
   member : Members \union {NoMember}, app : Nat, stack : Nat, req : Nat, out : SUBSET Nat]
AppRow ==
  [id : Nat, stack : Nat, image : Nat, deployed : Nat,
   status : {"gone", "deploying", "running", "unhealthy", "destroying", "cleanup_failed"},
   doomed : BOOLEAN]
Place ==
  [left : SUBSET Members, level : SUBSET Members, todo : SUBSET Members, wait : SUBSET Nat,
   asked : BOOLEAN]

\* What the rows of a kind name, besides their types.
Asks(row) ==
  /\ row.kind \in {"deploy_stack", "deploy", "apply"} => row.req \in DOMAIN Requests
  /\ row.kind \in {"deploy", "apply"} => row.member \in Members /\ row.parent # 0

Types ==
  /\ stack \in 0..Len(ops)
  /\ ops \in Seq(OpRow) /\ apps \in [Members -> AppRow] /\ walk \in Place
  /\ \A i \in DOMAIN ops : ops[i].parent < i /\ Asks(ops[i])
  /\ walk.wait \subseteq DOMAIN ops /\ walk.todo \subseteq walk.level
  /\ requests \in 0..MaxRequests /\ mishaps \in 0..MaxMishaps

\* Two rows that the idempotency key of a child would tell to be one.
Brings(row) == row.kind \in {"deploy", "apply"}
SameChild(r, q) ==
  /\ r.parent = q.parent /\ r.parent # 0
  /\ \/ Brings(r) /\ Brings(q) /\ r.member = q.member
     \/ r.kind = "destroy_app" /\ q.kind = "destroy_app" /\ r.app = q.app
Once == \A i, j \in DOMAIN ops : SameChild(ops[i], ops[j]) => i = j

\* The id of an app, of one to be removed or planned to be, is the row of a
\* deployment that inserted it.
Inserted(id) == id \in DOMAIN ops /\ ops[id].kind = "deploy" /\ ops[id].at = "serve"
Ids ==
  /\ \A m \in Members : Exists(m) => Inserted(apps[m].id) /\ ops[apps[m].id].member = m
  /\ \A i \in DOMAIN ops : ops[i].kind = "destroy_app" => Inserted(ops[i].app)
  /\ \A i \in DOMAIN ops : \A id \in ops[i].out : Inserted(id)

\* An app that was removed does not come back.
GoneForGood ==
  \A i \in DOMAIN ops : ops[i].kind = "destroy_app" /\ ops[i].status = "done" =>
    \A m \in Members : Exists(m) => apps[m].id # ops[i].app

\* One parent walks at a time; a destruction that asked for its members waits for
\* a child of each that is still there.
Removes(row, p, id) == row.kind = "destroy_app" /\ row.parent = p /\ row.app = id
Leads(i) == ops[i].status = "running" /\ ops[i].kind \in Parents
Planned(i) == {m \in Members : Exists(m) /\ apps[m].id \in ops[i].out}
Walks ==
  /\ \A i, j \in DOMAIN ops : Leads(i) /\ Leads(j) => i = j
  /\ \A i \in DOMAIN ops : Leads(i) /\ walk.asked =>
       ops[i].at \in {"reconcile_removals", "destroy_members"}
  /\ \A i \in DOMAIN ops : Leads(i) /\ walk.asked /\ ops[i].at = "destroy_members" =>
       \A m \in Planned(i) : \E c \in walk.wait : Removes(ops[c], i, apps[m].id)

\* A destruction about to delete the stack has removed its members, or a child
\* was cancelled.
Ending ==
  \A i \in DOMAIN ops : ops[i].kind = "destroy_stack" /\ ops[i].at = "delete_stack_row" =>
    \A m \in Planned(i) : \E c \in DOMAIN ops :
      Removes(ops[c], i, apps[m].id) /\ ops[c].status = "cancelled"

Inv == Types /\ Once /\ Ids /\ GoneForGood /\ Walks /\ Ending

-----------------------------------------------------------------------------
(* What a step may do to the tables *)

\* A row keeps what it was enqueued with, and an inserted app and a cancelled
\* child stay so.
RowKept(i) ==
  /\ ops'[i].kind = ops[i].kind /\ ops'[i].parent = ops[i].parent
  /\ ops'[i].member = ops[i].member /\ ops'[i].req = ops[i].req
  /\ ops[i].kind # "deploy" => ops'[i].app = ops[i].app
  /\ ops[i].at = "serve" => ops'[i].at = "serve"
  /\ ops[i].status = "cancelled" => ops'[i].status = "cancelled"

TableKept ==
  /\ ops' \in Seq(OpRow) /\ Len(ops) <= Len(ops')
  /\ \A i \in DOMAIN ops : RowKept(i)

InsertedNext(id) == id \in DOMAIN ops' /\ ops'[id].kind = "deploy" /\ ops'[id].at = "serve"

\* The apps lose members, or gain one that was never inserted before.
AppsKept ==
  /\ apps' \in [Members -> AppRow]
  /\ \A m \in Members : apps'[m].id \in {0, apps[m].id} \/
       /\ ~Inserted(apps'[m].id)
       /\ InsertedNext(apps'[m].id) /\ ops'[apps'[m].id].member = m

\* A removal that is done has removed its app, or was done before.
RemovalsTrue ==
  \A i \in DOMAIN ops' : ops'[i].kind = "destroy_app" /\ ops'[i].status = "done" =>
    \/ i \in DOMAIN ops /\ ops[i].status = "done"
    \/ \A m \in Members : apps'[m].id # 0 => apps'[m].id # ops'[i].app

\* The tables before and after a step as functions over row numbers.
LEMMA TableDomain ==
  ASSUME ops \in Seq(OpRow), TableKept
  PROVE  /\ DOMAIN ops = 1..Len(ops) /\ DOMAIN ops' = 1..Len(ops')
         /\ Len(ops) \in Nat /\ Len(ops') \in Nat
         /\ DOMAIN ops \subseteq DOMAIN ops'
         /\ \A i \in DOMAIN ops : ops[i] \in OpRow
         /\ \A i \in DOMAIN ops' : ops'[i] \in OpRow
<1>1. /\ DOMAIN ops = 1..Len(ops) /\ Len(ops) \in Nat
      /\ \A i \in DOMAIN ops : ops[i] \in OpRow
  BY ElementOfSeq, LenProperties
<1>2. /\ DOMAIN ops' = 1..Len(ops') /\ Len(ops') \in Nat
      /\ \A i \in DOMAIN ops' : ops'[i] \in OpRow
  BY ElementOfSeq, LenProperties DEF TableKept
<1> QED  BY <1>1, <1>2 DEF TableKept

\* A table whose new rows repeat no child has every child once.
LEMMA OnceKept ==
  ASSUME Types, Once, TableKept,
         \A i \in DOMAIN ops' \ DOMAIN ops : \A j \in DOMAIN ops' :
           SameChild(ops'[i], ops'[j]) => i = j
  PROVE  Once'
<1> SUFFICES ASSUME NEW i \in DOMAIN ops', NEW j \in DOMAIN ops', SameChild(ops'[i], ops'[j])
             PROVE  i = j
  BY DEF Once
<1>1. SameChild(ops'[j], ops'[i])
  BY DEF SameChild
<1>2. CASE i \in DOMAIN ops /\ j \in DOMAIN ops
  <2>1. SameChild(ops[i], ops[j])
    BY <1>2, TableDomain DEF Types, TableKept, RowKept, SameChild, Brings
  <2> QED  BY <1>2, <2>1 DEF Once
<1> QED  BY <1>1, <1>2

\* The row that inserted an app stays, and names the same member.
LEMMA InsertedKept ==
  ASSUME Types, TableKept, NEW id, Inserted(id)
  PROVE  InsertedNext(id) /\ ops'[id].member = ops[id].member
BY TableDomain DEF Types, TableKept, RowKept, Inserted, InsertedNext

\* Ids keep naming the rows that inserted them, when the new rows ask only for
\* the removal of inserted apps and plan nothing.
LEMMA IdsKept ==
  ASSUME Types, Ids, TableKept, AppsKept,
         \A i \in DOMAIN ops' \ DOMAIN ops :
           /\ ops'[i].kind = "destroy_app" => Inserted(ops'[i].app)
           /\ ops'[i].out = {},
         \A i \in DOMAIN ops : \A id \in ops'[i].out : Inserted(id)
  PROVE  Ids'
<1>1. ASSUME NEW m \in Members, apps'[m].id # 0
      PROVE  InsertedNext(apps'[m].id) /\ ops'[apps'[m].id].member = m
  <2>1. CASE apps'[m].id = apps[m].id
    <3>1. Inserted(apps[m].id) /\ ops[apps[m].id].member = m
      BY <1>1, <2>1 DEF Ids, Exists
    <3> QED  BY <2>1, <3>1, InsertedKept
  <2>2. CASE apps'[m].id # apps[m].id
    BY <1>1, <2>2 DEF AppsKept, Inserted
  <2> QED  BY <2>1, <2>2
<1>2. ASSUME NEW i \in DOMAIN ops', ops'[i].kind = "destroy_app"
      PROVE  InsertedNext(ops'[i].app)
  <2>1. Inserted(ops'[i].app)
    BY <1>2 DEF Ids, TableKept, RowKept
  <2> QED  BY <2>1, InsertedKept
<1>3. ASSUME NEW i \in DOMAIN ops', NEW id \in ops'[i].out
      PROVE  InsertedNext(id)
  <2>1. Inserted(id)
    BY <1>3
  <2> QED  BY <2>1, InsertedKept
<1> QED  BY <1>1, <1>2, <1>3 DEF Ids, Exists, Inserted, InsertedNext

\* An app that a removal or a plan names, and that is there after the step, was
\* there before.
LEMMA NamedBefore ==
  ASSUME AppsKept, NEW m \in Members, apps'[m].id # 0, Inserted(apps'[m].id)
  PROVE  Exists(m) /\ apps[m].id = apps'[m].id
BY DEF AppsKept, Exists

\* What was removed stays gone, as an insert takes an id no app had before.
LEMMA GoneKept ==
  ASSUME Types, Ids, GoneForGood, TableKept, AppsKept, RemovalsTrue
  PROVE  GoneForGood'
<1> SUFFICES ASSUME NEW i \in DOMAIN ops', ops'[i].kind = "destroy_app", ops'[i].status = "done",
                    NEW m \in Members, apps'[m].id # 0, apps'[m].id = ops'[i].app
             PROVE  FALSE
  BY DEF GoneForGood, Exists
<1>1. i \in DOMAIN ops /\ ops[i].status = "done"
  BY DEF RemovalsTrue
<1>2. ops[i].kind = "destroy_app" /\ ops[i].app = ops'[i].app
  BY <1>1 DEF TableKept, RowKept
<1>3. Inserted(ops[i].app)
  BY <1>1, <1>2 DEF Ids
<1>4. Exists(m) /\ apps[m].id = ops[i].app
  BY <1>2, <1>3, NamedBefore
<1> QED  BY <1>1, <1>2, <1>4 DEF GoneForGood

\* A removal stays the removal of the same app, and cancelled if it was.
LEMMA RemovesKept ==
  ASSUME Types, TableKept, NEW p, NEW id, NEW c \in DOMAIN ops, Removes(ops[c], p, id)
  PROVE  /\ c \in DOMAIN ops' /\ Removes(ops'[c], p, id)
         /\ ops[c].status = "cancelled" => ops'[c].status = "cancelled"
BY TableDomain DEF Types, TableKept, RowKept, Removes

\* What was planned of a row that keeps its plan.
LEMMA PlannedBefore ==
  ASSUME Ids, AppsKept, NEW i \in DOMAIN ops, ops'[i].out = ops[i].out, NEW m \in Planned(i)'
  PROVE  m \in Planned(i) /\ apps'[m].id = apps[m].id
<1>1. m \in Members /\ apps'[m].id # 0 /\ apps'[m].id \in ops[i].out
  BY DEF Planned, Exists
<1>2. Inserted(apps'[m].id)
  BY <1>1 DEF Ids
<1> QED  BY <1>1, <1>2, NamedBefore DEF Planned

\* A destruction that is past its members stays right about them, when no other
\* row gets there.
LEMMA EndingKept ==
  ASSUME Types, Ids, Ending, TableKept, AppsKept,
         \A i \in DOMAIN ops' : ops'[i].kind = "destroy_stack" /\ ops'[i].at = "delete_stack_row" =>
           i \in DOMAIN ops /\ ops[i].at = "delete_stack_row" /\ ops'[i].out = ops[i].out
  PROVE  Ending'
<1> SUFFICES ASSUME NEW i \in DOMAIN ops', ops'[i].kind = "destroy_stack",
                    ops'[i].at = "delete_stack_row", NEW m \in Planned(i)'
             PROVE  \E c \in DOMAIN ops' : Removes(ops'[c], i, apps'[m].id) /\ ops'[c].status = "cancelled"
  BY DEF Ending, Removes
<1>1. /\ i \in DOMAIN ops /\ ops[i].at = "delete_stack_row" /\ ops'[i].out = ops[i].out
      /\ ops[i].kind = "destroy_stack"
  BY DEF TableKept, RowKept
<1>2. m \in Planned(i) /\ apps'[m].id = apps[m].id
  BY <1>1, PlannedBefore
<1>3. PICK c \in DOMAIN ops : Removes(ops[c], i, apps[m].id) /\ ops[c].status = "cancelled"
  BY <1>1, <1>2 DEF Ending
<1> QED  BY <1>2, <1>3, RemovesKept

\* A step that lets no second parent run, and leaves alone a place where
\* members were asked for, keeps the walks.
LEMMA WalksKept ==
  ASSUME Types, Ids, Walks, TableKept, AppsKept,
         \A i, j \in DOMAIN ops' : Leads(i)' /\ Leads(j)' => i = j,
         walk'.asked =>
           /\ walk' = walk
           /\ \A i \in DOMAIN ops' : Leads(i)' =>
                i \in DOMAIN ops /\ Leads(i) /\ ops'[i].at = ops[i].at /\ ops'[i].out = ops[i].out
  PROVE  Walks'
<1>1. ASSUME NEW i \in DOMAIN ops', Leads(i)', walk'.asked
      PROVE  ops'[i].at \in {"reconcile_removals", "destroy_members"}
  BY <1>1 DEF Walks
<1>2. ASSUME NEW i \in DOMAIN ops', Leads(i)', walk'.asked, ops'[i].at = "destroy_members",
             NEW m \in Planned(i)'
      PROVE  \E c \in walk'.wait : Removes(ops'[c], i, apps'[m].id)
  <2>1. /\ walk' = walk /\ i \in DOMAIN ops /\ Leads(i)
        /\ ops'[i].at = ops[i].at /\ ops'[i].out = ops[i].out
    BY <1>2
  <2>2. m \in Planned(i) /\ apps'[m].id = apps[m].id
    BY <2>1, PlannedBefore
  <2>3. PICK c \in walk.wait : Removes(ops[c], i, apps[m].id)
    BY <1>2, <2>1, <2>2 DEF Walks
  <2>4. c \in DOMAIN ops
    BY DEF Types
  <2> QED  BY <2>1, <2>2, <2>3, <2>4, RemovesKept
<1> QED  BY <1>1, <1>2 DEF Walks, Removes

\* Rows that keep their plan and place, except for their status.
SameRow(old, new) ==
  /\ new.kind = old.kind /\ new.parent = old.parent /\ new.member = old.member
  /\ new.req = old.req /\ new.out = old.out
  /\ old.kind # "deploy" => new.app = old.app
  /\ old.at = "serve" => new.at = "serve"
  /\ old.status = "cancelled" => new.status = "cancelled"

\* Where a step leaves the parents: one leads at most, while removals are waited
\* for it is the same one at the same place, and none comes to delete the stack.
ParentsKept ==
  /\ \A i, j \in DOMAIN ops' : Leads(i)' /\ Leads(j)' => i = j
  /\ walk'.asked => walk' = walk /\ \A i \in DOMAIN ops' : Leads(i)' =>
       i \in DOMAIN ops /\ Leads(i) /\ ops'[i].at = ops[i].at
  /\ \A i \in DOMAIN ops : ops'[i].kind = "destroy_stack" /\ ops'[i].at = "delete_stack_row" =>
       ops[i].at = "delete_stack_row"

WorldKept ==
  /\ stack' \in 0..Len(ops') /\ walk' \in Place
  /\ walk'.wait \subseteq DOMAIN ops' /\ walk'.todo \subseteq walk'.level
  /\ requests' \in 0..MaxRequests /\ mishaps' \in 0..MaxMishaps

\* A step that adds no row and moves no plan keeps the invariant.
LEMMA SameTable ==
  ASSUME Inv, ops' \in Seq(OpRow), Len(ops') = Len(ops),
         \A i \in DOMAIN ops : SameRow(ops[i], ops'[i]),
         AppsKept, RemovalsTrue, ParentsKept, WorldKept
  PROVE  Inv'
<1>1. TableKept
  <2>1. Len(ops) \in Nat
    BY LenProperties DEF Inv, Types
  <2> QED  BY <2>1 DEF TableKept, RowKept, SameRow
<1>2. DOMAIN ops' = DOMAIN ops
  BY <1>1, TableDomain DEF Inv, Types
<1>3. Types'
  <2>1. ASSUME NEW i \in DOMAIN ops'
        PROVE  ops'[i].parent < i /\ Asks(ops'[i])
    BY <1>2 DEF Inv, Types, SameRow, Asks
  <2> QED  BY <2>1 DEF Types, WorldKept, AppsKept
<1>4. Once'
  BY <1>1, <1>2, OnceKept DEF Inv
<1>5. Ids'
  <2>1. \A i \in DOMAIN ops : \A id \in ops'[i].out : Inserted(id)
    BY DEF SameRow, Inv, Ids
  <2> QED  BY <1>1, <1>2, <2>1, IdsKept DEF Inv
<1>6. GoneForGood'
  BY <1>1, GoneKept DEF Inv
<1>7. Walks'
  <2>1. \A i, j \in DOMAIN ops' : Leads(i)' /\ Leads(j)' => i = j
    BY DEF ParentsKept
  <2>2. walk'.asked =>
           /\ walk' = walk
           /\ \A i \in DOMAIN ops' : Leads(i)' =>
                i \in DOMAIN ops /\ Leads(i) /\ ops'[i].at = ops[i].at /\ ops'[i].out = ops[i].out
    BY <1>2 DEF ParentsKept, SameRow
  <2> QED  BY <1>1, <2>1, <2>2, WalksKept DEF Inv
<1>8. Ending'
  <2>1. \A i \in DOMAIN ops' : ops'[i].kind = "destroy_stack" /\ ops'[i].at = "delete_stack_row" =>
           i \in DOMAIN ops /\ ops[i].at = "delete_stack_row" /\ ops'[i].out = ops[i].out
    BY <1>2 DEF ParentsKept, SameRow
  <2> QED  BY <1>1, <2>1, EndingKept DEF Inv
<1> QED  BY <1>3, <1>4, <1>5, <1>6, <1>7, <1>8 DEF Inv

\* A step that writes one row, its plan aside, keeps the invariant.
LEMMA EditKeeps ==
  ASSUME Inv, NEW i \in DOMAIN ops, NEW row \in OpRow, With(i, row), SameRow(ops[i], row),
         row.status = "running" => ops[i].status = "running",
         row.kind = "destroy_stack" /\ row.at = "delete_stack_row" => ops[i].at = "delete_stack_row",
         row.kind = "destroy_app" /\ row.status = "done" =>
           ops[i].status = "done" \/ \A m \in Members : apps'[m].id # 0 => apps'[m].id # row.app,
         AppsKept, WorldKept,
         walk'.asked => walk' = walk /\ (ops[i].kind \notin Parents \/ row.at = ops[i].at)
  PROVE  Inv'
<1>1. ops \in Seq(OpRow) /\ DOMAIN ops = 1..Len(ops)
  BY LenProperties DEF Inv, Types
<1>2. /\ ops' \in Seq(OpRow) /\ Len(ops') = Len(ops)
      /\ DOMAIN ops' = DOMAIN ops
      /\ \A j \in DOMAIN ops : ops'[j] = IF j = i THEN row ELSE ops[j]
  <2>1. ops' = [ops EXCEPT ![i] = row]
    BY DEF With
  <2> QED  BY <1>1, <2>1, ExceptSeq
<1>3. \A j \in DOMAIN ops : SameRow(ops[j], ops'[j])
  BY <1>2 DEF SameRow
<1>4. RemovalsTrue
  BY <1>2 DEF RemovalsTrue
<1>5. ParentsKept
  BY <1>2 DEF ParentsKept, Leads, SameRow, Inv, Walks
<1> QED  BY <1>2, <1>3, <1>4, <1>5, SameTable

-----------------------------------------------------------------------------
(* Edits of a row *)

Typed(row) ==
  /\ row.kind \in Kinds /\ row.parent \in Nat /\ row.at \in Steps /\ row.status \in Status
  /\ row.cancel \in BOOLEAN /\ row.member \in Members \union {NoMember} /\ row.app \in Nat
  /\ row.stack \in Nat /\ row.req \in Nat /\ row.out \in SUBSET Nat

\* The types of the rows and of the apps, one by one.
LEMMA Facts ==
  ASSUME Inv
  PROVE  /\ DOMAIN ops = 1..Len(ops) /\ Len(ops) \in Nat
         /\ \A i \in DOMAIN ops : ops[i] \in OpRow /\ Asks(ops[i])
         /\ \A m \in Members : apps[m] \in AppRow
         /\ DOMAIN apps = Members
<1>1. ops \in Seq(OpRow) /\ apps \in [Members -> AppRow] /\ \A i \in DOMAIN ops : Asks(ops[i])
  BY DEF Inv, Types
<1>2. DOMAIN ops = 1..Len(ops) /\ Len(ops) \in Nat
  BY <1>1, LenProperties
<1>3. \A i \in DOMAIN ops : ops[i] \in OpRow
  BY <1>1, <1>2, ElementOfSeq
<1> QED  BY <1>1, <1>2, <1>3

\* A row that settles.
LEMMA EndedRow ==
  ASSUME Inv, NEW i \in DOMAIN ops, NEW s \in Status
  PROVE  /\ Ended(i, s) \in OpRow /\ Ended(i, s).status = s /\ Ended(i, s).at = ops[i].at
         /\ Ended(i, s).kind = ops[i].kind /\ Ended(i, s).app = ops[i].app
         /\ ops[i].status # "cancelled" \/ s = "cancelled" => SameRow(ops[i], Ended(i, s))
<1>1. ops[i] \in OpRow
  BY Facts
<1>2. Ended(i, s) = [ops[i] EXCEPT !.status = s]
  BY DEF Ended
<1>3. Ended(i, s) \in OpRow
  BY <1>1, <1>2 DEF OpRow
<1> QED  BY <1>1, <1>2, <1>3 DEF OpRow, SameRow

\* A row that goes on to another step.
LEMMA AtRow ==
  ASSUME Inv, NEW i \in DOMAIN ops, NEW s \in Steps
  PROVE  /\ At(i, s) \in OpRow /\ At(i, s).status = ops[i].status /\ At(i, s).at = s
         /\ At(i, s).kind = ops[i].kind /\ At(i, s).app = ops[i].app
         /\ ops[i].at # "serve" => SameRow(ops[i], At(i, s))
<1>1. ops[i] \in OpRow
  BY Facts
<1>2. At(i, s) = [ops[i] EXCEPT !.at = s]
  BY DEF At
<1>3. At(i, s) \in OpRow
  BY <1>1, <1>2 DEF OpRow
<1> QED  BY <1>1, <1>2, <1>3 DEF OpRow, SameRow

\* A row that fails, or is cancelled when that was requested.
LEMMA RolledRow ==
  ASSUME Inv, NEW i \in DOMAIN ops, ops[i].status = "running"
  PROVE  /\ Rolled(i) \in OpRow /\ Rolled(i).status \in {"failed", "cancelled"}
         /\ Rolled(i).at = ops[i].at /\ Rolled(i).kind = ops[i].kind
         /\ SameRow(ops[i], Rolled(i))
<1>1. PICK s \in {"failed", "cancelled"} : Rolled(i) = Ended(i, s)
  BY DEF Rolled
<1>2. s \in Status
  BY DEF Status, Settled
<1> QED  BY <1>1, <1>2, EndedRow

\* Apps that do not change are kept.
LEMMA SameApps ==
  ASSUME Inv, apps' = apps
  PROVE  AppsKept
BY DEF AppsKept, Inv, Types

\* Apps some of which are deleted are kept.
LEMMA FewerApps ==
  ASSUME Inv, NEW S, apps' = [m \in Members |-> IF m \in S THEN NoApp ELSE apps[m]]
  PROVE  AppsKept
<1>1. NoApp \in AppRow /\ NoApp.id = 0
  BY DEF NoApp, AppRow
<1> QED  BY <1>1 DEF AppsKept, Inv, Types

\* Every other write to an app leaves its id.
LEMMA EditedApps ==
  ASSUME Inv, apps' \in [Members -> AppRow], \A m \in Members : apps'[m].id = apps[m].id
  PROVE  AppsKept
BY DEF AppsKept

\* A step of a child or of an operation of a member leaves the stack and the
\* walk alone.
LEMMA SameWorld ==
  ASSUME Inv, stack' = stack, walk' = walk, requests' \in 0..MaxRequests, mishaps' \in 0..MaxMishaps,
         Len(ops') \in Nat, Len(ops) <= Len(ops'), DOMAIN ops \subseteq DOMAIN ops'
  PROVE  WorldKept
<1>1. stack \in 0..Len(ops) /\ walk \in Place
      /\ walk.wait \subseteq DOMAIN ops /\ walk.todo \subseteq walk.level
  BY DEF Inv, Types
<1> QED  BY <1>1, Facts DEF WorldKept

\* A mishap stays within its bound.
LEMMA NextMishap ==
  ASSUME Inv, mishaps < MaxMishaps, mishaps' = mishaps + 1, UNCHANGED requests
  PROVE  requests' \in 0..MaxRequests /\ mishaps' \in 0..MaxMishaps
BY StackAssumption DEF Inv, Types

\* A step that is no mishap leaves the bounds alone.
LEMMA SameBounds ==
  ASSUME Inv, UNCHANGED bounds
  PROVE  requests' \in 0..MaxRequests /\ mishaps' \in 0..MaxMishaps
BY DEF bounds, Inv, Types

\* The table after a write to one row.
LEMMA WithTable ==
  ASSUME Inv, NEW i \in DOMAIN ops, NEW row \in OpRow, With(i, row)
  PROVE  /\ ops' \in Seq(OpRow) /\ Len(ops') = Len(ops) /\ DOMAIN ops' = DOMAIN ops
         /\ \A j \in DOMAIN ops : ops'[j] = IF j = i THEN row ELSE ops[j]
<1>1. ops \in Seq(OpRow) /\ DOMAIN ops = 1..Len(ops)
  BY Facts DEF Inv, Types
<1>2. ops' = [ops EXCEPT ![i] = row]
  BY DEF With
<1> QED  BY <1>1, <1>2, ExceptSeq

\* A step of a child or of a member operation: its row, and what it does to apps.
LEMMA ChildEdit ==
  ASSUME Inv, NEW i \in DOMAIN ops, NEW row \in OpRow, With(i, row), SameRow(ops[i], row),
         ops[i].kind \notin Parents,
         row.status = "running" => ops[i].status = "running",
         row.kind = "destroy_app" /\ row.status = "done" =>
           \A m \in Members : apps'[m].id # 0 => apps'[m].id # row.app,
         AppsKept, stack' = stack, walk' = walk,
         requests' \in 0..MaxRequests, mishaps' \in 0..MaxMishaps
  PROVE  Inv'
<1>1. WorldKept
  <2>1. Len(ops') = Len(ops) /\ DOMAIN ops' = DOMAIN ops
    BY WithTable
  <2> QED  BY <2>1, Facts, SameWorld
<1>2. row.kind # "destroy_stack"
  BY DEF SameRow, Parents
<1> QED  BY <1>1, <1>2, EditKeeps

\* What a deployment asks for is one of the requests.
LEMMA Wanted ==
  ASSUME Inv, NEW i \in DOMAIN ops, ops[i].kind \in {"deploy_stack", "deploy", "apply"}
  PROVE  Want(i) \in Request /\ Want(i).image \in Nat /\ Want(i).apps \subseteq Members
<1>1. Requests \in Seq(Request) /\ DOMAIN Requests = 1..Len(Requests)
  BY StackAssumption, LenProperties
<1>2. ops[i].req \in 1..Len(Requests)
  BY <1>1, Facts DEF Asks
<1>3. Requests[ops[i].req] \in Request
  BY <1>1, <1>2, ElementOfSeq
<1> QED  BY <1>3 DEF Want, Request

-----------------------------------------------------------------------------
(* The children *)

\* The child deployment's insert (insertAppRow): the new app has the child's
\* row for its id, so no app or plan named it before.
LEMMA InsertAppKeeps ==
  ASSUME Inv, NEW i \in DOMAIN ops, InsertApp(i)
  PROVE  Inv'
<1> DEFINE m == ops[i].member
           row == [At(i, "serve") EXCEPT !.app = i]
<1>1. /\ ops[i].kind = "deploy" /\ ops[i].at = "insert" /\ ops[i].status = "running"
      /\ ~Exists(m) /\ m \in Members /\ With(i, row)
      /\ stack' = stack /\ walk' = walk /\ UNCHANGED bounds
  BY Facts DEF InsertApp, IsRunning, Runs, Asks
<1>2. /\ row \in OpRow /\ row.kind = "deploy" /\ row.at = "serve" /\ row.member = m
      /\ row.status = "running" /\ SameRow(ops[i], row)
  <2>1. At(i, "serve") \in OpRow /\ At(i, "serve").kind = "deploy" /\ At(i, "serve").at = "serve"
        /\ At(i, "serve").status = "running" /\ SameRow(ops[i], At(i, "serve"))
    BY <1>1, AtRow DEF Steps
  <2>2. i \in Nat
    BY Facts
  <2> QED  BY <1>1, <2>1, <2>2 DEF OpRow, SameRow
<1>3. AppsKept
  <2>1. Want(i).image \in Nat
    BY <1>1, Wanted
  <2>2. ops[i].stack \in Nat /\ i \in Nat
    BY Facts DEF OpRow
  <2> DEFINE app == [NoApp EXCEPT !.id = i, !.stack = ops[i].stack, !.image = Want(i).image,
                                  !.status = "deploying"]
  <2>3. app \in AppRow /\ app.id = i
    BY <2>1, <2>2 DEF NoApp, AppRow
  <2>4. apps' = [apps EXCEPT ![m] = app] /\ apps \in [Members -> AppRow]
    BY DEF InsertApp, Inv, Types
  <2>5. InsertedNext(i) /\ ops'[i].member = m
    BY <1>1, <1>2, WithTable DEF InsertedNext
  <2>6. ~Inserted(i)
    BY <1>1 DEF Inserted
  <2> HIDE DEF app
  <2>7. \A n \in Members : apps'[n] = IF n = m THEN app ELSE apps[n]
    BY <2>4
  <2> QED  BY <2>3, <2>4, <2>5, <2>6, <2>7 DEF AppsKept
<1> HIDE DEF row
<1> QED  BY <1>1, <1>2, <1>3, SameBounds, ChildEdit DEF Parents

\* A write to the row of one app.
LEMMA AppWritten ==
  ASSUME Inv, NEW m \in Members, NEW app \in AppRow, app.id = apps[m].id,
         apps' = [apps EXCEPT ![m] = app]
  PROVE  AppsKept
<1>1. apps \in [Members -> AppRow]
  BY DEF Inv, Types
<1> QED  BY <1>1, EditedApps

\* The rollout of a new app leaves its id.
LEMMA ServeAppKeeps ==
  ASSUME Inv, NEW i \in DOMAIN ops, ServeApp(i) \/ Redeployed(i)
  PROVE  Inv'
<1> DEFINE m == ops[i].member
<1>1. /\ ops[i].kind \in {"deploy", "apply"} /\ ops[i].status = "running"
      /\ m \in Members /\ With(i, Ended(i, "done"))
      /\ stack' = stack /\ walk' = walk /\ UNCHANGED bounds
  BY Facts DEF ServeApp, Redeployed, IsRunning, Runs, Asks
<1>2. PICK image \in Nat : apps' = [apps EXCEPT ![m] = [apps[m] EXCEPT
             !.image = image, !.deployed = Want(i).image, !.status = "running"]]
  <2>1. Want(i).image \in Nat /\ apps[m] \in AppRow /\ apps \in [Members -> AppRow]
    BY <1>1, Wanted, Facts DEF Inv, Types
  <2>2. CASE ServeApp(i)
    <3>1. apps' = [apps EXCEPT ![m] = [apps[m] EXCEPT !.status = "running", !.deployed = Want(i).image]]
      BY <2>1, <2>2 DEF ServeApp
    <3>2. apps[m].image \in Nat /\ [apps[m] EXCEPT !.status = "running", !.deployed = Want(i).image] =
            [apps[m] EXCEPT !.image = apps[m].image, !.deployed = Want(i).image, !.status = "running"]
      BY <2>1 DEF AppRow
    <3> QED  BY <3>1, <3>2
  <2>3. CASE Redeployed(i)
    <3>1. apps' = [apps EXCEPT ![m] = [apps[m] EXCEPT !.image = Want(i).image,
                                        !.deployed = Want(i).image, !.status = "running"]]
      BY <2>1, <2>3 DEF Redeployed
    <3> QED  BY <2>1, <3>1
  <2> QED  BY <2>2, <2>3
<1>3. AppsKept
  <2>1. Want(i).image \in Nat /\ apps[m] \in AppRow
    BY <1>1, Wanted, Facts
  <2>2. PICK app : app = [apps[m] EXCEPT !.image = image, !.deployed = Want(i).image,
                                         !.status = "running"]
    OBVIOUS
  <2>3. app \in AppRow /\ app.id = apps[m].id
    BY <2>1, <2>2 DEF AppRow
  <2> QED  BY <1>1, <1>2, <2>2, <2>3, AppWritten
<1>4. Ended(i, "done") \in OpRow /\ Ended(i, "done").status = "done"
      /\ Ended(i, "done").kind = ops[i].kind /\ SameRow(ops[i], Ended(i, "done"))
  BY <1>1, EndedRow DEF Status, Settled
<1> QED  BY <1>1, <1>3, <1>4, SameBounds, ChildEdit DEF Parents

\* The row of a child that fails or is cancelled.
LEMMA RolledKeeps ==
  ASSUME Inv, NEW i \in DOMAIN ops, ops[i].status = "running", ops[i].kind \notin Parents,
         With(i, Rolled(i)), AppsKept, stack' = stack, walk' = walk,
         requests' \in 0..MaxRequests, mishaps' \in 0..MaxMishaps
  PROVE  Inv'
<1>1. Rolled(i) \in OpRow /\ Rolled(i).status \in {"failed", "cancelled"} /\ SameRow(ops[i], Rolled(i))
  BY RolledRow
<1> QED  BY <1>1, ChildEdit

\* A deployment that is rolled back deletes at most the app it inserted.
LEMMA GiveUpKeeps ==
  ASSUME Inv, NEW i \in DOMAIN ops, Runs(i, "deploy"), GiveUp(i),
         requests' \in 0..MaxRequests, mishaps' \in 0..MaxMishaps
  PROVE  Inv'
<1>1. AppsKept
  BY FewerApps, SameApps DEF GiveUp
<1> QED  BY <1>1, RolledKeeps DEF GiveUp, Runs, Parents

\* The ways in which a child deployment does not end well.
LEMMA DeployEnds ==
  ASSUME Inv, NEW i \in DOMAIN ops,
         NameTaken(i) \/ AppGone(i) \/ CancelDeploy(i) \/ DeployFails(i)
  PROVE  Inv'
<1>1. Runs(i, "deploy") /\ GiveUp(i)
  BY DEF NameTaken, AppGone, CancelDeploy, DeployFails, IsRunning
<1>2. requests' \in 0..MaxRequests /\ mishaps' \in 0..MaxMishaps
  BY SameBounds, NextMishap DEF NameTaken, AppGone, CancelDeploy, DeployFails
<1> QED  BY <1>1, <1>2, GiveUpKeeps

\* The first write of a redeployment leaves the app's id.
LEMMA StartRedeployKeeps ==
  ASSUME Inv, NEW i \in DOMAIN ops, StartRedeploy(i)
  PROVE  Inv'
<1> DEFINE m == ops[i].member
<1>1. /\ ops[i].kind = "apply" /\ ops[i].at = "redeploy" /\ ops[i].status = "running"
      /\ m \in Members /\ With(i, At(i, "serve"))
      /\ stack' = stack /\ walk' = walk /\ UNCHANGED bounds
  BY Facts DEF StartRedeploy, IsRunning, Runs, Asks
<1>2. AppsKept
  <2>1. apps[m] \in AppRow /\ apps \in [Members -> AppRow]
    BY <1>1, Facts DEF Inv, Types
  <2>2. apps' = [apps EXCEPT ![m] = [apps[m] EXCEPT !.status = "deploying"]]
    BY <2>1 DEF StartRedeploy
  <2>3. [apps[m] EXCEPT !.status = "deploying"] \in AppRow
        /\ [apps[m] EXCEPT !.status = "deploying"].id = apps[m].id
    BY <2>1 DEF AppRow
  <2> QED  BY <1>1, <2>1, <2>2, <2>3, EditedApps
<1>3. At(i, "serve") \in OpRow /\ At(i, "serve").kind = "apply" /\ SameRow(ops[i], At(i, "serve"))
      /\ At(i, "serve").status = "running"
  BY <1>1, AtRow DEF Steps
<1> QED  BY <1>1, <1>2, <1>3, SameBounds, ChildEdit DEF Parents

\* A redeployment that is rolled back leaves the app's id.
LEMMA UnrollKeeps ==
  ASSUME Inv, NEW i \in DOMAIN ops, Runs(i, "apply"), Unroll(i),
         requests' \in 0..MaxRequests, mishaps' \in 0..MaxMishaps
  PROVE  Inv'
<1> DEFINE m == ops[i].member
<1>1. m \in Members /\ apps[m] \in AppRow /\ apps \in [Members -> AppRow] /\ Want(i).image \in Nat
  BY Facts, Wanted DEF Runs, Asks, Inv, Types
<1>2. AppsKept
  <2>1. CASE UNCHANGED apps
    BY <2>1, SameApps
  <2>2. ASSUME NEW image \in {apps[m].image, Want(i).image}, NEW status \in {"running", "unhealthy"},
               apps' = [apps EXCEPT ![m].image = image,
                                    ![m].status = IF Adopted(i) THEN "deploying" ELSE status]
        PROVE  AppsKept
    <3>1. PICK app : app = [apps[m] EXCEPT !.image = image,
                               !.status = IF Adopted(i) THEN "deploying" ELSE status]
      OBVIOUS
    <3>2. apps' = [apps EXCEPT ![m] = app]
      BY <1>1, <2>2, <3>1
    <3>3. image \in Nat
      BY <1>1 DEF AppRow
    <3>4. app \in AppRow /\ app.id = apps[m].id
      BY <1>1, <3>1, <3>3 DEF AppRow
    <3> QED  BY <1>1, <3>2, <3>4, EditedApps
  <2> QED  BY <2>1, <2>2 DEF Unroll
<1> QED  BY <1>2, RolledKeeps DEF Unroll, Runs, Parents

\* The ways in which a child redeployment does not end well.
LEMMA ApplyEnds ==
  ASSUME Inv, NEW i \in DOMAIN ops, NoSuchApp(i) \/ CancelApply(i) \/ ApplyFails(i)
  PROVE  Inv'
<1>1. Runs(i, "apply") /\ Unroll(i)
  BY DEF NoSuchApp, CancelApply, ApplyFails
<1>2. requests' \in 0..MaxRequests /\ mishaps' \in 0..MaxMishaps
  BY SameBounds, NextMishap DEF NoSuchApp, CancelApply, ApplyFails
<1> QED  BY <1>1, <1>2, UnrollKeeps

\* The tombstone of an app leaves its id.
LEMMA MarkDeletingKeeps ==
  ASSUME Inv, NEW i \in DOMAIN ops, MarkDeleting(i)
  PROVE  Inv'
<1>1. /\ ops[i].kind = "destroy_app" /\ ops[i].at = "mark" /\ ops[i].status = "running"
      /\ With(i, At(i, "remove")) /\ stack' = stack /\ walk' = walk /\ UNCHANGED bounds
  BY DEF MarkDeleting, IsRunning, Runs
<1>2. AppsKept
  <2>1. apps' = [m \in Members |-> IF m \in Named(ops[i].app)
                THEN [apps[m] EXCEPT !.doomed = TRUE, !.status = "destroying"] ELSE apps[m]]
    BY DEF MarkDeleting
  <2>2. ASSUME NEW m \in Members
        PROVE  apps'[m] \in AppRow /\ apps'[m].id = apps[m].id
    <3>1. apps[m] \in AppRow
      BY Facts
    <3> QED  BY <2>1, <3>1 DEF AppRow
  <2> QED  BY <2>1, <2>2, EditedApps
<1>3. At(i, "remove") \in OpRow /\ At(i, "remove").kind = "destroy_app"
      /\ SameRow(ops[i], At(i, "remove")) /\ At(i, "remove").status = "running"
  BY <1>1, AtRow DEF Steps
<1> QED  BY <1>1, <1>2, <1>3, SameBounds, ChildEdit DEF Parents

\* The removal of an app deletes every member with the id it names: only so may
\* it be done.
LEMMA RemoveAppKeeps ==
  ASSUME Inv, NEW i \in DOMAIN ops, RemoveApp(i)
  PROVE  Inv'
<1>1. /\ ops[i].kind = "destroy_app" /\ ops[i].status = "running"
      /\ With(i, Ended(i, "done")) /\ stack' = stack /\ walk' = walk /\ UNCHANGED bounds
      /\ apps' = [m \in Members |-> IF m \in Named(ops[i].app) THEN NoApp ELSE apps[m]]
  BY DEF RemoveApp, IsRunning, Runs
<1>2. AppsKept
  BY <1>1, FewerApps
<1>3. \A m \in Members : apps'[m].id # 0 => apps'[m].id # ops[i].app
  BY <1>1 DEF Named, NoApp, Exists
<1>4. Ended(i, "done") \in OpRow /\ Ended(i, "done").status = "done"
      /\ Ended(i, "done").app = ops[i].app /\ SameRow(ops[i], Ended(i, "done"))
  BY <1>1, EndedRow DEF Status, Settled
<1> QED  BY <1>1, <1>2, <1>3, <1>4, SameBounds, ChildEdit DEF Parents

\* A removal that fails leaves the apps where they are.
LEMMA CleanupFailsKeeps ==
  ASSUME Inv, NEW i \in DOMAIN ops, CleanupFails(i)
  PROVE  Inv'
<1>1. /\ ops[i].kind = "destroy_app" /\ ops[i].status = "running"
      /\ With(i, Rolled(i)) /\ stack' = stack /\ walk' = walk
      /\ requests' \in 0..MaxRequests /\ mishaps' \in 0..MaxMishaps
  BY NextMishap DEF CleanupFails, IsRunning, Runs
<1>2. AppsKept
  <2>1. apps' = [m \in Members |-> IF m \in Named(ops[i].app)
                THEN [apps[m] EXCEPT !.status = "cleanup_failed"] ELSE apps[m]]
    BY DEF CleanupFails
  <2>2. ASSUME NEW m \in Members
        PROVE  apps'[m] \in AppRow /\ apps'[m].id = apps[m].id
    <3>1. apps[m] \in AppRow
      BY Facts
    <3> QED  BY <2>1, <3>1 DEF AppRow
  <2> QED  BY <2>1, <2>2, EditedApps
<1> QED  BY <1>1, <1>2, RolledKeeps DEF Parents

\* A destruction that is cancelled before it begins, and a member operation.
LEMMA PlainEnds ==
  ASSUME Inv, NEW i \in DOMAIN ops, CancelDestroy(i) \/ RestartMember(i)
  PROVE  Inv'
<1>1. /\ ops[i].kind \in {"destroy_app", "restart_app"} /\ ops[i].status = "running"
      /\ stack' = stack /\ walk' = walk /\ UNCHANGED bounds /\ apps' = apps
  BY DEF CancelDestroy, RestartMember, Runs
<1>2. PICK s \in {"cancelled", "done"} :
        With(i, Ended(i, s)) /\ (ops[i].kind = "destroy_app" => s = "cancelled")
  BY <1>1 DEF CancelDestroy, RestartMember, Runs
<1>3. Ended(i, s) \in OpRow /\ Ended(i, s).status = s /\ Ended(i, s).kind = ops[i].kind
      /\ SameRow(ops[i], Ended(i, s))
  BY <1>1, EndedRow DEF Status, Settled
<1> QED  BY <1>1, <1>2, <1>3, SameApps, SameBounds, ChildEdit DEF Parents

\* Every step of a child or of an operation of a member.
LEMMA ChildKeeps ==
  ASSUME Inv, NEW i \in DOMAIN ops, ChildStep(i) \/ ChildFails(i)
  PROVE  Inv'
BY InsertAppKeeps, ServeAppKeeps, DeployEnds, StartRedeployKeeps, ApplyEnds, MarkDeletingKeeps,
   RemoveAppKeeps, CleanupFailsKeeps, PlainEnds DEF ChildStep, ChildFails

-----------------------------------------------------------------------------
(* The parents *)

\* The places a walk starts a level or a list of members from.
LEMMA Places ==
  /\ Nowhere \in Place /\ Nowhere.wait = {} /\ Nowhere.todo \subseteq Nowhere.level /\ ~Nowhere.asked
  /\ \A rest \in SUBSET Members :
       /\ AtLevel(rest) \in Place /\ AtLevel(rest).wait = {} /\ ~AtLevel(rest).asked
       /\ AtLevel(rest).todo \subseteq AtLevel(rest).level
<1>1. Nowhere \in Place /\ Nowhere.wait = {} /\ Nowhere.todo \subseteq Nowhere.level /\ ~Nowhere.asked
  BY DEF Nowhere, Place
<1>2. ASSUME NEW rest \in SUBSET Members
      PROVE  /\ AtLevel(rest) \in Place /\ AtLevel(rest).wait = {} /\ ~AtLevel(rest).asked
             /\ AtLevel(rest).todo \subseteq AtLevel(rest).level
  <2>1. NextLevel(rest) \in SUBSET Members /\ rest \ NextLevel(rest) \in SUBSET Members
    BY DEF NextLevel
  <2>2. PICK L : L = NextLevel(rest)
    OBVIOUS
  <2>3. AtLevel(rest) = [[[Nowhere EXCEPT !.left = rest \ L] EXCEPT !.level = L] EXCEPT !.todo = L]
    BY <2>2 DEF AtLevel
  <2> QED  BY <1>1, <2>1, <2>2, <2>3 DEF Place
<1> QED  BY <1>1, <1>2

\* A parent writes its own row and has no removals to wait for afterwards.
LEMMA ParentEdit ==
  ASSUME Inv, NEW i \in DOMAIN ops, Leads(i), NEW row \in OpRow, With(i, row), SameRow(ops[i], row),
         row.kind = "destroy_stack" /\ row.at = "delete_stack_row" => ops[i].at = "delete_stack_row",
         AppsKept, stack' \in 0..Len(ops), walk' \in Place, ~walk'.asked, walk'.wait = {},
         walk'.todo \subseteq walk'.level,
         requests' \in 0..MaxRequests, mishaps' \in 0..MaxMishaps
  PROVE  Inv'
<1>1. WorldKept
  BY WithTable DEF WorldKept
<1>2. row.kind # "destroy_app"
  BY DEF SameRow, Leads, Parents
<1> QED  BY <1>1, <1>2, EditKeeps DEF Leads

\* A parent that fails or is cancelled.
LEMMA FailParentKeeps ==
  ASSUME Inv, NEW i \in DOMAIN ops, Leads(i), FailParent(i)
  PROVE  Inv'
<1>1. Rolled(i) \in OpRow /\ Rolled(i).at = ops[i].at /\ SameRow(ops[i], Rolled(i))
  BY RolledRow DEF Leads
<1>2. With(i, Rolled(i)) /\ walk' = Nowhere /\ stack' = stack /\ apps' = apps
  BY DEF FailParent
<1>3. stack \in 0..Len(ops) /\ requests' \in 0..MaxRequests /\ mishaps' \in 0..MaxMishaps
  BY DEF FailParent, Inv, Types
<1> QED  BY <1>1, <1>2, <1>3, SameApps, Places, ParentEdit

\* The plan of a deployment starts the walk at its first level.
LEMMA PlanStackKeeps ==
  ASSUME Inv, NEW i \in DOMAIN ops, PlanStack(i)
  PROVE  Inv'
<1> DEFINE row == [At(i, "deploy_apps") EXCEPT !.stack = stack']
<1>1. /\ Leads(i) /\ ops[i].kind = "deploy_stack" /\ ops[i].at = "plan"
      /\ With(i, row) /\ apps' = apps /\ UNCHANGED bounds
      /\ walk' = AtLevel(Selected(Want(i)))
  BY DEF PlanStack, IsRunning, Runs, Leads, Parents
<1>2. stack' \in 0..Len(ops) /\ stack' \in Nat
  <2>1. stack \in 0..Len(ops) /\ i \in 0..Len(ops) /\ Len(ops) \in Nat
    BY Facts DEF Inv, Types
  <2> QED  BY <2>1 DEF PlanStack
<1>3. row \in OpRow /\ SameRow(ops[i], row) /\ row.kind = "deploy_stack"
  <2>1. At(i, "deploy_apps") \in OpRow /\ SameRow(ops[i], At(i, "deploy_apps"))
        /\ At(i, "deploy_apps").kind = "deploy_stack"
    BY <1>1, AtRow DEF Steps
  <2> QED  BY <1>2, <2>1 DEF OpRow, SameRow
<1>4. Selected(Want(i)) \in SUBSET Members
  BY <1>1, Wanted DEF Selected
<1> HIDE DEF row
<1> QED  BY <1>1, <1>2, <1>3, <1>4, SameApps, SameBounds, Places, ParentEdit

\* A step that writes no row.
LEMMA NoRow ==
  ASSUME Inv, ops' = ops, AppsKept, WorldKept, walk'.asked => walk' = walk
  PROVE  Inv'
<1>1. RemovalsTrue
  BY DEF RemovalsTrue
<1>2. ParentsKept
  BY DEF ParentsKept, Leads, Inv, Walks
<1>3. ops' \in Seq(OpRow) /\ Len(ops') = Len(ops) /\ \A i \in DOMAIN ops : SameRow(ops[i], ops'[i])
  BY DEF Inv, Types, SameRow
<1> QED  BY <1>1, <1>2, <1>3, SameTable

\* A parent goes on to the next level, or to the removals.
LEMMA PassLevelKeeps ==
  ASSUME Inv, NEW i \in DOMAIN ops, PassLevel(i)
  PROVE  Inv'
<1>1. /\ Leads(i) /\ ops[i].kind = "deploy_stack" /\ ops[i].at = "deploy_apps"
      /\ stack' = stack /\ UNCHANGED bounds
      /\ apps' = [m \in Members |-> IF m \in walk.level /\ Exists(m)
                 THEN [apps[m] EXCEPT !.stack = ops[i].stack] ELSE apps[m]]
  BY DEF PassLevel, IsRunning, Runs, Leads, Parents
<1>2. AppsKept
  <2>1. ops[i].stack \in Nat
    BY Facts DEF OpRow
  <2>2. ASSUME NEW m \in Members
        PROVE  apps'[m] \in AppRow /\ apps'[m].id = apps[m].id
    <3>1. apps[m] \in AppRow
      BY Facts
    <3> QED  BY <1>1, <2>1, <3>1 DEF AppRow
  <2> QED  BY <1>1, <2>2, EditedApps
<1>3. stack \in 0..Len(ops) /\ walk.left \in SUBSET Members
  BY DEF Inv, Types, Place
<1>4. CASE walk' = AtLevel(walk.left) /\ UNCHANGED ops
  <2>1. WorldKept
    BY <1>1, <1>3, <1>4, Places, SameBounds DEF WorldKept
  <2> QED  BY <1>2, <1>3, <1>4, <2>1, Places, NoRow
<1>5. CASE walk' = Nowhere /\ With(i, At(i, "reconcile_removals"))
  <2>1. At(i, "reconcile_removals") \in OpRow /\ SameRow(ops[i], At(i, "reconcile_removals"))
        /\ At(i, "reconcile_removals").kind = "deploy_stack"
    BY <1>1, AtRow DEF Steps
  <2> QED  BY <1>1, <1>2, <1>3, <1>5, <2>1, SameBounds, Places, ParentEdit
<1> QED  BY <1>4, <1>5 DEF PassLevel

\* The last steps of a deployment and of a destruction, none of which asks for
\* a child.
LEMMA StackStepKeeps ==
  ASSUME Inv, NEW i \in DOMAIN ops, PassRemovals(i) \/ FinalizeStack(i) \/ DeleteStackRow(i)
  PROVE  Inv'
<1>1. /\ Leads(i) /\ apps' = apps /\ UNCHANGED bounds /\ walk' = Nowhere
  BY DEF PassRemovals, FinalizeStack, DeleteStackRow, IsRunning, Runs, Leads, Parents
<1>2. stack' \in 0..Len(ops)
  <2>1. stack \in 0..Len(ops) /\ Len(ops) \in Nat
    BY Facts DEF Inv, Types
  <2> QED  BY <2>1 DEF PassRemovals, FinalizeStack, DeleteStackRow
<1>3. PICK row \in OpRow : With(i, row) /\ SameRow(ops[i], row)
         /\ (row.kind = "destroy_stack" => row.at = ops[i].at)
  <2>1. CASE PassRemovals(i)
    <3>1. At(i, "finalize") \in OpRow /\ At(i, "finalize").kind = "deploy_stack"
          /\ SameRow(ops[i], At(i, "finalize"))
      BY <2>1, AtRow DEF PassRemovals, IsRunning, Runs, Steps
    <3> QED  BY <2>1, <3>1 DEF PassRemovals
  <2>2. CASE FinalizeStack(i) \/ DeleteStackRow(i)
    <3>1. Ended(i, "done") \in OpRow /\ Ended(i, "done").at = ops[i].at
          /\ SameRow(ops[i], Ended(i, "done"))
      BY <1>1, EndedRow DEF Status, Settled, Leads
    <3> QED  BY <2>2, <3>1 DEF FinalizeStack, DeleteStackRow
  <2> QED  BY <2>1, <2>2
<1> QED  BY <1>1, <1>2, <1>3, SameApps, SameBounds, Places, ParentEdit

\* The ways in which a parent does not end well.
LEMMA ParentFails ==
  ASSUME Inv, NEW i \in DOMAIN ops, AwaitFails(i) \/ CancelSeen(i)
  PROVE  Inv'
BY FailParentKeeps DEF AwaitFails, Waiting, CancelSeen, Leads, Parents

\* The row of a parent with another plan or place.
LEMMA ParentMoves ==
  ASSUME Inv, NEW i \in DOMAIN ops, NEW row \in OpRow, With(i, row), Leads(i),
         [row EXCEPT !.at = ops[i].at, !.out = ops[i].out] = ops[i], ops[i].at # "serve"
  PROVE  /\ TableKept /\ DOMAIN ops' = DOMAIN ops
         /\ \A j \in DOMAIN ops : ops'[j] = IF j = i THEN row ELSE ops[j]
         /\ row.kind = ops[i].kind /\ row.parent = ops[i].parent /\ row.status = "running"
         /\ Asks(row)
<1>1. ops[i] \in OpRow /\ Asks(ops[i]) /\ Len(ops) \in Nat
  BY Facts
<1>2. /\ row.kind = ops[i].kind /\ row.parent = ops[i].parent /\ row.status = ops[i].status
      /\ row.member = ops[i].member /\ row.req = ops[i].req /\ row.app = ops[i].app
  BY <1>1 DEF OpRow
<1>3. TableKept
  BY <1>1, <1>2, WithTable DEF TableKept, RowKept
<1> QED  BY <1>1, <1>2, <1>3, WithTable DEF Leads, Asks

\* A parent that takes another plan or place, whatever it does to the last step
\* of a destruction.
LEMMA ParentMovesInv ==
  ASSUME Inv, NEW i \in DOMAIN ops, NEW row \in OpRow, With(i, row), Leads(i),
         [row EXCEPT !.at = ops[i].at, !.out = ops[i].out] = ops[i], ops[i].at # "serve",
         \A id \in row.out : Inserted(id),
         apps' = apps, WorldKept, ~walk'.asked
  PROVE  Types' /\ Once' /\ Ids' /\ GoneForGood' /\ Walks'
<1>1. /\ TableKept /\ DOMAIN ops' = DOMAIN ops
      /\ \A j \in DOMAIN ops : ops'[j] = IF j = i THEN row ELSE ops[j]
      /\ row.kind = ops[i].kind /\ row.parent = ops[i].parent /\ row.status = "running"
      /\ Asks(row)
  BY ParentMoves
<1>2. AppsKept
  BY SameApps
<1>3. Types'
  <2>1. \A j \in DOMAIN ops' : ops'[j].parent < j /\ Asks(ops'[j])
    BY <1>1 DEF Inv, Types
  <2> QED  BY <1>1, <1>2, <2>1 DEF Types, WorldKept, TableKept, AppsKept
<1>4. Once'
  BY <1>1, OnceKept DEF Inv
<1>5. Ids'
  <2>1. \A j \in DOMAIN ops : \A id \in ops'[j].out : Inserted(id)
    BY <1>1 DEF Inv, Ids
  <2> QED  BY <1>1, <1>2, <2>1, IdsKept DEF Inv
<1>6. GoneForGood'
  <2>1. RemovalsTrue
    BY <1>1 DEF RemovalsTrue
  <2> QED  BY <1>1, <1>2, <2>1, GoneKept DEF Inv
<1>7. Walks'
  <2>1. \A j, k \in DOMAIN ops' : Leads(j)' /\ Leads(k)' => j = k
    BY <1>1 DEF Inv, Walks, Leads
  <2> QED  BY <1>1, <1>2, <2>1, WalksKept DEF Inv
<1> QED  BY <1>3, <1>4, <1>5, <1>6, <1>7

\* The plan of a destruction names apps that are there, each by the row that
\* inserted it.
LEMMA PlanDestroyKeeps ==
  ASSUME Inv, NEW i \in DOMAIN ops, PlanDestroy(i)
  PROVE  Inv'
<1>1. Leads(i) /\ ops[i].kind = "destroy_stack" /\ ops[i].at = "plan_destroy"
  BY DEF PlanDestroy, IsRunning, Runs, Leads, Parents
<1>2. CASE FailParent(i)
  BY <1>1, <1>2, FailParentKeeps
<1>3. CASE ~FailParent(i)
  <2> DEFINE row == [At(i, "destroy_members") EXCEPT !.out = {apps[m].id : m \in InStack(stack)}]
  <2>1. With(i, row) /\ UNCHANGED <<stack, apps, walk, bounds>>
    BY <1>3 DEF PlanDestroy
  <2>2. row \in OpRow /\ row.at = "destroy_members" /\ row.out = {apps[m].id : m \in InStack(stack)}
        /\ [row EXCEPT !.at = ops[i].at, !.out = ops[i].out] = ops[i]
    <3>1. ops[i] \in OpRow /\ \A m \in Members : apps[m].id \in Nat
      BY Facts DEF AppRow
    <3>2. PICK out : out = {apps[m].id : m \in InStack(stack)}
      OBVIOUS
    <3>3. out \in SUBSET Nat
      BY <3>1, <3>2 DEF InStack
    <3>4. row = [[ops[i] EXCEPT !.at = "destroy_members"] EXCEPT !.out = out]
      BY <3>2 DEF At
    <3> HIDE DEF row
    <3>5. row \in OpRow /\ row.at = "destroy_members" /\ row.out = out
      BY <3>1, <3>3, <3>4 DEF OpRow, Steps
    <3>6. [row EXCEPT !.at = ops[i].at, !.out = ops[i].out] = ops[i]
      BY <3>1, <3>4 DEF OpRow
    <3> QED  BY <3>2, <3>5, <3>6
  <2> HIDE DEF row
  <2>3. \A id \in row.out : Inserted(id)
    BY <2>2 DEF Inv, Ids, InStack
  <2>4. WorldKept
    <3>1. Len(ops') = Len(ops) /\ DOMAIN ops' = DOMAIN ops
      BY <2>1, <2>2, WithTable
    <3> QED  BY <2>1, <3>1, Facts, SameBounds, SameWorld
  <2>5. ~walk'.asked
    BY <1>1, <2>1 DEF Inv, Walks
  <2>6. Types' /\ Once' /\ Ids' /\ GoneForGood' /\ Walks'
    BY <1>1, <2>1, <2>2, <2>3, <2>4, <2>5, ParentMovesInv
  <2>7. Ending'
    <3>1. TableKept /\ DOMAIN ops' = DOMAIN ops /\ \A j \in DOMAIN ops : ops'[j] = IF j = i THEN row ELSE ops[j]
      BY <1>1, <2>1, <2>2, ParentMoves
    <3>2. AppsKept
      BY <2>1, SameApps
    <3> QED  BY <2>2, <3>1, <3>2, EndingKept DEF Inv
  <2> QED  BY <2>6, <2>7 DEF Inv
<1> QED  BY <1>2, <1>3

\* A destruction goes on to delete the stack once every child it waits for is
\* settled, none failed: for each planned app that is still there, a child was
\* cancelled.
LEMMA PassMembersKeeps ==
  ASSUME Inv, NEW i \in DOMAIN ops, PassMembers(i)
  PROVE  Inv'
<1> DEFINE row == At(i, "delete_stack_row")
<1>1. /\ Leads(i) /\ ops[i].kind = "destroy_stack" /\ ops[i].at = "destroy_members"
      /\ walk.asked /\ With(i, row) /\ walk' = Nowhere /\ UNCHANGED <<stack, apps, bounds>>
      /\ \A c \in walk.wait : ops[c].status \in {"done", "cancelled"}
  BY DEF PassMembers, Passed, IsRunning, Runs, Leads, Parents
<1>2. row \in OpRow /\ row.out = ops[i].out /\ [row EXCEPT !.at = ops[i].at, !.out = ops[i].out] = ops[i]
  <2>1. ops[i] \in OpRow
    BY Facts
  <2>2. row = [ops[i] EXCEPT !.at = "delete_stack_row"]
    BY DEF At
  <2> HIDE DEF row
  <2> QED  BY <2>1, <2>2 DEF OpRow, Steps
<1> HIDE DEF row
<1>3. \A id \in row.out : Inserted(id)
  BY <1>2 DEF Inv, Ids
<1>4. WorldKept
  <2>1. Len(ops') = Len(ops) /\ DOMAIN ops' = DOMAIN ops
    BY <1>1, <1>2, WithTable
  <2>2. stack \in 0..Len(ops)
    BY DEF Inv, Types
  <2> QED  BY <1>1, <2>1, <2>2, Places, SameBounds DEF WorldKept
<1>5. Types' /\ Once' /\ Ids' /\ GoneForGood' /\ Walks'
  BY <1>1, <1>2, <1>3, <1>4, Places, ParentMovesInv
<1>6. Ending'
  <2>1. /\ DOMAIN ops' = DOMAIN ops /\ TableKept
        /\ \A j \in DOMAIN ops : ops'[j] = IF j = i THEN row ELSE ops[j]
        /\ row.kind = "destroy_stack"
    BY <1>1, <1>2, ParentMoves, SMTT(30), ZenonT(30)
  <2> SUFFICES ASSUME NEW j \in DOMAIN ops', ops'[j].kind = "destroy_stack",
                      ops'[j].at = "delete_stack_row", NEW m \in Planned(j)'
               PROVE  \E c \in DOMAIN ops' :
                        Removes(ops'[c], j, apps'[m].id) /\ ops'[c].status = "cancelled"
    BY DEF Ending, Removes
  <2>2. m \in Planned(j) /\ apps' = apps /\ m \in Members /\ Exists(m)
    BY <1>1, <1>2, <2>1 DEF Planned, Exists
  <2>3. \E c \in DOMAIN ops : Removes(ops[c], j, apps[m].id) /\ ops[c].status = "cancelled"
    <3>1. CASE j = i
      <4>1. PICK c \in walk.wait : Removes(ops[c], i, apps[m].id)
        BY <1>1, <2>2, <3>1 DEF Inv, Walks
      <4>2. c \in DOMAIN ops
        BY DEF Inv, Types
      <4>3. ops[c].status # "done"
        BY <2>2, <4>1, <4>2 DEF Inv, GoneForGood, Removes
      <4> QED  BY <1>1, <3>1, <4>1, <4>2, <4>3
    <3>2. CASE j # i
      BY <2>1, <2>2, <3>2 DEF Inv, Ending
    <3> QED  BY <3>1, <3>2
  <2> QED  BY <2>1, <2>2, <2>3, RemovesKept DEF Inv
<1> QED  BY <1>5, <1>6 DEF Inv

-----------------------------------------------------------------------------
(* New rows *)

\* The sequence of a finite set lists each of its elements once.
LEMMA SetAsSequence ==
  ASSUME NEW S, IsFiniteSet(S)
  PROVE  /\ Cardinality(S) \in Nat /\ SetToSeq(S) \in Seq(S)
         /\ Len(SetToSeq(S)) = Cardinality(S) /\ DOMAIN SetToSeq(S) = 1..Cardinality(S)
         /\ \A k \in 1..Cardinality(S) : SetToSeq(S)[k] \in S
         /\ \A j, k \in 1..Cardinality(S) : SetToSeq(S)[j] = SetToSeq(S)[k] => j = k
         /\ \A s \in S : \E k \in 1..Cardinality(S) : SetToSeq(S)[k] = s
<1> DEFINE n == Cardinality(S)
           f == SetToSeq(S)
<1>1. n \in Nat /\ ExistsBijection(1..n, S)
  BY FS_CardinalityType
<1>2. \E g \in [1..n -> S] : IsInjective(g)
  BY <1>1 DEF ExistsBijection, Bijection, Injection
<1>3. f \in [1..n -> S] /\ IsInjective(f)
  BY <1>2 DEF SetToSeq
<1>4. f \in Seq(S)
  BY <1>1, <1>3, SeqDef
<1>5. DOMAIN f = 1..n /\ Len(f) = n
  <2>1. DOMAIN f = 1..Len(f) /\ Len(f) \in Nat
    BY <1>4, LenProperties
  <2> HIDE DEF f, n
  <2> QED  BY <1>1, <1>3, <2>1
<1>6. f \in Surjection(1..n, S)
  <2>1. IsFiniteSet(1..n) /\ Cardinality(1..n) = n
    BY <1>1, FS_Interval
  <2>2. f \in Injection(1..n, S)
    BY <1>3 DEF Injection
  <2> HIDE DEF f
  <2> QED  BY <2>1, <2>2, FS_Injection
<1> QED  BY <1>1, <1>3, <1>4, <1>5, <1>6 DEF IsInjective, Surjection

\* A new row: pending, with a parent before it, of an app that was inserted.
Fresh(i) ==
  /\ ops'[i].status = "pending" /\ ops'[i].parent < i /\ Asks(ops'[i]) /\ ops'[i].out = {}
  /\ ops'[i].kind = "destroy_app" => Inserted(ops'[i].app)
  /\ ops'[i].at # "delete_stack_row"
  /\ \A j \in DOMAIN ops' : SameChild(ops'[i], ops'[j]) => i = j

\* Who asks for removals now waits for all that are planned.
AskedFor ==
  walk'.asked => walk' = walk \/ \A i \in DOMAIN ops : Leads(i) =>
    /\ ops[i].at \in {"reconcile_removals", "destroy_members"}
    /\ ops[i].at = "destroy_members" =>
         \A m \in Planned(i) : \E c \in walk'.wait : Removes(ops'[c], i, apps[m].id)

\* A step that only adds rows keeps the invariant, when each repeats no child
\* and what was asked for is waited for.
LEMMA AddedKeeps ==
  ASSUME Inv, ops' \in Seq(OpRow), Len(ops) <= Len(ops'),
         \A i \in DOMAIN ops : ops'[i] = ops[i],
         \A i \in DOMAIN ops' \ DOMAIN ops : Fresh(i),
         apps' = apps, WorldKept, AskedFor
  PROVE  Inv'
<1>1. TableKept
  BY DEF TableKept, RowKept
<1>2. DOMAIN ops \subseteq DOMAIN ops'
  BY <1>1, TableDomain DEF Inv, Types
<1>3. AppsKept
  BY SameApps
<1>4. Types'
  <2>1. \A i \in DOMAIN ops' : ops'[i].parent < i /\ Asks(ops'[i])
    BY DEF Inv, Types, Fresh
  <2> QED  BY <1>3, <2>1 DEF Types, WorldKept, AppsKept
<1>5. Once'
  BY <1>1, OnceKept DEF Inv, Fresh
<1>6. Ids'
  <2>1. \A i \in DOMAIN ops : \A id \in ops'[i].out : Inserted(id)
    BY DEF Inv, Ids
  <2> QED  BY <1>1, <1>3, <2>1, IdsKept DEF Inv, Fresh
<1>7. GoneForGood'
  <2>1. RemovalsTrue
    BY DEF RemovalsTrue, Fresh
  <2> QED  BY <1>1, <1>3, <2>1, GoneKept DEF Inv
<1>8. \A i \in DOMAIN ops' : Leads(i)' => i \in DOMAIN ops /\ Leads(i)
  BY DEF Leads, Fresh
<1>9. Walks'
  <2>1. \A i, j \in DOMAIN ops' : Leads(i)' /\ Leads(j)' => i = j
    BY <1>8 DEF Inv, Walks
  <2>2. CASE walk'.asked => walk' = walk
    BY <1>1, <1>3, <1>8, <2>1, <2>2, WalksKept DEF Inv
  <2>3. CASE ~(walk'.asked => walk' = walk)
    <3>1. ASSUME NEW i \in DOMAIN ops', Leads(i)'
          PROVE  /\ i \in DOMAIN ops /\ ops'[i] = ops[i]
                 /\ ops[i].at \in {"reconcile_removals", "destroy_members"}
                 /\ ops[i].at = "destroy_members" =>
                      \A m \in Planned(i) : \E c \in walk'.wait : Removes(ops'[c], i, apps[m].id)
      BY <1>8, <2>3, <3>1 DEF AskedFor
    <3>2. \A i \in DOMAIN ops' : Leads(i)' => Planned(i)' = Planned(i)
      BY <3>1 DEF Planned, Exists
    <3> QED  BY <2>1, <3>1, <3>2 DEF Walks, Removes
  <2> QED  BY <2>2, <2>3
<1>10. Ending'
  <2>1. \A i \in DOMAIN ops' : ops'[i].kind = "destroy_stack" /\ ops'[i].at = "delete_stack_row" =>
           i \in DOMAIN ops /\ ops[i].at = "delete_stack_row" /\ ops'[i].out = ops[i].out
    BY DEF Fresh
  <2> QED  BY <1>1, <1>3, <2>1, EndingKept DEF Inv
<1> QED  BY <1>4, <1>5, <1>6, <1>7, <1>9, <1>10 DEF Inv

\* The same for one row more.
LEMMA AppendKeeps ==
  ASSUME Inv, NEW row \in OpRow, ops' = Append(ops, row), row.status = "pending",
         row.parent \in 0..Len(ops), Asks(row), row.out = {}, row.at # "delete_stack_row",
         row.kind = "destroy_app" => Inserted(row.app),
         \A j \in DOMAIN ops : ~SameChild(row, ops[j]),
         apps' = apps, stack' = stack, walk' \in Place, walk'.wait \subseteq 1..(Len(ops) + 1),
         walk'.todo \subseteq walk'.level, walk'.asked => walk' = walk,
         requests' \in 0..MaxRequests, mishaps' \in 0..MaxMishaps
  PROVE  Inv'
<1>1. /\ ops' \in Seq(OpRow) /\ Len(ops') = Len(ops) + 1 /\ DOMAIN ops' = 1..(Len(ops) + 1)
      /\ DOMAIN ops = 1..Len(ops) /\ Len(ops) \in Nat
      /\ \A i \in DOMAIN ops : ops'[i] = ops[i]
      /\ ops'[Len(ops) + 1] = row
  <2>1. ops \in Seq(OpRow) /\ DOMAIN ops = 1..Len(ops) /\ Len(ops) \in Nat
    BY Facts DEF Inv, Types
  <2>2. ops' \in Seq(OpRow) /\ Len(ops') = Len(ops) + 1
    BY <2>1
  <2>3. DOMAIN ops' = 1..(Len(ops) + 1)
    BY <2>2, LenProperties
  <2> QED  BY <2>1, <2>2, <2>3
<1>2. ASSUME NEW i \in DOMAIN ops' \ DOMAIN ops
      PROVE  Fresh(i)
  <2>1. i = Len(ops) + 1 /\ ops'[i] = row
    BY <1>1
  <2>2. ASSUME NEW j \in DOMAIN ops', SameChild(row, ops'[j])
        PROVE  i = j
    <3>1. j \notin DOMAIN ops
      BY <1>1, <2>2
    <3> QED  BY <1>1, <2>1, <3>1
  <2>3. row.parent < i
    BY <1>1, <2>1
  <2> QED  BY <2>1, <2>2, <2>3 DEF Fresh
<1>3. WorldKept
  <2>1. stack \in 0..Len(ops)
    BY DEF Inv, Types
  <2>2. stack' \in 0..Len(ops')
    BY <1>1, <2>1
  <2> QED  BY <1>1, <2>2 DEF WorldKept
<1>4. AskedFor
  BY DEF AskedFor
<1>5. Len(ops) <= Len(ops')
  BY <1>1
<1> QED  BY <1>1, <1>2, <1>3, <1>4, <1>5, AddedKeeps

\* The row that an enqueue starts with.
LEMMA NewRow ==
  ASSUME NEW kind \in Kinds, NEW parent \in Nat, NEW at \in Steps
  PROVE  /\ Row(kind, parent, at) \in OpRow /\ Row(kind, parent, at).kind = kind
         /\ Row(kind, parent, at).parent = parent /\ Row(kind, parent, at).at = at
         /\ Row(kind, parent, at).status = "pending" /\ Row(kind, parent, at).out = {}
         /\ Row(kind, parent, at).member = NoMember
BY DEF Row, OpRow, Status

\* The child that deploys a member, or redeploys it.
LEMMA ChildOfMember ==
  ASSUME Inv, NEW i \in DOMAIN ops, ops[i].kind = "deploy_stack", NEW m \in Members
  PROVE  LET row == ChildRow(i, m) IN
         /\ row \in OpRow /\ row.status = "pending" /\ row.parent = i /\ Asks(row) /\ row.out = {}
         /\ Brings(row) /\ row.member = m /\ row.at # "delete_stack_row"
<1>1. /\ i \in Nat /\ i # 0 /\ ops[i].req \in Nat /\ ops[i].req \in DOMAIN Requests
      /\ ops[i].stack \in Nat /\ apps[m].id \in Nat
  BY Facts DEF OpRow, AppRow, Asks
<1>2. CASE Exists(m)
  <2>1. PICK r : r = Row("apply", i, "redeploy")
    OBVIOUS
  <2>0. "apply" \in Kinds /\ "redeploy" \in Steps
    BY DEF Kinds, Steps
  <2>2. r \in OpRow /\ r.kind = "apply" /\ r.parent = i /\ r.at = "redeploy"
        /\ r.status = "pending" /\ r.out = {}
    BY <1>1, <2>0, <2>1, NewRow
  <2>3. ChildRow(i, m) = [r EXCEPT !.member = m, !.app = apps[m].id, !.req = ops[i].req]
    BY <1>2, <2>1 DEF ChildRow
  <2> QED  BY <1>1, <2>2, <2>3 DEF OpRow, Asks, Brings
<1>3. CASE ~Exists(m)
  <2>1. PICK r : r = Row("deploy", i, "insert")
    OBVIOUS
  <2>0. "deploy" \in Kinds /\ "insert" \in Steps
    BY DEF Kinds, Steps
  <2>2. r \in OpRow /\ r.kind = "deploy" /\ r.parent = i /\ r.at = "insert"
        /\ r.status = "pending" /\ r.out = {}
    BY <1>1, <2>0, <2>1, NewRow
  <2>3. ChildRow(i, m) = [r EXCEPT !.member = m, !.req = ops[i].req, !.stack = ops[i].stack]
    BY <1>3, <2>1 DEF ChildRow
  <2> QED  BY <1>1, <2>2, <2>3 DEF OpRow, Asks, Brings
<1> QED  BY <1>2, <1>3

\* A parent enqueues the child of a member, or finds the one it enqueued
\* before.
LEMMA DeployMemberKeeps ==
  ASSUME Inv, NEW i \in DOMAIN ops, NEW m \in Members, DeployMember(i, m)
  PROVE  Inv'
<1>1. /\ Leads(i) /\ ops[i].kind = "deploy_stack" /\ ops[i].at = "deploy_apps"
      /\ stack' = stack /\ apps' = apps /\ UNCHANGED bounds
  BY DEF DeployMember, IsRunning, Runs, Leads, Parents
<1>2. ~walk.asked
  BY <1>1 DEF Inv, Walks
<1>3. walk \in Place /\ walk.wait \subseteq DOMAIN ops /\ walk.todo \subseteq walk.level
  BY DEF Inv, Types
<1>4. ASSUME ops' = ops, NEW W \in SUBSET DOMAIN ops,
             walk' = [walk EXCEPT !.todo = walk.todo \ {m}, !.wait = walk.wait \union W]
      PROVE  Inv'
  <2>1. DOMAIN ops \subseteq Nat
    BY Facts
  <2>2. /\ walk' \in Place /\ walk'.wait = walk.wait \union W /\ walk'.level = walk.level
        /\ walk'.todo \subseteq walk.todo /\ walk'.asked = walk.asked
    BY <1>3, <1>4, <2>1 DEF Place
  <2>3. WorldKept
    BY <1>1, <1>3, <1>4, <2>2, SameBounds DEF WorldKept, Inv, Types
  <2> QED  BY <1>1, <1>2, <1>4, <2>2, <2>3, SameApps, NoRow
<1>5. CASE walk' = [walk EXCEPT !.todo = @ \ {m}, !.wait = @ \union Deploying(i, m)] /\ UNCHANGED ops
  BY <1>4, <1>5 DEF Deploying, Children
<1>6. CASE walk' = [walk EXCEPT !.todo = @ \ {m}] /\ UNCHANGED ops
  <2>1. PICK W : W = {}
    OBVIOUS
  <2>2. W \in SUBSET DOMAIN ops
    BY <2>1
  <2>3. walk' = [walk EXCEPT !.todo = walk.todo \ {m}, !.wait = walk.wait \union W]
    BY <1>3, <1>6, <2>1 DEF Place
  <2> QED  BY <1>4, <1>6, <2>2, <2>3
<1>7. CASE /\ Deploying(i, m) = {} /\ ops' = Append(ops, ChildRow(i, m))
           /\ walk' = [walk EXCEPT !.todo = @ \ {m}, !.wait = @ \union {Len(ops) + 1}]
  <2> DEFINE row == ChildRow(i, m)
  <2>1. /\ row \in OpRow /\ row.status = "pending" /\ row.parent = i /\ Asks(row) /\ row.out = {}
        /\ Brings(row) /\ row.member = m /\ row.at # "delete_stack_row"
    BY <1>1, ChildOfMember
  <2> HIDE DEF row
  <2>2. \A j \in DOMAIN ops : ~SameChild(row, ops[j])
    BY <1>7, <2>1 DEF SameChild, Brings, Deploying, Children
  <2>3. /\ walk' \in Place /\ walk'.wait \subseteq 1..(Len(ops) + 1)
        /\ walk'.todo \subseteq walk'.level /\ ~walk'.asked
    <3>1. DOMAIN ops = 1..Len(ops) /\ Len(ops) \in Nat
      BY Facts
    <3>2. PICK n \in Nat : n = Len(ops) + 1
      BY <3>1
    <3>3. walk' = [[walk EXCEPT !.todo = walk.todo \ {m}] EXCEPT !.wait = walk.wait \union {n}]
      BY <1>3, <1>7, <3>2 DEF Place
    <3>4. /\ walk' \in Place /\ walk'.wait = walk.wait \union {n} /\ walk'.level = walk.level
          /\ walk'.todo \subseteq walk.todo /\ walk'.asked = walk.asked
      BY <1>3, <3>2, <3>3 DEF Place
    <3> QED  BY <1>2, <1>3, <3>1, <3>2, <3>4
  <2>4. row.parent \in 0..Len(ops)
    BY <2>1, Facts
  <2>5. row.kind # "destroy_app"
    BY <2>1 DEF Brings
  <2>6. ops' = Append(ops, row)
    BY <1>7 DEF row
  <2> QED  BY <1>1, <2>1, <2>2, <2>3, <2>4, <2>5, <2>6, SameBounds, AppendKeeps
<1> QED  BY <1>5, <1>6, <1>7 DEF DeployMember

\* The child that removes an app of the stack.
LEMMA RemovalOfMember ==
  ASSUME Inv, NEW p \in Nat, NEW m \in Members, Exists(m)
  PROVE  LET row == RemovalRow(p, m) IN
         /\ row \in OpRow /\ row.status = "pending" /\ row.parent = p /\ Asks(row) /\ row.out = {}
         /\ row.kind = "destroy_app" /\ row.app = apps[m].id /\ Inserted(row.app)
         /\ row.at # "delete_stack_row"
<1>1. apps[m].id \in Nat /\ Inserted(apps[m].id)
  BY Facts DEF AppRow, Inv, Ids
<1>2. PICK r : r = Row("destroy_app", p, "mark")
  OBVIOUS
<1>3. "destroy_app" \in Kinds /\ "mark" \in Steps
  BY DEF Kinds, Steps
<1>4. r \in OpRow /\ r.kind = "destroy_app" /\ r.parent = p /\ r.at = "mark"
      /\ r.status = "pending" /\ r.out = {}
  BY <1>2, <1>3, NewRow
<1>5. RemovalRow(p, m) = [r EXCEPT !.member = m, !.app = apps[m].id]
  BY <1>2 DEF RemovalRow
<1> QED  BY <1>1, <1>4, <1>5 DEF OpRow, Asks

\* The table after the removals of some members were asked for: each new row
\* removes an app for which there was none, and what is asked for is waited for.
RemovalsAdded(i, M, earlier) ==
  /\ ops' \in Seq(OpRow) /\ Len(ops) <= Len(ops') /\ DOMAIN ops \subseteq DOMAIN ops'
  /\ \A j \in DOMAIN ops : ops'[j] = ops[j]
  /\ \A j \in DOMAIN ops' \ DOMAIN ops :
       \E m \in M : Removing(i, apps[m].id) = {} /\ ops'[j] = RemovalRow(i, m)
  /\ \A j, k \in DOMAIN ops' \ DOMAIN ops : ops'[j].member = ops'[k].member => j = k
  /\ \A m \in M : Removing(i, apps[m].id) = {} =>
       \E j \in DOMAIN ops' \ DOMAIN ops : ops'[j] = RemovalRow(i, m)
  /\ walk'.wait = earlier \union (DOMAIN ops' \ DOMAIN ops)
  /\ walk'.asked /\ walk'.todo = {} /\ walk'.level = {} /\ walk'.left = {}

\* That is what a removal of the members M leaves.
LEMMA RemovalsTable ==
  ASSUME Inv, NEW i \in DOMAIN ops, NEW M \in SUBSET Members, \A m \in M : Exists(m),
         NEW earlier, Removals(i, M, earlier)
  PROVE  RemovalsAdded(i, M, earlier)
<1> DEFINE F == {m \in M : Removing(i, apps[m].id) = {}}
           n == Cardinality(F)
           f == SetToSeq(F)
           new == [k \in DOMAIN f |-> RemovalRow(i, f[k])]
<1>1. IsFiniteSet(F) /\ F \subseteq M
  <2>1. F \in SUBSET Members
    OBVIOUS
  <2> QED  BY <2>1, StackAssumption, FS_Subset
<1>2. /\ n \in Nat /\ DOMAIN f = 1..n /\ Len(f) = n
      /\ \A k \in 1..n : f[k] \in F
      /\ \A j, k \in 1..n : f[j] = f[k] => j = k
      /\ \A m \in F : \E k \in 1..n : f[k] = m
  <2> HIDE DEF F
  <2> QED  BY <1>1, SetAsSequence
<1>3. ops' = ops \o new /\ walk' = [Nowhere EXCEPT !.asked = TRUE,
                                     !.wait = earlier \union (Len(ops) + 1)..(Len(ops) + Len(f))]
  BY DEF Removals
<1>4. \A m \in M : m \in F <=> Removing(i, apps[m].id) = {}
  OBVIOUS
<1> HIDE DEF F, n, f
<1>5. /\ i \in Nat /\ Len(ops) \in Nat /\ DOMAIN ops = 1..Len(ops) /\ ops \in Seq(OpRow)
  BY Facts DEF Inv, Types
<1>6. \A k \in 1..n : f[k] \in Members /\ RemovalRow(i, f[k]) \in OpRow
  BY <1>1, <1>2, <1>5, RemovalOfMember
<1>7. new \in Seq(OpRow) /\ Len(new) = n /\ \A k \in 1..n : new[k] = RemovalRow(i, f[k])
  <2>1. new \in [1..n -> OpRow]
    BY <1>2, <1>6
  <2>2. new \in Seq(OpRow)
    BY <1>2, <2>1, SeqDef
  <2>3. DOMAIN new = 1..Len(new) /\ Len(new) \in Nat
    BY <2>2, LenProperties
  <2> QED  BY <1>2, <2>1, <2>2, <2>3
<1> HIDE DEF new
<1>8. /\ ops' \in Seq(OpRow) /\ Len(ops') = Len(ops) + n
      /\ \A j \in 1..(Len(ops) + n) : ops'[j] = IF j <= Len(ops) THEN ops[j] ELSE new[j - Len(ops)]
  BY <1>3, <1>5, <1>7, ConcatProperties
<1>9. DOMAIN ops' = 1..(Len(ops) + n)
  BY <1>8, LenProperties
<1>10. \A j \in DOMAIN ops : ops'[j] = ops[j]
  BY <1>2, <1>5, <1>8
<1>11. ASSUME NEW j \in DOMAIN ops' \ DOMAIN ops
       PROVE  j - Len(ops) \in 1..n /\ ops'[j] = RemovalRow(i, f[j - Len(ops)])
  <2>1. j \in 1..(Len(ops) + n) /\ ~(j <= Len(ops)) /\ j - Len(ops) \in 1..n
    BY <1>2, <1>5, <1>9
  <2> QED  BY <1>7, <1>8, <2>1
<1>12. ASSUME NEW k \in 1..n
       PROVE  Len(ops) + k \in DOMAIN ops' \ DOMAIN ops /\ ops'[Len(ops) + k] = RemovalRow(i, f[k])
  <2>1. Len(ops) + k \in DOMAIN ops' \ DOMAIN ops /\ (Len(ops) + k) - Len(ops) = k
    BY <1>2, <1>5, <1>9
  <2> QED  BY <1>11, <2>1
<1>13. \A m \in Members : RemovalRow(i, m).member = m
  <2> SUFFICES ASSUME NEW m \in Members
               PROVE  RemovalRow(i, m).member = m
    OBVIOUS
  <2>1. PICK r : r = Row("destroy_app", i, "mark")
    OBVIOUS
  <2>2. RemovalRow(i, m) = [r EXCEPT !.member = m, !.app = apps[m].id] /\ "member" \in DOMAIN r
    BY <2>1 DEF RemovalRow, Row
  <2> QED  BY <2>2
<1>14. ASSUME NEW j \in DOMAIN ops' \ DOMAIN ops, NEW k \in DOMAIN ops' \ DOMAIN ops,
              ops'[j].member = ops'[k].member
       PROVE  j = k
  <2>1. f[j - Len(ops)] = f[k - Len(ops)]
    BY <1>6, <1>11, <1>13, <1>14
  <2>2. j - Len(ops) = k - Len(ops)
    BY <1>2, <1>11, <2>1
  <2> QED  BY <1>5, <1>9, <2>2
<1>15. ASSUME NEW j \in DOMAIN ops' \ DOMAIN ops
       PROVE  \E m \in M : Removing(i, apps[m].id) = {} /\ ops'[j] = RemovalRow(i, m)
  <2>1. PICK m : m = f[j - Len(ops)]
    OBVIOUS
  <2>2. m \in F /\ ops'[j] = RemovalRow(i, m)
    BY <1>2, <1>11, <2>1
  <2>3. m \in M /\ Removing(i, apps[m].id) = {}
    BY <1>1, <1>4, <2>2
  <2> QED  BY <2>2, <2>3
<1>16. \A m \in M : Removing(i, apps[m].id) = {} => \E j \in DOMAIN ops' \ DOMAIN ops : ops'[j] = RemovalRow(i, m)
  BY <1>2, <1>4, <1>12
<1>17. /\ walk'.wait = earlier \union (DOMAIN ops' \ DOMAIN ops)
       /\ walk'.asked /\ walk'.todo = {} /\ walk'.level = {} /\ walk'.left = {}
  <2>1. PICK W : W = earlier \union (Len(ops) + 1)..(Len(ops) + n)
    OBVIOUS
  <2>2. walk' = [[Nowhere EXCEPT !.asked = TRUE] EXCEPT !.wait = W]
    BY <1>2, <1>3, <2>1
  <2>3. (Len(ops) + 1)..(Len(ops) + n) = DOMAIN ops' \ DOMAIN ops
    BY <1>2, <1>5, <1>9
  <2>4. walk'.wait = W /\ walk'.asked /\ walk'.todo = {} /\ walk'.level = {} /\ walk'.left = {}
    BY <2>2 DEF Nowhere
  <2> QED  BY <2>1, <2>3, <2>4
<1>18. Len(ops) <= Len(ops') /\ DOMAIN ops \subseteq DOMAIN ops'
  BY <1>2, <1>5, <1>8, <1>9
<1> QED  BY <1>8, <1>10, <1>14, <1>15, <1>16, <1>17, <1>18 DEF RemovalsAdded

\* A parent enqueues the removals that are not there yet, each for an app of
\* its own, and waits for them with the ones that were.
LEMMA RemovalsKeep ==
  ASSUME Inv, NEW i \in DOMAIN ops, Leads(i), ops[i].at \in {"reconcile_removals", "destroy_members"},
         NEW M \in SUBSET Members, \A m \in M : Exists(m), NEW earlier \in SUBSET DOMAIN ops,
         Removals(i, M, earlier), UNCHANGED <<stack, apps, bounds>>,
         ops[i].at = "destroy_members" =>
           \A m \in Planned(i) : m \in M /\ Removing(i, apps[m].id) \subseteq earlier
  PROVE  Inv'
<1> RemovalsAdded(i, M, earlier)
  BY RemovalsTable
<1>1. /\ ops' \in Seq(OpRow) /\ Len(ops) <= Len(ops') /\ DOMAIN ops \subseteq DOMAIN ops'
      /\ walk'.wait = earlier \union (DOMAIN ops' \ DOMAIN ops)
      /\ walk'.asked /\ walk'.todo = {} /\ walk'.level = {} /\ walk'.left = {}
  BY DEF RemovalsAdded
<1>2. \A j \in DOMAIN ops : ops'[j] = ops[j]
  BY DEF RemovalsAdded
<1>3. \A j \in DOMAIN ops' \ DOMAIN ops :
        \E m \in M : Removing(i, apps[m].id) = {} /\ ops'[j] = RemovalRow(i, m)
  BY DEF RemovalsAdded
<1>4. \A j, k \in DOMAIN ops' \ DOMAIN ops : ops'[j].member = ops'[k].member => j = k
  BY DEF RemovalsAdded
<1>5. \A m \in M : Removing(i, apps[m].id) = {} =>
        \E j \in DOMAIN ops' \ DOMAIN ops : ops'[j] = RemovalRow(i, m)
  BY DEF RemovalsAdded
<1>6. /\ i \in Nat /\ Len(ops) \in Nat /\ DOMAIN ops = 1..Len(ops)
      /\ Len(ops') \in Nat /\ DOMAIN ops' = 1..Len(ops')
  BY <1>1, Facts, LenProperties
<1>7. \A m \in Members : RemovalRow(i, m).member = m
  <2> SUFFICES ASSUME NEW m \in Members
               PROVE  RemovalRow(i, m).member = m
    OBVIOUS
  <2>1. PICK r : r = Row("destroy_app", i, "mark")
    OBVIOUS
  <2>2. RemovalRow(i, m) = [r EXCEPT !.member = m, !.app = apps[m].id] /\ "member" \in DOMAIN r
    BY <2>1 DEF RemovalRow, Row
  <2> QED  BY <2>2
<1>8. ASSUME NEW j \in DOMAIN ops' \ DOMAIN ops
      PROVE  Fresh(j)
  <2>1. PICK m \in M : Removing(i, apps[m].id) = {} /\ ops'[j] = RemovalRow(i, m)
    BY <1>3
  <2>2. PICK row : row = RemovalRow(i, m)
    OBVIOUS
  <2>3. /\ row.status = "pending" /\ row.parent = i /\ Asks(row) /\ row.out = {}
        /\ row.kind = "destroy_app" /\ row.app = apps[m].id /\ Inserted(row.app)
        /\ row.at # "delete_stack_row"
    BY <1>6, <2>2, RemovalOfMember
  <2>4. ops'[j] = row
    BY <2>1, <2>2
  <2>5. ASSUME NEW l \in DOMAIN ops', SameChild(row, ops'[l])
        PROVE  j = l
    <3>1. CASE l \in DOMAIN ops
      <4>1. ops[l].parent = i /\ ops[l].kind = "destroy_app" /\ ops[l].app = apps[m].id
        BY <1>2, <2>3, <2>5, <3>1 DEF SameChild, Brings
      <4>2. l \in Removing(i, apps[m].id)
        BY <3>1, <4>1 DEF Removing, Children
      <4> QED  BY <2>1, <4>2
    <3>2. CASE l \notin DOMAIN ops
      <4>1. PICK n \in M : ops'[l] = RemovalRow(i, n)
        BY <1>3, <3>2
      <4>2. RemovalRow(i, n).app = apps[n].id /\ RemovalRow(i, n).kind = "destroy_app"
        BY <1>6, <4>1, RemovalOfMember
      <4>3. apps[n].id = apps[m].id
        BY <2>3, <2>5, <4>1, <4>2 DEF SameChild, Brings
      <4>4. n = m
        BY <4>3 DEF Inv, Ids
      <4> QED  BY <1>4, <1>7, <2>1, <3>2, <4>1, <4>4
    <3> QED  BY <3>1, <3>2
  <2>6. ops'[j].parent < j
    BY <1>6, <2>3, <2>4
  <2> QED  BY <2>3, <2>4, <2>5, <2>6 DEF Fresh
<1>9. WorldKept
  <2>1. stack \in 0..Len(ops)
    BY DEF Inv, Types
  <2>2. stack' \in 0..Len(ops') /\ walk'.wait \subseteq DOMAIN ops' /\ walk'.wait \subseteq Nat
    BY <1>1, <1>6, <2>1
  <2>3. walk' \in Place
    <3>1. PICK W : W = earlier \union (Len(ops) + 1)..(Len(ops) + Len(SetToSeq({m \in M : Removing(i, apps[m].id) = {}})))
      OBVIOUS
    <3>2. walk' = [[Nowhere EXCEPT !.asked = TRUE] EXCEPT !.wait = W]
      BY <3>1 DEF Removals
    <3>3. W \in SUBSET Nat
      BY <1>1, <2>2, <3>2, Places DEF Nowhere
    <3> QED  BY <3>2, <3>3 DEF Nowhere, Place
  <2> QED  BY <1>1, <2>2, <2>3, SameBounds DEF WorldKept
<1>10. AskedFor
  <2>1. ASSUME NEW j \in DOMAIN ops, Leads(j)
        PROVE  j = i
    BY <2>1 DEF Inv, Walks
  <2>2. ASSUME ops[i].at = "destroy_members", NEW m \in Planned(i)
        PROVE  \E c \in walk'.wait : Removes(ops'[c], i, apps[m].id)
    <3>1. m \in M /\ Removing(i, apps[m].id) \subseteq earlier /\ m \in Members /\ Exists(m)
      BY <2>2 DEF Planned
    <3>2. CASE Removing(i, apps[m].id) = {}
      <4>1. PICK c \in DOMAIN ops' \ DOMAIN ops : ops'[c] = RemovalRow(i, m)
        BY <1>5, <3>1, <3>2
      <4>2. Removes(RemovalRow(i, m), i, apps[m].id)
        BY <1>6, <3>1, RemovalOfMember DEF Removes
      <4> QED  BY <1>1, <4>1, <4>2
    <3>3. CASE Removing(i, apps[m].id) # {}
      <4>1. PICK c : c \in Removing(i, apps[m].id)
        BY <3>3
      <4>2. c \in DOMAIN ops /\ Removes(ops[c], i, apps[m].id)
        BY <4>1 DEF Removing, Children, Removes
      <4> QED  BY <1>1, <1>2, <3>1, <4>1, <4>2
    <3> QED  BY <3>2, <3>3
  <2> QED  BY <2>1, <2>2 DEF AskedFor
<1>11. Len(ops) <= Len(ops') /\ apps' = apps
  BY <1>1
<1> QED  BY <1>1, <1>2, <1>8, <1>9, <1>10, <1>11, AddedKeeps

\* The two places where a parent asks for removals.
LEMMA AskForRemovals ==
  ASSUME Inv, NEW i \in DOMAIN ops, ReconcileRemovals(i) \/ DestroyMembers(i)
  PROVE  Inv'
<1>1. Leads(i) /\ UNCHANGED <<stack, apps, bounds>>
  BY DEF ReconcileRemovals, DestroyMembers, IsRunning, Runs, Leads, Parents
<1>2. CASE ReconcileRemovals(i)
  <2> DEFINE M == Undeclared(i)
             earlier == UNION {Removing(i, apps[m].id) : m \in M}
  <2>1. ops[i].at = "reconcile_removals" /\ Removals(i, M, earlier)
    BY <1>2 DEF ReconcileRemovals, IsRunning
  <2>2. M \in SUBSET Members /\ \A m \in M : Exists(m)
    BY DEF Undeclared, InStack
  <2>3. earlier \in SUBSET DOMAIN ops
    BY DEF Removing, Children
  <2> HIDE DEF M, earlier
  <2> QED  BY <1>1, <2>1, <2>2, <2>3, RemovalsKeep
<1>3. CASE DestroyMembers(i)
  <2> DEFINE M == {m \in Members : Exists(m) /\ apps[m].id \in ops[i].out}
             earlier == Children(i)
  <2>1. ops[i].at = "destroy_members" /\ Removals(i, M, earlier)
    BY <1>3 DEF DestroyMembers, IsRunning
  <2>2. M \in SUBSET Members /\ \A m \in M : Exists(m)
    OBVIOUS
  <2>3. earlier \in SUBSET DOMAIN ops
    BY DEF Children
  <2>4. \A m \in Planned(i) : m \in M /\ Removing(i, apps[m].id) \subseteq earlier
    BY DEF Planned, Removing
  <2> HIDE DEF M, earlier
  <2> QED  BY <1>1, <2>1, <2>2, <2>3, <2>4, RemovalsKeep
<1> QED  BY <1>2, <1>3

\* The last step of a deployment that skips members.
LEMMA FinalizeKeeps ==
  ASSUME Inv, NEW m \in Members, Finalize(m)
  PROVE  Inv'
<1> DEFINE row == RemovalRow(0, m)
<1>1. /\ Exists(m) /\ ops' = Append(ops, row)
      /\ stack' = stack /\ apps' = apps /\ walk' = walk /\ UNCHANGED bounds
  BY DEF Finalize
<1>2. /\ row \in OpRow /\ row.status = "pending" /\ row.parent = 0 /\ Asks(row) /\ row.out = {}
      /\ row.kind = "destroy_app" /\ Inserted(row.app) /\ row.at # "delete_stack_row"
  BY <1>1, RemovalOfMember
<1> HIDE DEF row
<1>3. \A j \in DOMAIN ops : ~SameChild(row, ops[j])
  BY <1>2 DEF SameChild
<1>4. walk \in Place /\ walk.wait \subseteq 1..(Len(ops) + 1) /\ walk.todo \subseteq walk.level
  <2>1. walk \in Place /\ walk.wait \subseteq DOMAIN ops /\ walk.todo \subseteq walk.level
    BY DEF Inv, Types
  <2> QED  BY <2>1, Facts
<1>5. row.parent \in 0..Len(ops)
  BY <1>2, Facts
<1> QED  BY <1>1, <1>2, <1>3, <1>4, <1>5, SameBounds, AppendKeeps

\* The request for a stack deployment.
LEMMA SubmitKeeps ==
  ASSUME Inv, NEW row \in OpRow, row.kind \in UserKinds, row.status = "pending", row.parent = 0,
         Asks(row), row.out = {}, row.at # "delete_stack_row", Submit(row)
  PROVE  Inv'
<1>1. /\ ops' = Append(ops, row) /\ stack' = stack /\ apps' = apps /\ walk' = walk
      /\ requests' \in 0..MaxRequests /\ mishaps' \in 0..MaxMishaps
  BY StackAssumption DEF Submit, Inv, Types
<1>2. \A j \in DOMAIN ops : ~SameChild(row, ops[j])
  BY DEF SameChild
<1>3. walk \in Place /\ walk.wait \subseteq 1..(Len(ops) + 1) /\ walk.todo \subseteq walk.level
  <2>1. walk \in Place /\ walk.wait \subseteq DOMAIN ops /\ walk.todo \subseteq walk.level
    BY DEF Inv, Types
  <2> QED  BY <2>1, Facts
<1>4. row.kind # "destroy_app"
  BY DEF UserKinds, Parents
<1>5. row.parent \in 0..Len(ops)
  BY Facts
<1> QED  BY <1>1, <1>2, <1>3, <1>4, <1>5, AppendKeeps

\* A request for the deployment of a member is no child.
LEMMA SubmitDeployKeeps ==
  ASSUME Inv, NEW r \in DOMAIN Requests, SubmitDeploy(r)
  PROVE  Inv'
<1>1. PICK q : q = Row("deploy_stack", 0, "plan")
  OBVIOUS
<1>2. "deploy_stack" \in Kinds /\ "plan" \in Steps /\ 0 \in Nat
  BY DEF Kinds, Steps, Parents
<1>3. q \in OpRow /\ q.kind = "deploy_stack" /\ q.parent = 0 /\ q.at = "plan"
      /\ q.status = "pending" /\ q.out = {}
  BY <1>1, <1>2, NewRow
<1>4. r \in Nat
  BY StackAssumption, LenProperties
<1>5. PICK row : row = [q EXCEPT !.req = r]
  OBVIOUS
<1>6. /\ row \in OpRow /\ row.kind = "deploy_stack" /\ row.status = "pending" /\ row.parent = 0
      /\ Asks(row) /\ row.out = {} /\ row.at = "plan"
  BY <1>3, <1>4, <1>5 DEF OpRow, Asks
<1>7. Submit(row) /\ row.kind \in UserKinds
  BY <1>1, <1>5, <1>6 DEF SubmitDeploy, UserKinds, Parents
<1> QED  BY <1>6, <1>7, SubmitKeeps

\* A request for the removal of a member is no child either.
LEMMA SubmitDestroyKeeps ==
  ASSUME Inv, SubmitDestroy
  PROVE  Inv'
<1>1. PICK q : q = Row("destroy_stack", 0, "plan_destroy")
  OBVIOUS
<1>2. "destroy_stack" \in Kinds /\ "plan_destroy" \in Steps /\ 0 \in Nat
  BY DEF Kinds, Steps, Parents
<1>3. q \in OpRow /\ q.kind = "destroy_stack" /\ q.parent = 0 /\ q.at = "plan_destroy"
      /\ q.status = "pending" /\ q.out = {}
  BY <1>1, <1>2, NewRow
<1>4. stack \in Nat
  BY Facts DEF Inv, Types
<1>5. PICK row : row = [q EXCEPT !.stack = stack]
  OBVIOUS
<1>6. /\ row \in OpRow /\ row.kind = "destroy_stack" /\ row.status = "pending" /\ row.parent = 0
      /\ Asks(row) /\ row.out = {} /\ row.at = "plan_destroy"
  BY <1>3, <1>4, <1>5 DEF OpRow, Asks
<1>7. Submit(row) /\ row.kind \in UserKinds
  BY <1>1, <1>5, <1>6 DEF SubmitDestroy, UserKinds, Parents
<1> QED  BY <1>6, <1>7, SubmitKeeps

\* Nor is a request to restart a member.
LEMMA SubmitRestartKeeps ==
  ASSUME Inv, NEW m \in Members, SubmitRestart(m)
  PROVE  Inv'
<1>1. PICK q : q = Row("restart_app", 0, "restart")
  OBVIOUS
<1>2. "restart_app" \in Kinds /\ "restart" \in Steps /\ 0 \in Nat
  BY DEF Kinds, Steps
<1>3. q \in OpRow /\ q.kind = "restart_app" /\ q.parent = 0 /\ q.at = "restart"
      /\ q.status = "pending" /\ q.out = {}
  BY <1>1, <1>2, NewRow
<1>4. apps[m].id \in Nat
  BY Facts DEF AppRow
<1>5. PICK row : row = [q EXCEPT !.member = m, !.app = apps[m].id]
  OBVIOUS
<1>6. /\ row \in OpRow /\ row.kind = "restart_app" /\ row.status = "pending" /\ row.parent = 0
      /\ Asks(row) /\ row.out = {} /\ row.at = "restart"
  BY <1>3, <1>4, <1>5 DEF OpRow, Asks
<1>7. Submit(row) /\ row.kind \in UserKinds
  BY <1>1, <1>5, <1>6 DEF SubmitRestart, UserKinds
<1> QED  BY <1>6, <1>7, SubmitKeeps

-----------------------------------------------------------------------------
(* Cancel requests, starts, crashes and the repairs of an app's status *)

\* A cancel request settles a row that waits, and only marks one that runs.
LEMMA CancelledRow ==
  ASSUME Inv, NEW i \in DOMAIN ops
  PROVE  LET row == CancelRow(ops[i]) IN
         /\ row \in OpRow /\ SameRow(ops[i], row) /\ row.at = ops[i].at
         /\ row.status \in {"running", "done"} => ops[i].status = row.status
<1>1. ops[i] \in OpRow
  BY Facts
<1>2. CASE ops[i].status = "pending"
  <2>1. CancelRow(ops[i]) = [ops[i] EXCEPT !.status = "cancelled"]
    BY <1>2 DEF CancelRow
  <2> QED  BY <1>1, <1>2, <2>1 DEF OpRow, SameRow, Status, Settled
<1>3. CASE ops[i].status = "running"
  <2>1. CancelRow(ops[i]) = [ops[i] EXCEPT !.cancel = TRUE]
    BY <1>3 DEF CancelRow
  <2> QED  BY <1>1, <1>3, <2>1 DEF OpRow, SameRow
<1>4. CASE ops[i].status \notin {"pending", "running"}
  <2>1. CancelRow(ops[i]) = ops[i]
    BY <1>4 DEF CancelRow
  <2> QED  BY <1>1, <2>1 DEF SameRow
<1> QED  BY <1>2, <1>3, <1>4

\* Any rows lose their turn or are asked to stop: nobody begins or is done.
LEMMA QuietRows ==
  ASSUME Inv, DOMAIN ops' = DOMAIN ops, ops' = [j \in DOMAIN ops |-> ops'[j]],
         \A j \in DOMAIN ops :
           /\ ops'[j] \in OpRow /\ SameRow(ops[j], ops'[j]) /\ ops'[j].at = ops[j].at
           /\ ops'[j].status \in {"running", "done"} => ops[j].status = ops'[j].status,
         apps' = apps, stack' = stack, walk' \in {walk, Nowhere},
         requests' \in 0..MaxRequests, mishaps' \in 0..MaxMishaps
  PROVE  Inv'
<1>1. DOMAIN ops = 1..Len(ops) /\ Len(ops) \in Nat
  BY Facts
<1>2. ops' \in Seq(OpRow)
  <2>1. ops' \in [1..Len(ops) -> OpRow]
    BY <1>1
  <2> QED  BY <1>1, <2>1, SeqDef
<1>3. Len(ops') = Len(ops)
  <2>1. DOMAIN ops' = 1..Len(ops') /\ Len(ops') \in Nat
    BY <1>2, LenProperties
  <2> QED  BY <1>1, <2>1
<1>4. WorldKept
  <2>1. /\ stack \in 0..Len(ops) /\ walk \in Place /\ walk.wait \subseteq DOMAIN ops
        /\ walk.todo \subseteq walk.level
    BY DEF Inv, Types
  <2> QED  BY <1>3, <2>1, Places DEF WorldKept
<1>5. RemovalsTrue
  BY DEF RemovalsTrue, SameRow
<1>6. ParentsKept
  <2>1. \A j \in DOMAIN ops : Leads(j)' => Leads(j)
    BY DEF Leads, SameRow
  <2>2. walk'.asked => walk' = walk
    BY Places
  <2> QED  BY <2>1, <2>2 DEF ParentsKept, Inv, Walks
<1> QED  BY <1>2, <1>3, <1>4, <1>5, <1>6, SameApps, SameTable

\* A cancel request of an operator.
LEMMA CancelKeeps ==
  ASSUME Inv, NEW i \in DOMAIN ops, Cancel(i)
  PROVE  Inv'
<1>1. With(i, CancelRow(ops[i])) /\ stack' = stack /\ apps' = apps /\ walk' = walk
      /\ requests' \in 0..MaxRequests /\ mishaps' \in 0..MaxMishaps
  BY NextMishap DEF Cancel
<1>2. /\ DOMAIN ops' = DOMAIN ops /\ ops' = [j \in DOMAIN ops |-> ops'[j]]
      /\ \A j \in DOMAIN ops : ops'[j] = IF j = i THEN CancelRow(ops[j]) ELSE ops[j]
  <2>1. ops' = [ops EXCEPT ![i] = CancelRow(ops[i])]
    BY <1>1 DEF With
  <2>2. ops = [j \in DOMAIN ops |-> ops[j]]
    BY LenProperties DEF Inv, Types
  <2> QED  BY <2>1, <2>2
<1>3. ASSUME NEW j \in DOMAIN ops
      PROVE  /\ ops'[j] \in OpRow /\ SameRow(ops[j], ops'[j]) /\ ops'[j].at = ops[j].at
             /\ ops'[j].status \in {"running", "done"} => ops[j].status = ops'[j].status
  <2>1. ops[j] \in OpRow /\ SameRow(ops[j], ops[j])
    BY Facts DEF SameRow
  <2> QED  BY <1>2, <2>1, CancelledRow
<1> QED  BY <1>1, <1>2, <1>3, QuietRows

\* The cancel requests of a parent that gives up waiting.
LEMMA AwaitCancelsKeeps ==
  ASSUME Inv, NEW i \in DOMAIN ops, AwaitCancels(i)
  PROVE  Inv'
<1>1. /\ ops' = [j \in DOMAIN ops |-> IF j \in walk.wait THEN CancelRow(ops[j]) ELSE ops[j]]
      /\ UNCHANGED <<stack, apps, walk, bounds>>
  BY DEF AwaitCancels
<1>2. ASSUME NEW j \in DOMAIN ops
      PROVE  /\ ops'[j] \in OpRow /\ SameRow(ops[j], ops'[j]) /\ ops'[j].at = ops[j].at
             /\ ops'[j].status \in {"running", "done"} => ops[j].status = ops'[j].status
  <2>1. ops[j] \in OpRow /\ SameRow(ops[j], ops[j])
    BY Facts DEF SameRow
  <2> QED  BY <1>1, <2>1, CancelledRow
<1> QED  BY <1>1, <1>2, SameBounds, QuietRows

\* After a crash the parent walks from its step again: it has asked for nothing
\* yet and leaves the rows to tell which children there are.
LEMMA CrashKeeps ==
  ASSUME Inv, Crash
  PROVE  Inv'
<1>1. /\ ops' = [j \in DOMAIN ops |-> IF ops[j].status = "running" THEN Ended(j, "pending") ELSE ops[j]]
      /\ stack' = stack /\ apps' = apps /\ walk' = Nowhere
      /\ requests' \in 0..MaxRequests /\ mishaps' \in 0..MaxMishaps
  BY NextMishap DEF Crash
<1>2. ASSUME NEW j \in DOMAIN ops
      PROVE  /\ ops'[j] \in OpRow /\ SameRow(ops[j], ops'[j]) /\ ops'[j].at = ops[j].at
             /\ ops'[j].status \in {"running", "done"} => ops[j].status = ops'[j].status
  <2>1. CASE ops[j].status = "running"
    BY <1>1, <2>1, EndedRow DEF Status
  <2>2. CASE ops[j].status # "running"
    BY <1>1, <2>2, Facts DEF SameRow
  <2> QED  BY <2>1, <2>2
<1> QED  BY <1>1, <1>2, QuietRows

\* A parent that starts is the only one, by the key of the stack.
LEMMA StartKeeps ==
  ASSUME Inv, NEW i \in DOMAIN ops, Start(i)
  PROVE  Inv'
<1>1. ops[i].status = "pending" /\ stack' = stack /\ apps' = apps /\ UNCHANGED bounds /\ ~Blocked(i)
  BY DEF Start, MayStart
<1>2. CASE With(i, Ended(i, "cancelled")) /\ UNCHANGED walk
  <2>1. Ended(i, "cancelled") \in OpRow /\ Ended(i, "cancelled").at = ops[i].at
        /\ Ended(i, "cancelled").status = "cancelled" /\ SameRow(ops[i], Ended(i, "cancelled"))
    BY EndedRow DEF Status, Settled
  <2>2. WorldKept
    <3>1. Len(ops') = Len(ops) /\ DOMAIN ops' = DOMAIN ops
      BY <1>2, <2>1, WithTable
    <3> QED  BY <1>1, <1>2, <3>1, Facts, SameBounds, SameWorld
  <2> QED  BY <1>1, <1>2, <2>1, <2>2, SameApps, EditKeeps
<1>3. CASE With(i, Ended(i, "running"))
           /\ walk' = CASE ops[i].kind \notin Parents -> walk
                        [] ops[i].kind = "deploy_stack" /\ ops[i].at = "deploy_apps" -> AtLevel(Selected(Want(i)))
                        [] OTHER -> Nowhere
  <2> DEFINE row == Ended(i, "running")
  <2>1. row \in OpRow /\ row.at = ops[i].at /\ row.status = "running" /\ row.kind = ops[i].kind
        /\ SameRow(ops[i], row)
    BY <1>1, EndedRow DEF Status
  <2>2. With(i, row)
    BY <1>3
  <2> HIDE DEF row
  <2>3. /\ ops' \in Seq(OpRow) /\ Len(ops') = Len(ops) /\ DOMAIN ops' = DOMAIN ops
        /\ \A j \in DOMAIN ops : ops'[j] = IF j = i THEN row ELSE ops[j]
    BY <2>1, <2>2, WithTable
  <2>4. ops[i].kind \in Parents => walk' \in {Nowhere, AtLevel(Selected(Want(i)))}
    BY <1>3
  <2>5. ops[i].kind \notin Parents => walk' = walk
    BY <1>3 DEF Parents
  <2>6. Nowhere \in Place /\ Nowhere.wait = {} /\ ~Nowhere.asked /\ Nowhere.todo \subseteq Nowhere.level
    BY Places
  <2>7. ops[i].kind = "deploy_stack" =>
          /\ AtLevel(Selected(Want(i))) \in Place /\ AtLevel(Selected(Want(i))).wait = {}
          /\ ~AtLevel(Selected(Want(i))).asked
          /\ AtLevel(Selected(Want(i))).todo \subseteq AtLevel(Selected(Want(i))).level
    <3>1. ops[i].kind = "deploy_stack" => Selected(Want(i)) \in SUBSET Members
      BY Wanted DEF Selected
    <3> QED  BY <3>1, Places
  <2>8. ops[i].kind = "destroy_stack" => walk' = Nowhere
    BY <1>3 DEF Parents
  <2>9. ops[i].kind \in Parents => walk' \in Place /\ walk'.wait = {} /\ ~walk'.asked /\ walk'.todo \subseteq walk'.level
    BY <2>4, <2>6, <2>7, <2>8 DEF Parents
  <2>10. WorldKept
    <3>1. /\ stack \in 0..Len(ops) /\ walk \in Place /\ walk.wait \subseteq DOMAIN ops
          /\ walk.todo \subseteq walk.level
      BY DEF Inv, Types
    <3> QED  BY <1>1, <2>3, <2>5, <2>9, <3>1, SameBounds DEF WorldKept
  <2>11. \A j \in DOMAIN ops : SameRow(ops[j], ops'[j])
    BY <2>1, <2>3 DEF SameRow
  <2>12. RemovalsTrue
    BY <2>1, <2>3 DEF RemovalsTrue
  <2>13. ParentsKept
    <3>1. CASE ops[i].kind \notin Parents
      <4>1. \A j \in DOMAIN ops' : Leads(j)' => j \in DOMAIN ops /\ Leads(j) /\ ops'[j].at = ops[j].at
        BY <2>1, <2>3, <3>1 DEF Leads
      <4> QED  BY <2>1, <2>3, <2>5, <3>1, <4>1 DEF ParentsKept, Inv, Walks
    <3>2. CASE ops[i].kind \in Parents
      <4>1. ASSUME NEW j \in DOMAIN ops, Leads(j)
            PROVE  FALSE
        <5>1. Keys(j) = {<<"stack", 0>>} /\ Keys(i) = {<<"stack", 0>>}
          BY <3>2, <4>1 DEF Keys, Leads, Parents
        <5>2. Contend(i, j)
          BY <5>1 DEF Contend
        <5> QED  BY <1>1, <4>1, <5>2 DEF Blocked, Leads
      <4>2. \A j \in DOMAIN ops' : Leads(j)' => j = i
        BY <2>3, <4>1 DEF Leads
      <4> QED  BY <2>1, <2>3, <2>9, <3>2, <4>2 DEF ParentsKept
    <3> QED  BY <3>1, <3>2
  <2> QED  BY <1>1, <2>3, <2>10, <2>11, <2>12, <2>13, SameApps, SameTable
<1> QED  BY <1>2, <1>3 DEF Start

\* What the controllers write to an app leaves its id.
LEMMA AppRepairs ==
  ASSUME Inv, Sweep \/ \E m \in Members : Recovers(m) \/ Sickens(m)
  PROVE  Inv'
<1>1. /\ ops' = ops /\ stack' = stack /\ walk' = walk
      /\ requests' \in 0..MaxRequests /\ mishaps' \in 0..MaxMishaps
  BY SameBounds, NextMishap DEF Sweep, Recovers, Sickens
<1>2. AppsKept
  <2>1. CASE Sweep
    <3>1. ASSUME NEW m \in Members
          PROVE  apps'[m] \in AppRow /\ apps'[m].id = apps[m].id
      <4>1. apps[m] \in AppRow
        BY Facts
      <4>2. apps'[m] \in {apps[m], [apps[m] EXCEPT !.status = "running"]}
        BY <2>1 DEF Sweep, Healed
      <4> QED  BY <4>1, <4>2 DEF AppRow
    <3>2. apps' \in [Members -> AppRow]
      BY <2>1, <3>1 DEF Sweep, Healed
    <3> QED  BY <3>1, <3>2, EditedApps
  <2>2. ASSUME NEW m \in Members, Recovers(m) \/ Sickens(m)
        PROVE  AppsKept
    <3>1. apps[m] \in AppRow /\ apps \in [Members -> AppRow]
      BY Facts DEF Inv, Types
    <3>2. PICK app \in {[apps[m] EXCEPT !.status = "running"], [apps[m] EXCEPT !.status = "unhealthy"]} :
            apps' = [apps EXCEPT ![m] = app]
      BY <2>2, <3>1 DEF Recovers, Sickens
    <3>3. app \in AppRow /\ app.id = apps[m].id
      BY <3>1, <3>2 DEF AppRow
    <3>4. apps' = [apps EXCEPT ![m] = app]
      BY <3>2
    <3> QED  BY <3>3, <3>4, AppWritten
  <2> QED  BY <2>1, <2>2
<1>3. WorldKept
  BY <1>1, Facts, SameWorld
<1> QED  BY <1>1, <1>2, <1>3, NoRow

\* Every step of a parent.
LEMMA ParentKeeps ==
  ASSUME Inv, NEW i \in DOMAIN ops, ParentStep(i)
  PROVE  Inv'
BY PlanStackKeeps, PassLevelKeeps, AskForRemovals, StackStepKeeps, PlanDestroyKeeps,
   PassMembersKeeps, DeployMemberKeeps, ParentFails, AwaitCancelsKeeps DEF ParentStep

-----------------------------------------------------------------------------
(* The initial states *)

\* A stack that stands already was deployed by its first request, and each of
\* its apps has the row of its child for its id.
LEMMA StandingStack ==
  ASSUME stack = 1, ops = Deployed, apps = Standing, walk = Nowhere, requests = 0, mishaps = 0
  PROVE  /\ Inv
         /\ \A i \in DOMAIN ops :
              /\ ops[i].status = "done" /\ ops[i].req = 1
              /\ \/ ops[i].kind = "deploy_stack" /\ ops[i].at = "finalize"
                 \/ ops[i].kind = "deploy" /\ ops[i].at = "serve" /\ ops[i].app = i /\ ops[i].parent = 1
         /\ 1 \in DOMAIN ops /\ ops[1].kind = "deploy_stack"
         /\ \A m \in Members : Exists(m) \/ apps[m] = NoApp
<1> DEFINE S == Requests[1].apps
           n == Cardinality(S)
           f == SetToSeq(S)
           first == [Row("deploy_stack", 0, "finalize") EXCEPT !.req = 1, !.stack = 1, !.status = "done"]
           member(k) == [Row("deploy", 1, "serve") EXCEPT !.req = 1, !.stack = 1, !.app = k + 1,
                           !.member = f[k], !.status = "done"]
<1>1. 1 \in DOMAIN Requests /\ Requests[1] \in Request
  <2>1. Requests \in Seq(Request) /\ Len(Requests) \in Nat \ {0} /\ DOMAIN Requests = 1..Len(Requests)
    BY StackAssumption, EmptySeq, LenProperties
  <2> QED  BY <2>1, ElementOfSeq
<1>2. IsFiniteSet(S) /\ S \subseteq Members /\ Requests[1].image \in Nat
  <2>1. S \in SUBSET Members /\ Requests[1].image \in Nat
    BY <1>1 DEF Request
  <2> QED  BY <2>1, StackAssumption, FS_Subset
<1>3. /\ n \in Nat /\ \A k \in 1..n : f[k] \in S
      /\ \A j, k \in 1..n : f[j] = f[k] => j = k
  <2> HIDE DEF S
  <2> QED  BY <1>2, SetAsSequence
<1>4. first \in OpRow /\ first.kind = "deploy_stack" /\ first.parent = 0 /\ first.status = "done"
      /\ first.out = {} /\ first.member = NoMember /\ first.req = 1 /\ first.at = "finalize"
  <2>1. PICK r : r = Row("deploy_stack", 0, "finalize")
    OBVIOUS
  <2>2. "deploy_stack" \in Kinds /\ "finalize" \in Steps /\ 0 \in Nat /\ "done" \in Status
    BY DEF Kinds, Steps, Parents, Status, Settled
  <2>3. r \in OpRow /\ r.kind = "deploy_stack" /\ r.parent = 0 /\ r.out = {} /\ r.member = NoMember
        /\ r.at = "finalize"
    BY <2>1, <2>2, NewRow
  <2>4. first = [r EXCEPT !.req = 1, !.stack = 1, !.status = "done"]
    BY <2>1
  <2> HIDE DEF first
  <2> QED  BY <2>2, <2>3, <2>4 DEF OpRow
<1>5. ASSUME NEW k \in 1..n
      PROVE  /\ member(k) \in OpRow /\ member(k).kind = "deploy" /\ member(k).parent = 1
             /\ member(k).status = "done" /\ member(k).out = {} /\ member(k).member = f[k]
             /\ member(k).req = 1 /\ member(k).at = "serve" /\ member(k).app = k + 1
  <2>1. PICK r : r = Row("deploy", 1, "serve")
    OBVIOUS
  <2>2. "deploy" \in Kinds /\ "serve" \in Steps /\ 1 \in Nat /\ "done" \in Status
    BY DEF Kinds, Steps, Status, Settled
  <2>3. r \in OpRow /\ r.kind = "deploy" /\ r.parent = 1 /\ r.out = {} /\ r.at = "serve"
    BY <2>1, <2>2, NewRow
  <2>4. PICK a \in Nat : a = k + 1
    BY <1>3
  <2>5. PICK g \in Members : g = f[k]
    BY <1>2, <1>3
  <2>6. PICK q : q = [r EXCEPT !.req = 1, !.stack = 1, !.app = a, !.member = g, !.status = "done"]
    OBVIOUS
  <2>7. member(k) = q
    BY <2>1, <2>4, <2>5, <2>6
  <2>8. /\ q \in OpRow /\ q.kind = "deploy" /\ q.parent = 1 /\ q.status = "done" /\ q.out = {}
        /\ q.member = g /\ q.req = 1 /\ q.at = "serve" /\ q.app = a
    BY <2>2, <2>3, <2>6 DEF OpRow
  <2> HIDE DEF member
  <2> QED  BY <2>4, <2>5, <2>7, <2>8
<1>6. ops = <<first>> \o [k \in 1..n |-> member(k)]
  BY DEF Deployed
<1> DEFINE rest == [k \in 1..n |-> member(k)]
<1> HIDE DEF S, n, f, first, member
<1>7. rest \in Seq(OpRow) /\ Len(rest) = n /\ \A k \in 1..n : rest[k] = member(k)
  <2>1. rest \in [1..n -> OpRow]
    BY <1>5
  <2>2. rest \in Seq(OpRow)
    BY <1>3, <2>1, SeqDef
  <2>3. DOMAIN rest = 1..Len(rest) /\ Len(rest) \in Nat
    BY <2>2, LenProperties
  <2> QED  BY <1>3, <2>1, <2>2, <2>3
<1> HIDE DEF rest
<1>8. /\ ops \in Seq(OpRow) /\ Len(ops) = n + 1 /\ DOMAIN ops = 1..(n + 1)
      /\ ops[1] = first /\ \A k \in 1..n : ops[k + 1] = member(k)
  <2>1. <<first>> \in Seq(OpRow) /\ Len(<<first>>) = 1 /\ <<first>>[1] = first
    BY <1>4
  <2>2. ops = <<first>> \o rest
    BY <1>6 DEF rest
  <2>3. /\ ops \in Seq(OpRow) /\ Len(ops) = 1 + n
        /\ \A j \in 1..(1 + n) : ops[j] = IF j <= 1 THEN <<first>>[j] ELSE rest[j - 1]
    BY <1>7, <2>1, <2>2, ConcatProperties
  <2>4. DOMAIN ops = 1..(n + 1)
    BY <1>3, <2>3, LenProperties
  <2>5. ASSUME NEW k \in 1..n
        PROVE  ops[k + 1] = member(k)
    <3>1. k + 1 \in 1..(1 + n) /\ ~(k + 1 <= 1) /\ (k + 1) - 1 = k
      BY <1>3
    <3> QED  BY <1>7, <2>3, <3>1
  <2> QED  BY <1>3, <2>1, <2>3, <2>4, <2>5
<1>9. ASSUME NEW i \in DOMAIN ops, i # 1
      PROVE  \E k \in 1..n : i = k + 1 /\ ops[i] = member(k)
  <2>1. i - 1 \in 1..n /\ i = (i - 1) + 1
    BY <1>3, <1>8, <1>9
  <2> QED  BY <1>8, <2>1
<1>10. \A i \in DOMAIN ops : ops[i].kind \in {"deploy_stack", "deploy"} /\ ops[i].status = "done"
                             /\ ops[i].out = {} /\ ops[i].req = 1
  BY <1>4, <1>5, <1>8, <1>9
<1>11. \A i \in DOMAIN ops : ops[i].member \in Members =>
         ops[i].kind = "deploy" /\ ops[i].at = "serve"
  <2>1. NoMember \notin Members
    BY StackAssumption
  <2> QED  BY <1>4, <1>5, <1>8, <1>9, <2>1
<1>12. ASSUME NEW m \in Members
       PROVE  \/ apps[m] = NoApp
              \/ /\ apps[m] \in AppRow
                 /\ apps[m].id \in DOMAIN ops /\ ops[apps[m].id].member = m
  <2> DEFINE rows == {i \in DOMAIN Deployed : Deployed[i].member = m}
             id == CHOOSE i \in rows : TRUE
  <2>1. apps[m] = IF rows = {} THEN NoApp
                  ELSE [id |-> id, stack |-> 1, image |-> Requests[1].image,
                        deployed |-> Requests[1].image, status |-> "running", doomed |-> FALSE]
    BY DEF Standing
  <2>2. rows # {} => id \in DOMAIN ops /\ ops[id].member = m
    OBVIOUS
  <2> HIDE DEF rows, id
  <2>3. rows # {} => id \in Nat
    BY <1>3, <1>8, <2>2
  <2> QED  BY <1>2, <2>1, <2>2, <2>3 DEF AppRow
<1>13. NoApp \in AppRow /\ NoApp.id = 0
  BY DEF NoApp, AppRow
<1>14. apps \in [Members -> AppRow]
  <2>1. apps = [m \in Members |-> apps[m]]
    BY DEF Standing
  <2>2. \A m \in Members : apps[m] \in AppRow
    BY <1>12, <1>13
  <2> QED  BY <2>1, <2>2
<1>15. ASSUME NEW i \in DOMAIN ops
       PROVE  ops[i].parent < i /\ Asks(ops[i])
  <2>1. CASE i = 1
    BY <1>1, <1>4, <1>8, <2>1 DEF Asks
  <2>2. CASE i # 1
    <3>1. PICK k \in 1..n : i = k + 1 /\ ops[i] = member(k)
      BY <1>9, <2>2
    <3>2. f[k] \in Members
      BY <1>2, <1>3
    <3> QED  BY <1>1, <1>3, <1>5, <3>1, <3>2 DEF Asks
  <2> QED  BY <2>1, <2>2
<1>16. Types
  <2>1. stack \in 0..Len(ops)
    BY <1>3, <1>8
  <2>2. requests \in 0..MaxRequests /\ mishaps \in 0..MaxMishaps
    BY StackAssumption
  <2> QED  BY <1>8, <1>14, <1>15, <2>1, <2>2, Places DEF Types
<1>17. Once
  <2> SUFFICES ASSUME NEW i \in DOMAIN ops, NEW j \in DOMAIN ops, SameChild(ops[i], ops[j])
               PROVE  i = j
    BY DEF Once
  <2>1. Brings(ops[i]) /\ Brings(ops[j]) /\ ops[i].member = ops[j].member
    BY <1>10 DEF SameChild
  <2>2. i # 1 /\ j # 1
    BY <1>4, <1>8, <2>1 DEF Brings
  <2>3. PICK k \in 1..n : i = k + 1 /\ ops[i] = member(k)
    BY <1>9, <2>2
  <2>4. PICK l \in 1..n : j = l + 1 /\ ops[j] = member(l)
    BY <1>9, <2>2
  <2> QED  BY <1>3, <1>5, <2>1, <2>3, <2>4
<1>18. Ids
  BY <1>10, <1>11, <1>12, <1>13 DEF Ids, Inserted, Exists
<1>19. GoneForGood /\ Walks /\ Ending
  BY <1>10 DEF GoneForGood, Walks, Leads, Ending
<1>20. ASSUME NEW i \in DOMAIN ops
       PROVE  \/ ops[i].kind = "deploy_stack" /\ ops[i].at = "finalize"
              \/ ops[i].kind = "deploy" /\ ops[i].at = "serve" /\ ops[i].app = i /\ ops[i].parent = 1
  BY <1>4, <1>5, <1>8, <1>9
<1>21. \A m \in Members : Exists(m) \/ apps[m] = NoApp
  BY <1>3, <1>8, <1>12 DEF Exists
<1>22. 1 \in DOMAIN ops /\ ops[1].kind = "deploy_stack"
  BY <1>3, <1>4, <1>8
<1> QED  BY <1>10, <1>16, <1>17, <1>18, <1>19, <1>20, <1>21, <1>22 DEF Inv

\* Both the empty table and a stack that stands satisfy the invariant.
LEMMA InitInv == Init => Inv
<1> SUFFICES ASSUME Init PROVE Inv
  OBVIOUS
<1>1. walk = Nowhere /\ requests = 0 /\ mishaps = 0
  BY DEF Init
<1>2. CASE stack = 0 /\ ops = <<>> /\ apps = [m \in Members |-> NoApp]
  <2>1. NoApp \in AppRow /\ NoApp.id = 0
    BY DEF NoApp, AppRow
  <2>2. ops \in Seq(OpRow) /\ Len(ops) = 0 /\ DOMAIN ops = {}
    BY <1>2, EmptySeq
  <2>3. requests \in 0..MaxRequests /\ mishaps \in 0..MaxMishaps
    BY <1>1, StackAssumption
  <2>4. Types
    BY <1>1, <1>2, <2>1, <2>2, <2>3, Places DEF Types
  <2> QED  BY <1>2, <2>1, <2>2, <2>4 DEF Inv, Once, Ids, GoneForGood, Walks, Ending, Exists
<1>3. CASE stack = 1 /\ ops = Deployed /\ apps = Standing
  BY <1>1, <1>3, StandingStack
<1> QED  BY <1>2, <1>3 DEF Init

\* A step that changes nothing keeps the invariant.
LEMMA StutterKeeps ==
  ASSUME Inv, UNCHANGED vars
  PROVE  Inv'
<1>1. ops' = ops /\ apps' = apps /\ stack' = stack /\ walk' = walk /\ UNCHANGED bounds
  BY DEF vars
<1>2. WorldKept
  BY <1>1, Facts, SameBounds, SameWorld
<1> QED  BY <1>1, <1>2, SameApps, NoRow

\* Every step keeps the invariant.
LEMMA NextInv == Inv /\ [Next]_vars => Inv'
<1> SUFFICES ASSUME Inv, [Next]_vars PROVE Inv'
  OBVIOUS
<1>1. CASE \E i \in DOMAIN ops : Start(i) \/ Cancel(i)
  BY <1>1, StartKeeps, CancelKeeps
<1>2. CASE \E i \in DOMAIN ops : ops[i].status = "running" /\ (ParentStep(i) \/ ChildStep(i) \/ ChildFails(i))
  BY <1>2, ParentKeeps, ChildKeeps
<1>3. CASE \E m \in Members : Finalize(m) \/ Recovers(m) \/ Sickens(m) \/ SubmitRestart(m)
  BY <1>3, FinalizeKeeps, AppRepairs, SubmitRestartKeeps
<1>4. CASE \E r \in DOMAIN Requests : SubmitDeploy(r)
  BY <1>4, SubmitDeployKeeps
<1>5. CASE SubmitDestroy \/ Crash \/ Sweep
  BY <1>5, SubmitDestroyKeeps, CrashKeeps, AppRepairs
<1>6. CASE UNCHANGED vars
  BY <1>6, StutterKeeps
<1> QED  BY <1>1, <1>2, <1>3, <1>4, <1>5, <1>6 DEF Next

-----------------------------------------------------------------------------
(* The theorems *)

\* Invariance: rows, apps and the walk of the parent stay related over every
\* action.
THEOREM Invariance == Spec => []Inv
<1>1. Init => Inv
  BY InitInv
<1>2. Inv /\ [Next]_vars => Inv'
  BY NextInv
<1> QED  BY <1>1, <1>2, PTL DEF Spec

\* TypeCorrectness: every variable keeps its type, and the id of an app names
\* the row of the member that inserted it.
THEOREM TypeCorrectness == Spec => []TypeOK
<1>1. Inv => TypeOK
  <2> SUFFICES ASSUME Inv PROVE TypeOK
    OBVIOUS
  <2>1. ASSUME NEW m \in Members
        PROVE  apps[m].id \in 0..Len(ops) /\ (Exists(m) => ops[apps[m].id].member = m)
    <3>1. apps[m].id \in Nat /\ Len(ops) \in Nat /\ DOMAIN ops = 1..Len(ops)
      BY Facts DEF AppRow
    <3>2. Exists(m) => apps[m].id \in DOMAIN ops /\ ops[apps[m].id].member = m
      BY DEF Inv, Ids, Inserted
    <3> QED  BY <3>1, <3>2 DEF Exists
  <2>2. ASSUME NEW i \in DOMAIN ops
        PROVE  /\ ops[i].status \in Settled \union {"pending", "running"}
               /\ ops[i].parent \in 0..(i - 1)
    <3>1. ops[i] \in OpRow /\ ops[i].parent < i /\ i \in Nat
      BY Facts DEF Inv, Types
    <3> QED  BY <3>1 DEF OpRow, Status
  <2> QED  BY <2>1, <2>2 DEF Inv, Types, TypeOK
<1> QED  BY <1>1, Invariance, PTL

\* A set of rows in which any two are one has at most one.
LEMMA AtMostOne ==
  ASSUME NEW S \in SUBSET DOMAIN ops, \A c, d \in S : c = d
  PROVE  Cardinality(S) <= 1
<1>1. CASE S = {}
  BY <1>1, FS_EmptySet
<1>2. CASE S # {}
  <2>1. PICK c \in S : S = {c}
    BY <1>2
  <2>2. Cardinality({c}) = 1
    BY FS_Singleton
  <2> QED  BY <2>1, <2>2
<1> QED  BY <1>1, <1>2

\* EveryMemberOnce: however often a parent is taken up again, no member has two
\* children that bring it and no app two that remove it.
THEOREM EveryMemberOnce == Spec => []OneChildPerMember
<1>1. Inv => OneChildPerMember
  <2> SUFFICES ASSUME Inv, NEW p \in DOMAIN ops, NEW m \in Members
               PROVE  /\ Cardinality(Deploying(p, m)) <= 1
                      /\ Cardinality(Removing(p, apps[m].id)) <= 1
    BY DEF OneChildPerMember
  <2>1. p # 0
    BY Facts
  <2>2. \A c, d \in Deploying(p, m) : c = d
    BY <2>1 DEF Deploying, Children, Inv, Once, SameChild, Brings
  <2>3. \A c, d \in Removing(p, apps[m].id) : c = d
    BY <2>1 DEF Removing, Children, Inv, Once, SameChild
  <2>4. Deploying(p, m) \in SUBSET DOMAIN ops /\ Removing(p, apps[m].id) \in SUBSET DOMAIN ops
    BY DEF Deploying, Removing, Children
  <2> QED  BY <2>2, <2>3, <2>4, AtMostOne
<1> QED  BY <1>1, Invariance, PTL

-----------------------------------------------------------------------------
(* The members of a deployment *)

\* A parent that may have children, and one that is in charge of the stack.
Begun(i) == ops[i].kind \in Parents /\ Active(i) /\ ops[i].at \notin {"plan", "plan_destroy"}
InCharge(i) == Leads(i) \/ Begun(i)

\* The parents of a stack come one after the other.
Queue ==
  \A i, j \in DOMAIN ops : InCharge(i) /\ i # j /\ ops[j].kind \in Parents /\ Active(j) =>
    j > i /\ ~InCharge(j)

\* Children belong to a deployment that has planned; one that is not settled is
\* waited for by a parent in charge, or astray.
ChildOf(i, p) ==
  /\ ops[p].kind = "deploy_stack" /\ ops[p].at \notin {"plan", "plan_destroy"}
  /\ ops[i].req = ops[p].req
  /\ Active(i) => i \in strays \/ (Begun(p) /\ ops[i].member \in Selected(Want(p)))
ChildrenOK ==
  /\ \A i, p \in DOMAIN ops : Brings(ops[i]) /\ ops[i].parent = p => ChildOf(i, p)
  /\ \A i \in DOMAIN ops : ops[i].kind = "deploy" =>
       \/ ops[i].at = "insert" /\ ops[i].app = 0
       \/ ops[i].at = "serve" /\ ops[i].app = i
  /\ \A i \in DOMAIN ops : ops[i].kind \in {"apply", "destroy_app"} =>
       Inserted(ops[i].app) /\ ops[ops[i].app].member = ops[i].member
  /\ strays \subseteq DOMAIN ops

\* A member without an app has no trace of one; one about to be removed is to be
\* deleted; and a new one keeps its image until it serves.
AppsOK ==
  /\ \A m \in Members : ~Exists(m) => apps[m] = NoApp
  /\ \A i \in DOMAIN ops : ops[i].kind = "destroy_app" /\ ops[i].at = "remove" =>
       \A m \in Named(ops[i].app) : apps[m].doomed
  /\ \A i \in DOMAIN ops : ops[i].kind = "deploy" /\ ops[i].at = "serve" /\ Active(i) =>
       \A m \in Named(i) : apps[m].image = Want(i).image \/ Stray(m)

\* A member that is served and whom no child of p is about to change.
Safe(p, m) == Served(p, m) /\ \A c \in Deploying(p, m) : ~Active(c)

Drives(p) == ops[p].kind = "deploy_stack" /\ InCharge(p)
Walking(p) == Leads(p) /\ ops[p].kind = "deploy_stack" /\ ops[p].at = "deploy_apps"
Cleaning(p) == Leads(p) /\ ops[p].kind = "deploy_stack" /\ ops[p].at = "reconcile_removals" /\ walk.asked
Ahead == walk.left \union walk.level

\* What its children did stays done.
Done(p) == \A m \in Members : \A c \in Deploying(p, m) : ops[c].status = "done" => Safe(p, m)

\* Behind the levels ahead everything is safe; in this one what is looked at is
\* waited for, or safe.
Levels(p) ==
  /\ Ahead \subseteq Selected(Want(p))
  /\ \A m \in walk.level : Needs[m] \intersect Ahead = {}
  /\ \A m \in Selected(Want(p)) \ Ahead : Safe(p, m)
  /\ \A m \in walk.level \ walk.todo :
       Deploying(p, m) \subseteq walk.wait /\ (Deploying(p, m) = {} => Safe(p, m))
AllSafe(p) == \A m \in Selected(Want(p)) : Safe(p, m)

Progress ==
  \A p \in DOMAIN ops :
    /\ Drives(p) => Done(p)
    /\ Walking(p) => Levels(p)
    /\ Drives(p) /\ ops[p].at \in {"reconcile_removals", "finalize"} => AllSafe(p)

\* The removals that were asked for are waited for, and then settled.
Asked(p) ==
  \A m \in Undeclared(p) : Stray(m) \/ \E c \in walk.wait : Removes(ops[c], p, apps[m].id)
Cleared(p) ==
  \A m \in Undeclared(p) : Stray(m) \/ \E c \in DOMAIN ops :
    Removes(ops[c], p, apps[m].id) /\ ops[c].status = "cancelled"
Clearing ==
  \A p \in DOMAIN ops :
    /\ Cleaning(p) => Asked(p)
    /\ Drives(p) /\ ops[p].at = "finalize" => Cleared(p)

Desired == Queue /\ ChildrenOK /\ AppsOK /\ Progress /\ Clearing

-----------------------------------------------------------------------------
(* What a step may do to the rows and to the apps *)

\* The row i goes on from one form to another.
Onward(i, old, new) ==
  /\ new.kind = old.kind /\ new.parent = old.parent /\ new.member = old.member
  /\ new.req = old.req
  /\ old.kind # "deploy" => new.app = old.app
  /\ old.kind = "deploy" =>
       (new.at = old.at /\ new.app = old.app) \/ (new.at = "serve" /\ new.app = i)
  /\ old.at = "serve" => new.at = "serve"
  /\ old.at \notin {"plan", "plan_destroy"} => new.at \notin {"plan", "plan_destroy"}
  /\ old.at # "plan" => new.stack = old.stack
  /\ old.status \in Settled => new = old
  /\ old.status = "pending" => new.status # "done"
  /\ old.kind = "deploy_stack" /\ new.status = "done" => new = old \/ old.at = "finalize"
  /\ old.kind = "destroy_stack" /\ new.status = "done" => new = old \/ old.at = "delete_stack_row"

Moved ==
  /\ ops' \in Seq(OpRow) /\ Len(ops) <= Len(ops')
  /\ \A i \in DOMAIN ops : Onward(i, ops[i], ops'[i])
  /\ strays \subseteq strays'

\* A child that is not settled may change its member.
Contested(m) == \E c \in DOMAIN ops : Brings(ops[c]) /\ Active(c) /\ ops[c].member = m

\* What is up may turn unhealthy, and back.
Up == {"running", "unhealthy"}

\* The app runs what it ran.
Still(m) ==
  /\ apps'[m].id = apps[m].id /\ apps'[m].image = apps[m].image
  /\ apps'[m].deployed = apps[m].deployed /\ (apps[m].doomed => apps'[m].doomed)
  /\ apps[m].status \in Up => apps'[m].status \in Up

AppMoves(m) ==
  /\ apps'[m].id = 0 => apps'[m] = NoApp
  /\ apps[m].doomed /\ apps'[m].id # 0 => apps'[m].doomed
  /\ \/ apps'[m].id \in {0, apps[m].id}
     \/ Contested(m) /\ ~Inserted(apps'[m].id)
  /\ apps'[m].id # 0 /\ apps'[m].id = apps[m].id =>
       apps'[m].stack = apps[m].stack \/ \E p \in DOMAIN ops : Walking(p)
  /\ apps'[m].id # 0 /\ apps'[m].id = apps[m].id =>
       \/ apps'[m].image = apps[m].image
       \/ \E c \in DOMAIN ops : ops[c].kind = "apply" /\ Active(c) /\ ops[c].member = m
  /\ Contested(m) \/ Still(m) \/ apps'[m].doomed \/ (apps'[m].id = 0 /\ Destroyed(m)')
AppsMove == \A m \in Members : AppMoves(m)

\* A child that gets done leaves its member where the request wants it, unless a
\* stray one was there.
Finished ==
  \A c \in DOMAIN ops : Brings(ops[c]) /\ ops[c].status # "done" /\ ops'[c].status = "done" =>
    LET m == ops[c].member IN
    \/ Stray(m)
    \/ /\ apps'[m].status = "running"
       /\ apps'[m].deployed = Want(c).image /\ apps'[m].image = Want(c).image

\* New rows wait: parents have yet to plan, a child is of the parent that walks and
\* the only one of its member, and a removal names the member of its app.
NewRows ==
  \A i \in DOMAIN ops' \ DOMAIN ops :
    /\ ops'[i].status = "pending"
    /\ ops'[i].kind \in Parents => ops'[i].at \in {"plan", "plan_destroy"}
    /\ Brings(ops'[i]) =>
         \E p \in DOMAIN ops :
           /\ ops'[i].parent = p /\ Walking(p) /\ Walking(p)'
           /\ ops'[i].req = ops[p].req /\ ops'[i].member \in walk.level
    /\ ops'[i].kind = "deploy" => ops'[i].at = "insert" /\ ops'[i].app = 0
    /\ ops'[i].kind \in {"apply", "destroy_app"} =>
         Inserted(ops'[i].app) /\ ops[ops'[i].app].member = ops'[i].member
    /\ ops'[i].at # "remove"

\* An app that is marked is to be deleted, and an inserted one has the image that
\* its request wants.
Marked ==
  \A i \in DOMAIN ops : \A m \in Members :
    /\ ops[i].kind = "destroy_app" /\ ops[i].at # "remove" /\ ops'[i].at = "remove" =>
         (apps'[m].id = ops[i].app => apps'[m].doomed)
    /\ ops[i].kind = "deploy" /\ ops[i].at # "serve" /\ ops'[i].at = "serve" =>
         (apps'[m].id = i => apps'[m].image = Want(i).image)

\* The children that a parent leaves behind are astray.
Released ==
  /\ strays' \subseteq DOMAIN ops'
  /\ \A p \in DOMAIN ops : ops[p].kind = "deploy_stack" /\ Begun(p) /\ ~Begun(p)' =>
       \A c \in DOMAIN ops : Brings(ops[c]) /\ ops[c].parent = p /\ Active(c)' => c \in strays'

Orderly == Moved /\ AppsMove /\ Finished /\ NewRows /\ Marked /\ Released
Kept == Orderly /\ Desired'

\* No deployment takes charge, goes on or asks for a child that deploys.
Calm ==
  /\ \A p \in DOMAIN ops : InCharge(p)' => InCharge(p)
  /\ \A p \in DOMAIN ops : Drives(p)' => ops'[p].at = ops[p].at
  /\ \A p \in DOMAIN ops : Drives(p)' /\ Leads(p)' => Leads(p) /\ walk' = walk
  /\ \A c \in DOMAIN ops' : Brings(ops'[c]) => c \in DOMAIN ops

-----------------------------------------------------------------------------
(* What stays of a member that is safe *)

\* The table keeps its rows, and each goes on in its own form.
LEMMA MovedTable ==
  ASSUME Inv, Moved
  PROVE  /\ TableKept /\ DOMAIN ops \subseteq DOMAIN ops'
         /\ \A i \in DOMAIN ops :
              /\ ops[i] \in OpRow /\ ops'[i] \in OpRow
              /\ RowKept(i) /\ Onward(i, ops[i], ops'[i])
<1>1. \A i \in DOMAIN ops : ops[i] \in OpRow /\ Onward(i, ops[i], ops'[i])
  BY Facts DEF Moved
<1>2. \A i \in DOMAIN ops : RowKept(i)
  BY <1>1 DEF RowKept, Onward, Settled
<1>3. TableKept
  BY <1>2 DEF TableKept, Moved
<1>4. ops \in Seq(OpRow)
  BY DEF Inv, Types
<1> QED  BY <1>1, <1>2, <1>3, <1>4, TableDomain

\* The parent of a child is a row before it.
LEMMA ParentThere ==
  ASSUME Inv, NEW i \in DOMAIN ops, Brings(ops[i])
  PROVE  ops[i].parent \in DOMAIN ops /\ ops[i].member \in Members
<1>1. /\ ops[i].parent # 0 /\ ops[i].member \in Members /\ ops[i].parent \in Nat
      /\ ops[i].parent < i /\ DOMAIN ops = 1..Len(ops) /\ Len(ops) \in Nat
  BY Facts DEF Inv, Types, Asks, Brings, OpRow
<1> QED  BY <1>1

\* What a parent wants, and which members that selects, stays.
LEMMA WantKept ==
  ASSUME Inv, Moved, NEW p \in DOMAIN ops
  PROVE  Want(p)' = Want(p) /\ Selected(Want(p))' = Selected(Want(p))
<1>1. ops'[p].req = ops[p].req
  BY MovedTable DEF RowKept
<1>2. Want(p)' = Want(p)
  BY <1>1 DEF Want
<1> QED  BY <1>1, <1>2 DEF Selected, Want

\* A stray child stays one, and a removal that was done too.
LEMMA TraceKept ==
  ASSUME Inv, ChildrenOK, Moved, NEW m
  PROVE  (Stray(m) => Stray(m)') /\ (Destroyed(m) => Destroyed(m)')
<1>1. ASSUME Stray(m)
      PROVE  Stray(m)'
  <2>1. PICK c \in strays : ops[c].kind \in {"deploy", "apply"} /\ ops[c].member = m
    BY <1>1 DEF Stray
  <2>2. c \in DOMAIN ops /\ c \in strays'
    BY DEF ChildrenOK, Moved
  <2> QED  BY <2>1, <2>2, MovedTable DEF Stray, RowKept
<1>2. ASSUME Destroyed(m)
      PROVE  Destroyed(m)'
  <2>1. PICK j \in DOMAIN ops : ops[j].kind = "destroy_app" /\ ops[j].member = m /\ ops[j].status = "done"
    BY <1>2 DEF Destroyed
  <2>2. ops'[j] = ops[j]
    BY <2>1, MovedTable DEF Onward, Settled
  <2> QED  BY <2>1, <2>2, MovedTable DEF Destroyed
<1> QED  BY <1>1, <1>2

\* The children that a parent had of a member are the same, and the settled ones
\* as they were.
LEMMA ChildrenSame ==
  ASSUME Inv, Moved, NEW p, NEW m
  PROVE  /\ Deploying(p, m) \subseteq Deploying(p, m)'
         /\ \A c \in Deploying(p, m)' : c \in DOMAIN ops => c \in Deploying(p, m)
         /\ \A c \in DOMAIN ops : ~Active(c) => ops'[c] = ops[c] /\ ~Active(c)'
         /\ \A c \in DOMAIN ops : (c \in Children(p)') <=> (c \in Children(p))
<1>1. \A c \in DOMAIN ops : ~Active(c) => ops'[c] = ops[c]
  <2>1. \A c \in DOMAIN ops : ~Active(c) => ops[c].status \in Settled
    BY Facts DEF Active, OpRow, Status
  <2> QED  BY <2>1, MovedTable DEF Onward
<1> QED  BY <1>1, MovedTable DEF Deploying, Children, Active, RowKept

\* The one parent in charge is the one that waits for a child of its own.
LEMMA OneCharge ==
  ASSUME Inv, Queue, NEW p \in DOMAIN ops, NEW q \in DOMAIN ops, InCharge(p), InCharge(q)
  PROVE  p = q
BY DEF Queue, InCharge, Begun, Leads, Active

\* A safe member stays served: only its own child, a stray one or a removal
\* could take that from it.
LEMMA ServedKept ==
  ASSUME Inv, Queue, ChildrenOK, Moved, AppsMove, NEW p \in DOMAIN ops, InCharge(p),
         NEW m \in Members, Safe(p, m)
  PROVE  Served(p, m)'
<1>1. CASE Contested(m)
  <2>1. PICK c \in DOMAIN ops : Brings(ops[c]) /\ Active(c) /\ ops[c].member = m
    BY <1>1 DEF Contested
  <2>2. CASE c \in strays
    <3>1. Stray(m)
      BY <2>1, <2>2 DEF Stray, Brings
    <3> QED  BY <3>1, TraceKept DEF Served
  <2>3. CASE c \notin strays
    <3>1. ops[c].parent \in DOMAIN ops /\ Begun(ops[c].parent)
      BY <2>1, <2>3, ParentThere DEF ChildrenOK, ChildOf
    <3>2. ops[c].parent = p
      BY <3>1, OneCharge DEF InCharge
    <3>3. c \in Deploying(p, m)
      BY <2>1, <3>2 DEF Deploying, Children, Brings
    <3> QED  BY <2>1, <3>3 DEF Safe
  <2> QED  BY <2>2, <2>3
<1>2. CASE apps'[m].doomed \/ (apps'[m].id = 0 /\ Destroyed(m)')
  BY <1>2 DEF Served, Exists
<1>3. CASE Still(m)
  <2>1. CASE Delivered(m, Want(p))
    <3>1. Delivered(m, Want(p))'
      BY <1>3, <2>1, WantKept DEF Delivered, Still, Up
    <3> QED  BY <3>1 DEF Served
  <2>2. CASE \E c \in Deploying(p, m) : ops[c].status = "cancelled"
    <3>1. PICK c \in Deploying(p, m) : ops[c].status = "cancelled"
      BY <2>2
    <3>2. c \in DOMAIN ops /\ ops'[c] = ops[c]
      BY <3>1, MovedTable DEF Deploying, Children, Onward, Settled
    <3>3. c \in Deploying(p, m)' /\ ops'[c].status = "cancelled"
      BY <3>1, <3>2, ChildrenSame
    <3> QED  BY <3>3 DEF Served
  <2>3. CASE apps[m].doomed
    BY <1>3, <2>3 DEF Served, Still
  <2>4. CASE ~Exists(m) /\ Destroyed(m)
    BY <1>3, <2>4, TraceKept DEF Served, Still, Exists
  <2>5. CASE Stray(m)
    BY <2>5, TraceKept DEF Served
  <2> QED  BY <2>1, <2>2, <2>3, <2>4, <2>5 DEF Safe, Served
<1> QED  BY <1>1, <1>2, <1>3 DEF AppsMove, AppMoves

\* And safe, when its parent asks for no other child.
LEMMA SafeKept ==
  ASSUME Inv, Queue, ChildrenOK, Moved, AppsMove, NEW p \in DOMAIN ops, InCharge(p),
         NEW m \in Members, Safe(p, m), Deploying(p, m)' \subseteq DOMAIN ops
  PROVE  Safe(p, m)'
<1>1. ASSUME NEW c \in Deploying(p, m)'
      PROVE  ~Active(c)'
  <2>1. c \in DOMAIN ops /\ c \in Deploying(p, m)
    BY ChildrenSame
  <2> QED  BY <2>1, ChildrenSame DEF Safe
<1> QED  BY <1>1, ServedKept DEF Safe

-----------------------------------------------------------------------------
(* What every orderly step keeps *)

\* No second parent takes charge.
LEMMA QueueKept ==
  ASSUME Inv, Queue, Moved, NewRows, \A i \in DOMAIN ops : InCharge(i)' => InCharge(i)
  PROVE  Queue'
<1>1. ASSUME NEW i \in DOMAIN ops' \ DOMAIN ops
      PROVE  ~InCharge(i)'
  BY DEF NewRows, InCharge, Leads, Begun
<1>2. ASSUME NEW i \in DOMAIN ops', NEW j \in DOMAIN ops', InCharge(i)', i # j,
             ops'[j].kind \in Parents, Active(j)'
      PROVE  j > i /\ ~InCharge(j)'
  <2>1. i \in DOMAIN ops /\ InCharge(i)
    BY <1>1, <1>2
  <2>2. CASE j \in DOMAIN ops
    <3>1. ops[j].kind \in Parents /\ Active(j)
      BY <1>2, <2>2, MovedTable, ChildrenSame DEF RowKept
    <3> QED  BY <1>2, <2>1, <2>2, <3>1 DEF Queue
  <2>3. CASE j \notin DOMAIN ops
    <3>1. DOMAIN ops = 1..Len(ops) /\ Len(ops) \in Nat /\ DOMAIN ops' = 1..Len(ops') /\ Len(ops') \in Nat
      BY MovedTable, TableDomain DEF Inv, Types
    <3> QED  BY <1>1, <2>1, <2>3, <3>1
  <2> QED  BY <2>2, <2>3
<1> QED  BY <1>2 DEF Queue

\* Who is begun and stays so is not astray.
LEMMA ChildrenKept ==
  ASSUME Inv, Desired, Orderly
  PROVE  ChildrenOK'
<1>0. Moved /\ NewRows /\ Released /\ ChildrenOK /\ Progress
  BY DEF Orderly, Desired
<1>1. ASSUME NEW i \in DOMAIN ops', NEW p \in DOMAIN ops', Brings(ops'[i]), ops'[i].parent = p
      PROVE  ChildOf(i, p)'
  <2>1. CASE i \in DOMAIN ops
    <3>1. Brings(ops[i]) /\ ops[i].parent = p /\ ops'[i].req = ops[i].req /\ ops'[i].member = ops[i].member
      BY <1>0, <1>1, <2>1, MovedTable DEF RowKept, Brings
    <3>2. p \in DOMAIN ops /\ ChildOf(i, p)
      BY <1>0, <2>1, <3>1, ParentThere DEF ChildrenOK
    <3>3. ops'[p].kind = "deploy_stack" /\ ops'[p].at \notin {"plan", "plan_destroy"} /\ ops'[i].req = ops'[p].req
      BY <1>0, <3>1, <3>2, MovedTable DEF RowKept, Onward, ChildOf
    <3>4. ASSUME Active(i)', i \notin strays'
          PROVE  Begun(p)' /\ ops'[i].member \in Selected(Want(p))'
      <4>1. Active(i) /\ i \notin strays
        BY <1>0, <2>1, <3>4, ChildrenSame DEF Moved
      <4>2. Begun(p) /\ ops[i].member \in Selected(Want(p))
        BY <3>2, <4>1 DEF ChildOf
      <4>3. Begun(p)'
        BY <1>0, <2>1, <3>1, <3>2, <3>4, <4>2 DEF Released, ChildOf
      <4>4. Selected(Want(p))' = Selected(Want(p))
        BY <1>0, <3>2, WantKept
      <4> QED  BY <3>1, <4>2, <4>3, <4>4
    <3> QED  BY <3>3, <3>4 DEF ChildOf
  <2>2. CASE i \notin DOMAIN ops
    <3>1. /\ p \in DOMAIN ops /\ Walking(p) /\ Walking(p)'
          /\ ops'[i].req = ops[p].req /\ ops'[i].member \in walk.level
      BY <1>0, <1>1, <2>2 DEF NewRows
    <3>2. ops[p].kind = "deploy_stack" /\ ops[p].at = "deploy_apps" /\ Begun(p)
      BY <3>1 DEF Walking, Begun, Leads, Active
    <3>3. ops'[p].kind = "deploy_stack" /\ ops'[p].at \notin {"plan", "plan_destroy"} /\ ops'[p].req = ops[p].req
      BY <1>0, <3>1, <3>2, MovedTable DEF RowKept, Onward
    <3>4. ops'[i].member \in Selected(Want(p))'
      <4>1. ops'[i].member \in Selected(Want(p))
        BY <1>0, <3>1 DEF Progress, Levels, Ahead
      <4> QED  BY <1>0, <3>1, <4>1, WantKept
    <3>5. Begun(p)'
      BY <3>1 DEF Walking, Begun, Leads, Active
    <3> QED  BY <3>1, <3>3, <3>4, <3>5 DEF ChildOf
  <2> QED  BY <2>1, <2>2
<1>2. ASSUME NEW i \in DOMAIN ops', ops'[i].kind = "deploy"
      PROVE  \/ ops'[i].at = "insert" /\ ops'[i].app = 0
             \/ ops'[i].at = "serve" /\ ops'[i].app = i
  <2>1. CASE i \in DOMAIN ops
    <3>1. ops[i].kind = "deploy" /\ Onward(i, ops[i], ops'[i])
      BY <1>0, <1>2, <2>1, MovedTable DEF RowKept
    <3> QED  BY <1>0, <2>1, <3>1 DEF ChildrenOK, Onward
  <2>2. CASE i \notin DOMAIN ops
    BY <1>0, <1>2, <2>2 DEF NewRows
  <2> QED  BY <2>1, <2>2
<1>3. ASSUME NEW i \in DOMAIN ops', ops'[i].kind \in {"apply", "destroy_app"}
      PROVE  InsertedNext(ops'[i].app) /\ ops'[ops'[i].app].member = ops'[i].member
  <2>1. Inserted(ops'[i].app) /\ ops[ops'[i].app].member = ops'[i].member
    <3>1. CASE i \in DOMAIN ops
      <4>1. ops[i].kind \in {"apply", "destroy_app"} /\ ops'[i].app = ops[i].app
            /\ ops'[i].member = ops[i].member
        BY <1>0, <1>3, <3>1, MovedTable DEF RowKept
      <4> QED  BY <1>0, <3>1, <4>1 DEF ChildrenOK
    <3>2. CASE i \notin DOMAIN ops
      BY <1>0, <1>3, <3>2 DEF NewRows
    <3> QED  BY <3>1, <3>2
  <2>2. TableKept
    BY <1>0, MovedTable
  <2> QED  BY <2>1, <2>2, InsertedKept DEF Inv
<1>4. strays' \subseteq DOMAIN ops'
  BY <1>0 DEF Released
<1> QED  BY <1>1, <1>2, <1>3, <1>4 DEF ChildrenOK, Inserted, InsertedNext

\* Who contests a member is a child of the parent in charge, or astray.
LEMMA WhoContests ==
  ASSUME Inv, Queue, ChildrenOK, NEW p \in DOMAIN ops, InCharge(p),
         NEW m \in Members, ~Stray(m), NEW c \in DOMAIN ops,
         Brings(ops[c]), Active(c), ops[c].member = m
  PROVE  ops[c].parent = p /\ m \in Selected(Want(p))
<1>1. c \notin strays
  BY DEF Stray, Brings
<1>2. ops[c].parent \in DOMAIN ops /\ ChildOf(c, ops[c].parent)
  BY ParentThere DEF ChildrenOK
<1>3. Begun(ops[c].parent)
  BY <1>1, <1>2 DEF ChildOf
<1>4. ops[c].parent = p
  BY <1>2, <1>3, OneCharge DEF InCharge
<1> QED  BY <1>1, <1>2, <1>4 DEF ChildOf

\* The apps keep what the rows say of them.
LEMMA AppsStay ==
  ASSUME Inv, Desired, Orderly
  PROVE  AppsOK'
<1>0. Moved /\ NewRows /\ Marked /\ AppsMove /\ Queue /\ ChildrenOK /\ AppsOK
  BY DEF Orderly, Desired
<1>1. ASSUME NEW m \in Members, apps'[m].id = 0
      PROVE  apps'[m] = NoApp
  BY <1>0, <1>1 DEF AppsMove, AppMoves
<1>2. ASSUME NEW i \in DOMAIN ops', ops'[i].kind = "destroy_app", ops'[i].at = "remove",
             NEW m \in Members, apps'[m].id # 0, apps'[m].id = ops'[i].app
      PROVE  apps'[m].doomed
  <2>1. i \in DOMAIN ops
    BY <1>0, <1>2 DEF NewRows
  <2>2. ops[i].kind = "destroy_app" /\ ops'[i].app = ops[i].app
    BY <1>0, <1>2, <2>1, MovedTable DEF RowKept
  <2>3. CASE ops[i].at = "remove"
    <3>1. Inserted(apps'[m].id)
      BY <1>2, <2>1, <2>2 DEF Inv, Ids
    <3>2. apps'[m].id = apps[m].id /\ Exists(m)
      BY <1>0, <1>2, <3>1 DEF AppsMove, AppMoves, Exists
    <3>3. apps[m].doomed
      BY <1>0, <1>2, <2>1, <2>2, <2>3, <3>2 DEF AppsOK, Named
    <3> QED  BY <1>0, <1>2, <3>3 DEF AppsMove, AppMoves
  <2>4. CASE ops[i].at # "remove"
    BY <1>0, <1>2, <2>1, <2>2, <2>4 DEF Marked
  <2> QED  BY <2>3, <2>4
<1>3. ASSUME NEW i \in DOMAIN ops', ops'[i].kind = "deploy", ops'[i].at = "serve", Active(i)',
             NEW m \in Members, apps'[m].id = i, apps'[m].id # 0
      PROVE  apps'[m].image = Want(i)'.image \/ Stray(m)'
  <2>1. i \in DOMAIN ops
    BY <1>0, <1>3 DEF NewRows
  <2>2. ops[i].kind = "deploy" /\ Active(i) /\ Want(i)' = Want(i)
    BY <1>0, <1>3, <2>1, MovedTable, ChildrenSame, WantKept DEF RowKept
  <2>3. CASE ops[i].at = "serve"
    <3>1. Inserted(i)
      BY <2>1, <2>2, <2>3 DEF Inserted
    <3>2. apps[m].id = i /\ Exists(m)
      BY <1>0, <1>3, <3>1 DEF AppsMove, AppMoves, Exists
    <3>3. CASE Stray(m)
      BY <1>0, <3>3, TraceKept
    <3>4. CASE ~Stray(m)
      <4>1. apps[m].image = Want(i).image
        BY <1>0, <2>1, <2>2, <2>3, <3>2, <3>4 DEF AppsOK, Named
      <4>2. CASE apps'[m].image = apps[m].image
        BY <2>2, <4>1, <4>2
      <4>3. CASE apps'[m].image # apps[m].image
        <5>1. PICK c \in DOMAIN ops : ops[c].kind = "apply" /\ Active(c) /\ ops[c].member = m
          BY <1>0, <1>3, <3>2, <4>3 DEF AppsMove, AppMoves
        <5>2. ops[i].member = m /\ Brings(ops[i]) /\ Brings(ops[c])
          BY <2>2, <3>2, <5>1 DEF Inv, Ids, Brings
        <5>3. PICK p \in DOMAIN ops : p = ops[i].parent
          BY <2>1, <5>2, ParentThere
        <5>4. ChildOf(i, p) /\ i \notin strays
          BY <1>0, <2>1, <3>4, <5>2, <5>3 DEF ChildrenOK, Stray, Brings
        <5>5. InCharge(p)
          BY <2>2, <5>4 DEF ChildOf, InCharge
        <5>6. ops[c].parent = p
          BY <1>0, <3>4, <5>1, <5>2, <5>5, WhoContests
        <5>7. p # 0
          BY Facts
        <5>8. c = i
          BY <2>1, <5>1, <5>2, <5>3, <5>6, <5>7 DEF Inv, Once, SameChild
        <5> QED  BY <2>2, <5>1, <5>8
      <4> QED  BY <4>2, <4>3
    <3> QED  BY <3>3, <3>4
  <2>4. CASE ops[i].at # "serve"
    BY <1>0, <1>3, <2>1, <2>2, <2>4 DEF Marked
  <2> QED  BY <2>3, <2>4
<1> QED  BY <1>1, <1>2, <1>3 DEF AppsOK, Exists, Named

\* What the children of a parent in charge did stays done, and what they do.
LEMMA DoneKept ==
  ASSUME Inv, Inv', Desired, Orderly, NEW p \in DOMAIN ops, ops[p].kind = "deploy_stack",
         InCharge(p) => Done(p), InCharge(p) \/ ops[p].at \in {"plan", "plan_destroy"}
  PROVE  Done(p)'
<1>0. Moved /\ NewRows /\ AppsMove /\ Finished /\ Queue /\ ChildrenOK
  BY DEF Orderly, Desired
<1> SUFFICES ASSUME NEW m \in Members, NEW c \in Deploying(p, m)', ops'[c].status = "done"
             PROVE  Safe(p, m)'
  BY DEF Done
<1>1. c \in DOMAIN ops
  BY <1>0 DEF NewRows, Deploying, Children
<1>2. c \in Deploying(p, m)
  BY <1>0, <1>1, ChildrenSame
<1>3. /\ ops[c].parent = p /\ Brings(ops[c]) /\ ops[c].member = m /\ ChildOf(c, p)
  BY <1>0, <1>1, <1>2 DEF Brings, Deploying, Children, ChildrenOK
<1>4. InCharge(p) /\ Done(p)
  BY <1>3 DEF ChildOf
<1>5. \A d \in Deploying(p, m)' : d = c
  <2>1. p # 0
    BY Facts
  <2> QED  BY <1>3, <2>1 DEF Inv, Once, SameChild, Deploying, Children, Brings
<1>6. CASE ops[c].status = "done"
  <2>1. Safe(p, m)
    BY <1>2, <1>4, <1>6 DEF Done
  <2>2. Deploying(p, m)' \subseteq DOMAIN ops
    BY <1>1, <1>5
  <2> QED  BY <1>0, <1>4, <2>1, <2>2, SafeKept
<1>7. CASE ops[c].status # "done"
  <2>1. Want(c) = Want(p) /\ Want(p)' = Want(p)
    BY <1>0, <1>3, WantKept DEF ChildOf, Want
  <2>2. Served(p, m)'
    <3>1. CASE Stray(m)
      BY <1>0, <3>1, TraceKept DEF Served
    <3>2. CASE ~Stray(m)
      <4>1. Delivered(m, Want(p))'
        BY <1>0, <1>1, <1>2, <1>3, <1>7, <2>1, <3>2 DEF Finished, Delivered
      <4> QED  BY <4>1 DEF Served
    <3> QED  BY <3>1, <3>2
  <2> QED  BY <1>5, <2>2 DEF Safe, Active
<1> QED  BY <1>6, <1>7

\* The members of a level under way stay as they are, when nobody else moves.
LEMMA LevelsKept ==
  ASSUME Inv, Desired, Orderly, NEW p \in DOMAIN ops, Walking(p), walk' = walk,
         \A m \in Members : Deploying(p, m)' \subseteq DOMAIN ops
  PROVE  Levels(p)'
<1>0. Moved /\ AppsMove /\ Queue /\ ChildrenOK /\ Levels(p)
  BY DEF Orderly, Desired, Progress
<1>1. InCharge(p) /\ Selected(Want(p))' = Selected(Want(p)) /\ Selected(Want(p)) \subseteq Members
  BY <1>0, WantKept, Wanted DEF Walking, InCharge, Selected
<1>2. \A m \in Members : Safe(p, m) => Safe(p, m)'
  BY <1>0, <1>1, SafeKept
<1>3. walk.level \subseteq Members
  BY DEF Inv, Types, Place
<1>4. ASSUME NEW m \in Members
      PROVE  Deploying(p, m)' = Deploying(p, m)
  <2>1. Deploying(p, m)' \subseteq DOMAIN ops
    OBVIOUS
  <2>2. /\ Deploying(p, m) \subseteq Deploying(p, m)'
        /\ \A c \in Deploying(p, m)' : c \in DOMAIN ops => c \in Deploying(p, m)
    BY <1>0, ChildrenSame
  <2> QED  BY <2>1, <2>2
<1> QED  BY <1>0, <1>1, <1>2, <1>3, <1>4 DEF Levels, Ahead

\* A new level begins with nothing looked at, behind it what is safe.
LEMMA LevelsBegin ==
  ASSUME Inv, Moved, NEW p \in DOMAIN ops, NEW rest \in SUBSET Selected(Want(p)),
         walk' = AtLevel(rest), \A m \in Selected(Want(p)) \ rest : Safe(p, m)'
  PROVE  Levels(p)'
<1>1. PICK L : L = NextLevel(rest)
  OBVIOUS
<1>2. L \subseteq rest /\ \A m \in L : Needs[m] \intersect rest = {}
  BY <1>1 DEF NextLevel
<1>3. walk'.left = rest \ L /\ walk'.level = L /\ walk'.todo = L
  BY <1>1 DEF AtLevel, Nowhere
<1>4. Selected(Want(p))' = Selected(Want(p))
  BY WantKept
<1>5. Ahead' = rest
  BY <1>2, <1>3 DEF Ahead
<1> QED  BY <1>2, <1>3, <1>4, <1>5 DEF Levels

\* All that is safe stays so.
LEMMA AllSafeKept ==
  ASSUME Inv, Desired, Orderly, NEW p \in DOMAIN ops, Drives(p), AllSafe(p),
         \A m \in Members : Deploying(p, m)' \subseteq DOMAIN ops
  PROVE  AllSafe(p)'
<1>0. Moved /\ AppsMove /\ Queue /\ ChildrenOK
  BY DEF Orderly, Desired
<1>1. InCharge(p) /\ Selected(Want(p))' = Selected(Want(p)) /\ Selected(Want(p)) \subseteq Members
  BY <1>0, WantKept, Wanted DEF Drives, Selected
<1>2. \A m \in Members : Safe(p, m) => Safe(p, m)'
  BY <1>0, <1>1, SafeKept
<1> QED  BY <1>1, <1>2 DEF AllSafe

\* A member that the manifest dropped was dropped before, unless a stray child
\* brings it.
LEMMA UndeclaredBefore ==
  ASSUME Inv, Desired, Orderly, NEW p \in DOMAIN ops, Drives(p),
         ops[p].at \in {"reconcile_removals", "finalize"}, NEW m \in Undeclared(p)'
  PROVE  m \in Members /\ (Stray(m)' \/ (m \in Undeclared(p) /\ apps'[m].id = apps[m].id))
<1>0. Moved /\ AppsMove /\ Queue /\ ChildrenOK /\ InCharge(p)
  BY DEF Orderly, Desired, Drives
<1>1. Want(p)' = Want(p) /\ ops'[p].stack = ops[p].stack
  BY <1>0, WantKept, MovedTable DEF Onward
<1>2. m \in Members /\ apps'[m].id # 0 /\ apps'[m].stack = ops[p].stack /\ m \notin Want(p).apps
      /\ ~Want(p).partial
  BY <1>1 DEF Undeclared, InStack, Exists
<1>3. CASE Stray(m)
  BY <1>0, <1>2, <1>3, TraceKept
<1>4. CASE ~Stray(m)
  <2>1. ~Contested(m)
    BY <1>0, <1>2, <1>4, WhoContests DEF Contested, Selected
  <2>2. apps'[m].id = apps[m].id /\ Exists(m)
    BY <1>0, <1>2, <2>1 DEF AppsMove, AppMoves, Exists
  <2>3. \A q \in DOMAIN ops : ~Walking(q)
    BY <1>0, OneCharge DEF Walking, InCharge
  <2>4. apps'[m].stack = apps[m].stack
    BY <1>0, <1>2, <2>2, <2>3 DEF AppsMove, AppMoves
  <2> QED  BY <1>2, <2>2, <2>4 DEF Undeclared, InStack
<1> QED  BY <1>2, <1>3, <1>4

\* The removals that are waited for stay so.
LEMMA AskedKept ==
  ASSUME Inv, Desired, Orderly, NEW p \in DOMAIN ops, Cleaning(p), walk' = walk
  PROVE  Asked(p)'
<1>0. Moved /\ Asked(p) /\ ChildrenOK /\ TableKept /\ Drives(p) /\ ops[p].at = "reconcile_removals"
  BY MovedTable DEF Orderly, Desired, Clearing, Cleaning, Drives, InCharge
<1> SUFFICES ASSUME NEW m \in Undeclared(p)', ~Stray(m)'
             PROVE  \E c \in walk'.wait : Removes(ops'[c], p, apps'[m].id)
  BY DEF Asked, Removes
<1>1. m \in Undeclared(p) /\ apps'[m].id = apps[m].id /\ m \in Members
  BY <1>0, UndeclaredBefore
<1>2. ~Stray(m)
  BY <1>0, TraceKept
<1>3. PICK c \in walk.wait : Removes(ops[c], p, apps[m].id)
  BY <1>0, <1>1, <1>2 DEF Asked
<1>4. c \in DOMAIN ops
  BY DEF Inv, Types
<1> QED  BY <1>0, <1>1, <1>3, <1>4, RemovesKept DEF Inv

\* And those that were cancelled.
LEMMA ClearedKept ==
  ASSUME Inv, Desired, Orderly, NEW p \in DOMAIN ops, Drives(p), ops[p].at = "finalize"
  PROVE  Cleared(p)'
<1>0. Moved /\ Cleared(p) /\ ChildrenOK /\ TableKept
  BY MovedTable DEF Orderly, Desired, Clearing
<1> SUFFICES ASSUME NEW m \in Undeclared(p)', ~Stray(m)'
             PROVE  \E c \in DOMAIN ops' : Removes(ops'[c], p, apps'[m].id) /\ ops'[c].status = "cancelled"
  BY DEF Cleared, Removes
<1>1. m \in Undeclared(p) /\ apps'[m].id = apps[m].id /\ m \in Members
  BY <1>0, UndeclaredBefore
<1>2. ~Stray(m)
  BY <1>0, TraceKept
<1>3. PICK c \in DOMAIN ops : Removes(ops[c], p, apps[m].id) /\ ops[c].status = "cancelled"
  BY <1>0, <1>1, <1>2 DEF Cleared
<1> QED  BY <1>0, <1>1, <1>3, RemovesKept DEF Inv

\* A calm step keeps what the members of a deployment are promised.
LEMMA CalmKeeps ==
  ASSUME Inv, Inv', Desired, Orderly, Calm
  PROVE  Kept
<1>0. Moved /\ NewRows /\ Queue /\ Progress
  BY DEF Orderly, Desired
<1>1. Queue'
  BY <1>0, QueueKept DEF Calm
<1>2. ChildrenOK' /\ AppsOK'
  BY ChildrenKept, AppsStay
<1>3. ASSUME NEW p \in DOMAIN ops', Drives(p)'
      PROVE  /\ p \in DOMAIN ops /\ Drives(p) /\ ops'[p].at = ops[p].at
             /\ Leads(p)' => Leads(p) /\ walk' = walk
             /\ \A m : Deploying(p, m)' \subseteq DOMAIN ops
  <2>1. p \in DOMAIN ops
    BY <1>0, <1>3 DEF NewRows, Drives, InCharge, Leads, Begun, Parents
  <2>2. Drives(p)
    BY <1>0, <1>3, <2>1, MovedTable DEF Calm, Drives, RowKept
  <2>3. \A m : Deploying(p, m)' \subseteq DOMAIN ops
    BY DEF Calm, Deploying, Children, Brings
  <2> QED  BY <1>3, <2>1, <2>2, <2>3 DEF Calm
<1>4. ASSUME NEW p \in DOMAIN ops', Drives(p)'
      PROVE  Done(p)'
  <2>1. p \in DOMAIN ops /\ Drives(p) /\ Done(p)
    BY <1>0, <1>3, <1>4 DEF Progress
  <2> QED  BY <2>1, DoneKept DEF Drives
<1>5. ASSUME NEW p \in DOMAIN ops', Walking(p)'
      PROVE  Levels(p)'
  <2>1. Drives(p)'
    BY <1>5 DEF Walking, Drives, InCharge
  <2>2. p \in DOMAIN ops /\ Walking(p) /\ walk' = walk /\ \A m : Deploying(p, m)' \subseteq DOMAIN ops
    BY <1>3, <1>5, <2>1 DEF Walking, Drives
  <2> QED  BY <2>2, LevelsKept
<1>6. ASSUME NEW p \in DOMAIN ops', Drives(p)', ops'[p].at \in {"reconcile_removals", "finalize"}
      PROVE  AllSafe(p)'
  <2>1. p \in DOMAIN ops /\ Drives(p) /\ AllSafe(p) /\ \A m : Deploying(p, m)' \subseteq DOMAIN ops
    BY <1>0, <1>3, <1>6 DEF Progress
  <2> QED  BY <2>1, AllSafeKept
<1>7. ASSUME NEW p \in DOMAIN ops', Cleaning(p)'
      PROVE  Asked(p)'
  <2>1. Drives(p)'
    BY <1>7 DEF Cleaning, Drives, InCharge
  <2>2. p \in DOMAIN ops /\ Cleaning(p) /\ walk' = walk
    BY <1>3, <1>7, <2>1 DEF Cleaning, Drives
  <2> QED  BY <2>2, AskedKept
<1>8. ASSUME NEW p \in DOMAIN ops', Drives(p)', ops'[p].at = "finalize"
      PROVE  Cleared(p)'
  BY <1>3, <1>8, ClearedKept
<1> QED  BY <1>1, <1>2, <1>4, <1>5, <1>6, <1>7, <1>8 DEF Desired, Progress, Clearing, Kept

-----------------------------------------------------------------------------
(* The apps of the members *)

\* An app that nobody writes to.
LEMMA UntouchedApp ==
  ASSUME Inv, AppsOK, NEW m \in Members, apps'[m] = apps[m]
  PROVE  AppMoves(m)
BY DEF AppMoves, Still, AppsOK, Exists

\* A step that writes to the app of one member.
LEMMA OneApp ==
  ASSUME Inv, AppsOK, NEW m \in Members, AppMoves(m), NEW app, apps' = [apps EXCEPT ![m] = app]
  PROVE  AppsMove
<1>1. \A n \in Members \ {m} : apps'[n] = apps[n]
  BY Facts
<1>2. \A n \in Members \ {m} : AppMoves(n)
  BY <1>1, UntouchedApp
<1> QED  BY <1>2 DEF AppsMove

\* A child brings its member, which has the app that the child names.
LEMMA BroughtApp ==
  ASSUME Inv, ChildrenOK, NEW i \in DOMAIN ops, Brings(ops[i]),
         ops[i].kind = "deploy" => ops[i].at # "insert"
  PROVE  /\ ops[i].member \in Members
         /\ Active(i) => Contested(ops[i].member)
         /\ There(i) => Exists(ops[i].member) /\ Named(ops[i].app) = {ops[i].member}
         /\ Inserted(ops[i].app) /\ ops[ops[i].app].member = ops[i].member
<1>1. ops[i].member \in Members
  BY ParentThere
<1>2. Inserted(ops[i].app) /\ ops[ops[i].app].member = ops[i].member
  BY DEF ChildrenOK, Brings, Inserted
<1>3. \A n \in Named(ops[i].app) : n = ops[i].member
  BY <1>2 DEF Named, Inv, Ids, Exists
<1>4. There(i) => Exists(ops[i].member) /\ Named(ops[i].app) = {ops[i].member}
  BY <1>3 DEF There, Named, Exists
<1>5. Active(i) => Contested(ops[i].member)
  BY DEF Contested
<1> QED  BY <1>1, <1>2, <1>4, <1>5

\* A removal names the app of its member.
LEMMA RemovedApp ==
  ASSUME Inv, ChildrenOK, NEW i \in DOMAIN ops, ops[i].kind = "destroy_app", NEW m \in Named(ops[i].app)
  PROVE  m = ops[i].member /\ apps[m].id = ops[i].app
BY DEF ChildrenOK, Named, Inv, Ids, Exists

-----------------------------------------------------------------------------
(* The rows of the table *)

\* A row that ends.
LEMMA EndedOnward ==
  ASSUME Inv, NEW i \in DOMAIN ops, Active(i), NEW s \in Status, ops[i].status = "pending" => s # "done",
         ops[i].kind = "deploy_stack" /\ s = "done" => ops[i].at = "finalize",
         ops[i].kind = "destroy_stack" /\ s = "done" => ops[i].at = "delete_stack_row"
  PROVE  /\ Ended(i, s) \in OpRow /\ Onward(i, ops[i], Ended(i, s))
         /\ Ended(i, s).status = s /\ Ended(i, s).at = ops[i].at /\ Ended(i, s).kind = ops[i].kind
<1>1. ops[i] \in OpRow /\ ops[i].status \notin Settled
  BY Facts DEF Active, Settled
<1>2. Ended(i, s) = [ops[i] EXCEPT !.status = s]
  BY DEF Ended
<1> QED  BY <1>1, <1>2, EndedRow DEF OpRow, Onward

\* A row that fails or is cancelled.
LEMMA RolledOnward ==
  ASSUME Inv, NEW i \in DOMAIN ops, ops[i].status = "running"
  PROVE  /\ Rolled(i) \in OpRow /\ Onward(i, ops[i], Rolled(i))
         /\ Rolled(i).status \in {"failed", "cancelled"} /\ Rolled(i).at = ops[i].at
         /\ Rolled(i).kind = ops[i].kind
<1>1. PICK s \in {"failed", "cancelled"} : Rolled(i) = Ended(i, s)
  BY DEF Rolled
<1>2. s \in Status
  BY DEF Status, Settled
<1> QED  BY <1>1, <1>2, EndedOnward DEF Active

\* A row that comes to its next step.
LEMMA AtOnward ==
  ASSUME Inv, NEW i \in DOMAIN ops, ops[i].status = "running", ops[i].kind # "deploy",
         ops[i].at # "serve", NEW s \in Steps, s \notin {"plan", "plan_destroy"}
  PROVE  /\ At(i, s) \in OpRow /\ Onward(i, ops[i], At(i, s))
         /\ At(i, s).status = "running" /\ At(i, s).at = s /\ At(i, s).kind = ops[i].kind
<1>1. ops[i] \in OpRow
  BY Facts
<1>2. At(i, s) = [ops[i] EXCEPT !.at = s]
  BY DEF At
<1> QED  BY <1>1, <1>2, AtRow DEF OpRow, Onward, Settled

\* The table after a write to one row.
LEMMA EditMoves ==
  ASSUME Inv, NEW i \in DOMAIN ops, NEW row \in OpRow, With(i, row), Onward(i, ops[i], row),
         strays \subseteq strays'
  PROVE  /\ Moved /\ NewRows /\ DOMAIN ops' = DOMAIN ops
         /\ \A j \in DOMAIN ops : ops'[j] = IF j = i THEN row ELSE ops[j]
<1>1. /\ ops' \in Seq(OpRow) /\ Len(ops') = Len(ops) /\ DOMAIN ops' = DOMAIN ops
      /\ \A j \in DOMAIN ops : ops'[j] = IF j = i THEN row ELSE ops[j]
  BY WithTable
<1>2. Len(ops) \in Nat
  BY Facts
<1>3. \A j \in DOMAIN ops : Onward(j, ops[j], ops'[j])
  BY <1>1 DEF Onward
<1> QED  BY <1>1, <1>2, <1>3 DEF Moved, NewRows

\* A row that is no parent's moves on.
LEMMA ChildCalm ==
  ASSUME Inv, Inv', Desired, NEW i \in DOMAIN ops, ops[i].kind \notin Parents, NEW row \in OpRow,
         With(i, row), Onward(i, ops[i], row), strays' = strays, walk' = walk, AppsMove,
         Brings(ops[i]) /\ ops[i].status # "done" /\ row.status = "done" =>
           \/ Stray(ops[i].member)
           \/ /\ apps'[ops[i].member].status = "running"
              /\ apps'[ops[i].member].deployed = Want(i).image
              /\ apps'[ops[i].member].image = Want(i).image,
         \A m \in Members :
           /\ ops[i].kind = "destroy_app" /\ ops[i].at # "remove" /\ row.at = "remove" =>
                (apps'[m].id = ops[i].app => apps'[m].doomed)
           /\ ops[i].kind = "deploy" /\ ops[i].at # "serve" /\ row.at = "serve" =>
                (apps'[m].id = i => apps'[m].image = Want(i).image)
  PROVE  Kept
<1>1. /\ Moved /\ NewRows /\ DOMAIN ops' = DOMAIN ops
      /\ \A j \in DOMAIN ops : ops'[j] = IF j = i THEN row ELSE ops[j]
  BY EditMoves
<1>2. Finished
  BY <1>1 DEF Finished
<1>3. Marked
  BY <1>1 DEF Marked
<1>4. \A j \in DOMAIN ops : ops[j].kind \in Parents => ops'[j] = ops[j]
  BY <1>1
<1>5. Released
  <2>1. strays' \subseteq DOMAIN ops'
    BY <1>1 DEF Desired, ChildrenOK
  <2>2. \A p \in DOMAIN ops : Begun(p) => Begun(p)'
    BY <1>4 DEF Begun, Active
  <2> QED  BY <2>1, <2>2 DEF Released
<1>6. row.kind = ops[i].kind
  BY DEF Onward
<1>7. \A j \in DOMAIN ops : ops'[j].kind \in Parents => ops'[j] = ops[j]
  BY <1>1, <1>6
<1>8. Calm
  <2>1. \A p \in DOMAIN ops : InCharge(p)' => InCharge(p)
    BY <1>7 DEF InCharge, Leads, Begun, Active
  <2>2. \A p \in DOMAIN ops : Drives(p)' => ops'[p].at = ops[p].at
    BY <1>7 DEF Drives, Parents
  <2>3. \A p \in DOMAIN ops : Leads(p)' => Leads(p)
    BY <1>7 DEF Leads
  <2> QED  BY <1>1, <2>1, <2>2, <2>3 DEF Calm
<1> QED  BY <1>1, <1>2, <1>3, <1>5, <1>8, CalmKeeps DEF Orderly

\* A child that fails or is cancelled has only its member's app to change.
LEMMA RolledCalm ==
  ASSUME Inv, Inv', Desired, NEW i \in DOMAIN ops, ops[i].status = "running", ops[i].kind \notin Parents,
         With(i, Rolled(i)), strays' = strays, walk' = walk, AppsMove
  PROVE  Kept
<1>1. PICK row \in OpRow : row = Rolled(i)
  BY RolledOnward
<1>2. Onward(i, ops[i], row) /\ row.status # "done" /\ row.at = ops[i].at
  BY <1>1, RolledOnward
<1> QED  BY <1>1, <1>2, ChildCalm

-----------------------------------------------------------------------------
(* The steps of the children *)

\* A new app has the image its request wants.
LEMMA InsertAppCalm ==
  ASSUME Inv, Inv', Desired, NEW i \in DOMAIN ops, InsertApp(i)
  PROVE  Kept
<1>1. PICK m \in Members : m = ops[i].member
  BY ParentThere DEF InsertApp, IsRunning, Runs, Brings
<1>2. /\ ops[i].kind = "deploy" /\ ops[i].at = "insert" /\ ops[i].status = "running" /\ ~Exists(m)
      /\ strays' = strays /\ walk' = walk
  BY <1>1 DEF InsertApp, IsRunning, Runs, bounds
<1>3. PICK row : row = [At(i, "serve") EXCEPT !.app = i]
  OBVIOUS
<1>4. With(i, row)
  BY <1>3 DEF InsertApp
<1>5. row \in OpRow /\ Onward(i, ops[i], row) /\ row.status = "running" /\ row.at = "serve"
  <2>1. ops[i] \in OpRow /\ i \in Nat
    BY Facts
  <2>2. row = [[ops[i] EXCEPT !.at = "serve"] EXCEPT !.app = i]
    BY <1>3 DEF At
  <2>3. "serve" \in Steps
    BY DEF Steps
  <2>4. row \in OpRow /\ row.status = "running" /\ row.at = "serve"
    BY <1>2, <2>1, <2>2, <2>3 DEF OpRow
  <2>5. row.kind = ops[i].kind /\ row.parent = ops[i].parent /\ row.member = ops[i].member
        /\ row.req = ops[i].req /\ row.app = i /\ row.stack = ops[i].stack
    BY <2>1, <2>2 DEF OpRow
  <2> QED  BY <1>2, <2>4, <2>5 DEF Onward, Settled
<1>6. PICK app : app = [NoApp EXCEPT !.id = i, !.stack = ops[i].stack, !.image = Want(i).image,
                                     !.status = "deploying"]
  OBVIOUS
<1>7. apps' = [apps EXCEPT ![m] = app]
  BY <1>1, <1>6 DEF InsertApp
<1>8. apps'[m] = app /\ app.id = i /\ app.image = Want(i).image
  BY <1>6, <1>7, Facts DEF NoApp
<1>9. AppMoves(m)
  <2>1. Contested(m)
    BY <1>1, <1>2 DEF Contested, Brings, Active
  <2>2. ~Inserted(i) /\ i # 0
    BY <1>2, Facts DEF Inserted
  <2>3. apps[m].id = 0 /\ ~apps[m].doomed
    BY <1>2 DEF Desired, AppsOK, NoApp, Exists
  <2> QED  BY <1>8, <2>1, <2>2, <2>3 DEF AppMoves
<1>10. AppsMove
  BY <1>7, <1>9, OneApp DEF Desired
<1>11. \A n \in Members : apps'[n].id = i => apps'[n].image = Want(i).image
  <2>1. ASSUME NEW n \in Members, n # m
        PROVE  apps'[n].id # i
    <3>1. apps'[n] = apps[n] /\ i # 0
      BY <1>7, <2>1, Facts
    <3>2. ~Inserted(i)
      BY <1>2 DEF Inserted
    <3> QED  BY <3>1, <3>2 DEF Inv, Ids, Exists
  <2> QED  BY <1>8, <2>1
<1> QED  BY <1>2, <1>4, <1>5, <1>10, <1>11, ChildCalm DEF Parents, Brings

\* A write to the app of a child that leaves its id, its stack and the mark.
LEMMA BroughtMove ==
  ASSUME Inv, Desired, NEW i \in DOMAIN ops, Brings(ops[i]), Active(i), There(i),
         ops[i].kind = "deploy" => ops[i].at # "insert", NEW m \in Members, m = ops[i].member,
         NEW app, apps' = [apps EXCEPT ![m] = app],
         app.id = apps[m].id, app.stack = apps[m].stack, app.doomed = apps[m].doomed,
         app.image = apps[m].image \/ ops[i].kind = "apply"
  PROVE  AppsMove /\ apps'[m] = app
<1>1. m \in Members /\ Contested(m) /\ Exists(m)
  BY BroughtApp DEF Desired
<1>2. apps'[m] = app
  BY <1>1, Facts
<1>3. AppMoves(m)
  BY <1>1, <1>2 DEF AppMoves, Exists
<1>4. AppsOK
  BY DEF Desired
<1> QED  BY <1>1, <1>2, <1>3, <1>4, OneApp

\* A child that gets done leaves its member at the image its request wants.
LEMMA ServedCalm ==
  ASSUME Inv, Inv', Desired, NEW i \in DOMAIN ops, ServeApp(i) \/ Redeployed(i)
  PROVE  Kept
<1>1. PICK m \in Members : m = ops[i].member
  BY ParentThere DEF ServeApp, Redeployed, IsRunning, Runs, Brings
<1>2. /\ Brings(ops[i]) /\ ops[i].at = "serve" /\ ops[i].status = "running" /\ There(i)
      /\ ops[i].kind \notin Parents /\ ops[i].kind # "destroy_app" /\ Active(i)
      /\ strays' = strays /\ walk' = walk /\ With(i, Ended(i, "done"))
  BY DEF ServeApp, Redeployed, IsRunning, Runs, bounds, Brings, Parents, Active
<1>3. apps[m] \in AppRow /\ Exists(m) /\ apps[m].id = ops[i].app
  BY <1>1, <1>2, Facts, BroughtApp DEF Desired, Named
<1>4. PICK app : /\ apps' = [apps EXCEPT ![m] = app] /\ app.id = apps[m].id /\ app.stack = apps[m].stack
                 /\ app.doomed = apps[m].doomed /\ app.status = "running"
                 /\ app.deployed = Want(i).image
                 /\ \/ ops[i].kind = "deploy" /\ app.image = apps[m].image
                    \/ ops[i].kind = "apply" /\ app.image = Want(i).image
  <2>1. CASE ServeApp(i)
    <3>1. PICK app : app = [apps[m] EXCEPT !.status = "running", !.deployed = Want(i).image]
      OBVIOUS
    <3>2. apps' = [apps EXCEPT ![m] = app]
      BY <1>1, <2>1, <3>1, Facts DEF ServeApp
    <3>3. /\ app.id = apps[m].id /\ app.stack = apps[m].stack /\ app.doomed = apps[m].doomed
          /\ app.status = "running" /\ app.deployed = Want(i).image /\ app.image = apps[m].image
      BY <1>3, <3>1 DEF AppRow
    <3>4. ops[i].kind = "deploy"
      BY <2>1 DEF ServeApp, IsRunning, Runs
    <3> QED  BY <3>2, <3>3, <3>4
  <2>2. CASE Redeployed(i)
    <3>1. PICK app : app = [apps[m] EXCEPT !.image = Want(i).image, !.deployed = Want(i).image,
                                           !.status = "running"]
      OBVIOUS
    <3>2. apps' = [apps EXCEPT ![m] = app]
      BY <1>1, <2>2, <3>1, Facts DEF Redeployed
    <3>3. /\ app.id = apps[m].id /\ app.stack = apps[m].stack /\ app.doomed = apps[m].doomed
          /\ app.status = "running" /\ app.deployed = Want(i).image /\ app.image = Want(i).image
      BY <1>3, <3>1 DEF AppRow
    <3>4. ops[i].kind = "apply"
      BY <2>2 DEF Redeployed, IsRunning, Runs
    <3> QED  BY <3>2, <3>3, <3>4
  <2> QED  BY <2>1, <2>2
<1>5. AppsMove /\ apps'[m] = app
  <2>1. Contested(m)
    BY <1>1, <1>2 DEF Contested
  <2>2. apps' = [apps EXCEPT ![m] = app]
    BY <1>4
  <2>3. apps'[m] = app
    BY <2>2, Facts
  <2>4. app.id = apps[m].id /\ app.stack = apps[m].stack /\ app.doomed = apps[m].doomed /\ apps[m].id # 0
    BY <1>3, <1>4 DEF Exists
  <2>5. app.image = apps[m].image \/ ops[i].kind = "apply"
    BY <1>4
  <2>6. AppMoves(m)
    BY <1>1, <1>2, <2>1, <2>3, <2>4, <2>5 DEF AppMoves
  <2> QED  BY <2>2, <2>3, <2>6, OneApp DEF Desired
<1>6. Stray(m) \/ app.image = Want(i).image
  <2>1. CASE ops[i].kind = "deploy"
    <3>1. ops[i].app = i
      BY <1>2, <2>1 DEF Desired, ChildrenOK
    <3>2. m \in Named(i)
      BY <1>3, <3>1 DEF Named
    <3> QED  BY <1>2, <1>4, <2>1, <3>2 DEF Desired, AppsOK
  <2>2. CASE ops[i].kind # "deploy"
    BY <1>4, <2>2
  <2> QED  BY <2>1, <2>2
<1>7. PICK row \in OpRow : row = Ended(i, "done") /\ Onward(i, ops[i], row) /\ row.at = ops[i].at
  BY <1>2, EndedOnward DEF Status, Settled, Brings
<1> QED  BY <1>1, <1>2, <1>4, <1>5, <1>6, <1>7, ChildCalm

\* A deployment that gives up takes at most the app it inserted.
LEMMA GiveUpCalm ==
  ASSUME Inv, Inv', Desired, NEW i \in DOMAIN ops, ops[i].kind = "deploy", ops[i].status = "running",
         GiveUp(i), strays' = strays
  PROVE  Kept
<1>1. AppsMove
  <2>1. ASSUME NEW m \in Members
        PROVE  AppMoves(m)
    <3>1. AppsOK
      BY DEF Desired
    <3>2. CASE apps'[m] = apps[m]
      BY <3>1, <3>2, UntouchedApp
    <3>3. CASE apps'[m] # apps[m]
      <4>1. m \in Named(ops[i].app) /\ apps'[m] = NoApp
        BY <3>3 DEF GiveUp
      <4>2. ops[i].at # "insert"
        BY <4>1 DEF Desired, ChildrenOK, Named, Exists
      <4>3. Contested(m)
        BY <4>1, <4>2, BroughtApp DEF Desired, Brings, Active, There
      <4> QED  BY <4>1, <4>3 DEF AppMoves, NoApp
    <3> QED  BY <3>2, <3>3
  <2> QED  BY <2>1 DEF AppsMove
<1> QED  BY <1>1, RolledCalm DEF GiveUp, Parents

\* The ways in which a first deployment gives up.
LEMMA DeployEndsCalm ==
  ASSUME Inv, Inv', Desired, NEW i \in DOMAIN ops,
         NameTaken(i) \/ AppGone(i) \/ CancelDeploy(i) \/ DeployFails(i)
  PROVE  Kept
<1>1. ops[i].kind = "deploy" /\ ops[i].status = "running" /\ GiveUp(i) /\ strays' = strays
  BY DEF NameTaken, AppGone, CancelDeploy, DeployFails, IsRunning, Runs, bounds
<1> QED  BY <1>1, GiveUpCalm

\* A redeployment takes its member out of service.
LEMMA StartRedeployCalm ==
  ASSUME Inv, Inv', Desired, NEW i \in DOMAIN ops, StartRedeploy(i)
  PROVE  Kept
<1>1. PICK m \in Members : m = ops[i].member
  BY ParentThere DEF StartRedeploy, IsRunning, Runs, Brings
<1>2. /\ ops[i].kind = "apply" /\ ops[i].at = "redeploy" /\ ops[i].status = "running" /\ There(i)
      /\ strays' = strays /\ walk' = walk /\ With(i, At(i, "serve"))
  BY DEF StartRedeploy, IsRunning, Runs, bounds
<1>3. PICK app : app = [apps[m] EXCEPT !.status = "deploying"]
  OBVIOUS
<1>4. apps' = [apps EXCEPT ![m] = app]
  BY <1>1, <1>3, Facts DEF StartRedeploy
<1>5. app.id = apps[m].id /\ app.stack = apps[m].stack /\ app.doomed = apps[m].doomed
  BY <1>3, Facts DEF AppRow
<1>6. AppsMove
  BY <1>1, <1>2, <1>4, <1>5, BroughtMove DEF Brings, Active
<1>7. PICK row \in OpRow : row = At(i, "serve") /\ Onward(i, ops[i], row) /\ row.status = "running"
  BY <1>2, AtOnward DEF Steps
<1> QED  BY <1>2, <1>6, <1>7, ChildCalm DEF Parents

\* And may leave it out of service when it fails.
LEMMA UnrollCalm ==
  ASSUME Inv, Inv', Desired, NEW i \in DOMAIN ops,
         NoSuchApp(i) \/ CancelApply(i) \/ ApplyFails(i)
  PROVE  Kept
<1>1. PICK m \in Members : m = ops[i].member
  BY ParentThere DEF NoSuchApp, CancelApply, ApplyFails, Runs, Brings
<1>2. /\ ops[i].kind = "apply" /\ ops[i].status = "running" /\ Unroll(i) /\ strays' = strays
  BY DEF NoSuchApp, CancelApply, ApplyFails, Runs, bounds
<1>3. AppsMove
  <2>1. CASE apps' = apps
    BY <2>1, UntouchedApp DEF AppsMove, Desired
  <2>2. CASE apps' # apps
    <3>1. There(i)
      BY <1>2, <2>2 DEF Unroll
    <3>2. PICK image \in {apps[m].image, Want(i).image}, status \in {"running", "unhealthy"} :
             apps' = [apps EXCEPT ![m].image = image,
                                  ![m].status = IF Adopted(i) THEN "deploying" ELSE status]
      BY <1>1, <1>2, <2>2 DEF Unroll
    <3>3. PICK app : app = [apps[m] EXCEPT !.image = image,
                                           !.status = IF Adopted(i) THEN "deploying" ELSE status]
      OBVIOUS
    <3>4. apps' = [apps EXCEPT ![m] = app]
      BY <3>2, <3>3, Facts
    <3>5. app.id = apps[m].id /\ app.stack = apps[m].stack /\ app.doomed = apps[m].doomed
      BY <3>3, Facts DEF AppRow
    <3> QED  BY <1>1, <1>2, <3>1, <3>4, <3>5, BroughtMove DEF Brings, Active
  <2> QED  BY <2>1, <2>2
<1> QED  BY <1>2, <1>3, RolledCalm DEF Unroll, Parents

\* A removal marks the app it removes.
LEMMA MarkDeletingCalm ==
  ASSUME Inv, Inv', Desired, NEW i \in DOMAIN ops, MarkDeleting(i)
  PROVE  Kept
<1>1. /\ ops[i].kind = "destroy_app" /\ ops[i].at = "mark" /\ ops[i].status = "running"
      /\ strays' = strays /\ walk' = walk /\ With(i, At(i, "remove"))
      /\ apps' = [m \in Members |-> IF m \in Named(ops[i].app)
                    THEN [apps[m] EXCEPT !.doomed = TRUE, !.status = "destroying"] ELSE apps[m]]
  BY DEF MarkDeleting, IsRunning, Runs, bounds
<1>2. ASSUME NEW m \in Members
      PROVE  AppMoves(m) /\ (apps'[m].id = ops[i].app => apps'[m].doomed)
  <2>1. CASE m \in Named(ops[i].app)
    <3>1. PICK app : app = [apps[m] EXCEPT !.doomed = TRUE, !.status = "destroying"]
      OBVIOUS
    <3>2. apps'[m] = app
      BY <1>1, <2>1, <3>1
    <3>3. app.doomed /\ app.id = apps[m].id /\ app.stack = apps[m].stack /\ app.image = apps[m].image
      BY <3>1, Facts DEF AppRow
    <3>4. apps[m].id # 0
      BY <2>1 DEF Named, Exists
    <3> QED  BY <3>2, <3>3, <3>4 DEF AppMoves
  <2>2. CASE m \notin Named(ops[i].app)
    <3>1. apps'[m] = apps[m]
      BY <1>1, <2>2
    <3>2. ops[i].app # 0
      <4>1. ops[i].app \in DOMAIN ops
        BY <1>1 DEF Inv, Ids, Inserted
      <4> QED  BY <4>1, Facts
    <3> QED  BY <2>2, <3>1, <3>2, UntouchedApp DEF Named, Exists, Desired
  <2> QED  BY <2>1, <2>2
<1>3. AppsMove
  BY <1>2 DEF AppsMove
<1>4. PICK row \in OpRow : row = At(i, "remove") /\ Onward(i, ops[i], row) /\ row.status = "running"
  BY <1>1, AtOnward DEF Steps
<1> QED  BY <1>1, <1>2, <1>3, <1>4, ChildCalm DEF Parents, Brings

\* And is done once the app is gone.
LEMMA RemoveAppCalm ==
  ASSUME Inv, Inv', Desired, NEW i \in DOMAIN ops, RemoveApp(i)
  PROVE  Kept
<1>1. /\ ops[i].kind = "destroy_app" /\ ops[i].at = "remove" /\ ops[i].status = "running"
      /\ strays' = strays /\ walk' = walk /\ With(i, Ended(i, "done"))
      /\ apps' = [m \in Members |-> IF m \in Named(ops[i].app) THEN NoApp ELSE apps[m]]
  BY DEF RemoveApp, IsRunning, Runs, bounds
<1>2. PICK row \in OpRow : row = Ended(i, "done") /\ Onward(i, ops[i], row) /\ row.status = "done"
  BY <1>1, EndedOnward DEF Status, Settled, Active
<1>3. ASSUME NEW m \in Members
      PROVE  AppMoves(m)
  <2>1. CASE m \in Named(ops[i].app)
    <3>1. apps'[m] = NoApp
      BY <1>1, <2>1
    <3>2. m = ops[i].member
      BY <1>1, <2>1, RemovedApp DEF Desired
    <3>3. Destroyed(m)'
      <4>1. i \in DOMAIN ops' /\ ops'[i] = row
        BY <1>1, <1>2, WithTable
      <4> QED  BY <1>1, <1>2, <3>2, <4>1 DEF Destroyed, Onward
    <3> QED  BY <3>1, <3>3 DEF AppMoves, NoApp
  <2>2. CASE m \notin Named(ops[i].app)
    BY <1>1, <2>2, UntouchedApp DEF Desired
  <2> QED  BY <2>1, <2>2
<1>4. AppsMove
  BY <1>3 DEF AppsMove
<1> QED  BY <1>1, <1>2, <1>4, ChildCalm DEF Parents, Brings

\* One that fails leaves an app that is marked.
LEMMA CleanupFailsCalm ==
  ASSUME Inv, Inv', Desired, NEW i \in DOMAIN ops, CleanupFails(i)
  PROVE  Kept
<1>1. /\ ops[i].kind = "destroy_app" /\ ops[i].at = "remove" /\ ops[i].status = "running"
      /\ strays' = strays /\ walk' = walk /\ With(i, Rolled(i))
      /\ apps' = [m \in Members |-> IF m \in Named(ops[i].app)
                    THEN [apps[m] EXCEPT !.status = "cleanup_failed"] ELSE apps[m]]
  BY DEF CleanupFails, IsRunning, Runs
<1>2. ASSUME NEW m \in Members
      PROVE  AppMoves(m)
  <2>1. CASE m \in Named(ops[i].app)
    <3>1. PICK app : app = [apps[m] EXCEPT !.status = "cleanup_failed"]
      OBVIOUS
    <3>2. apps'[m] = app
      BY <1>1, <2>1, <3>1
    <3>3. /\ app.doomed = apps[m].doomed /\ app.id = apps[m].id /\ app.stack = apps[m].stack
          /\ app.image = apps[m].image
      BY <3>1, Facts DEF AppRow
    <3>4. apps[m].id # 0 /\ apps[m].doomed
      BY <1>1, <2>1 DEF Named, Exists, Desired, AppsOK
    <3> QED  BY <3>2, <3>3, <3>4 DEF AppMoves
  <2>2. CASE m \notin Named(ops[i].app)
    BY <1>1, <2>2, UntouchedApp DEF Desired
  <2> QED  BY <2>1, <2>2
<1>3. AppsMove
  BY <1>2 DEF AppsMove
<1> QED  BY <1>1, <1>3, RolledCalm DEF Parents

\* No write to an app.
LEMMA AppsRest ==
  ASSUME Inv, Desired, apps' = apps
  PROVE  AppsMove
BY UntouchedApp DEF AppsMove, Desired

\* A removal that is cancelled, and a member operation.
LEMMA PlainCalm ==
  ASSUME Inv, Inv', Desired, NEW i \in DOMAIN ops, CancelDestroy(i) \/ RestartMember(i)
  PROVE  Kept
<1>1. /\ ops[i].kind \in {"destroy_app", "restart_app"} /\ ops[i].status = "running"
      /\ strays' = strays /\ walk' = walk /\ apps' = apps
  BY DEF CancelDestroy, RestartMember, Runs, bounds
<1>2. PICK s \in {"cancelled", "done"} : With(i, Ended(i, s))
  BY DEF CancelDestroy, RestartMember
<1>3. PICK row \in OpRow : row = Ended(i, s) /\ Onward(i, ops[i], row) /\ row.at = ops[i].at
  BY <1>1, EndedOnward DEF Status, Settled, Active
<1> QED  BY <1>1, <1>2, <1>3, AppsRest, ChildCalm DEF Parents, Brings

\* Every step of a child or of a member operation.
LEMMA ChildStepCalm ==
  ASSUME Inv, Inv', Desired, NEW i \in DOMAIN ops, ChildStep(i) \/ ChildFails(i)
  PROVE  Kept
BY InsertAppCalm, ServedCalm, DeployEndsCalm, StartRedeployCalm, UnrollCalm, MarkDeletingCalm,
   RemoveAppCalm, CleanupFailsCalm, PlainCalm DEF ChildStep, ChildFails

\* The start of one, or its end before it began.
LEMMA StartChildCalm ==
  ASSUME Inv, Inv', Desired, NEW i \in DOMAIN ops, ops[i].kind \notin Parents, Start(i)
  PROVE  Kept
<1>1. ops[i].status = "pending" /\ strays' = strays /\ apps' = apps
  BY DEF Start, MayStart, bounds
<1>2. walk' = walk
  BY DEF Start, Parents
<1>3. PICK s \in {"cancelled", "running"} : With(i, Ended(i, s))
  BY DEF Start
<1>4. PICK row \in OpRow : /\ row = Ended(i, s) /\ Onward(i, ops[i], row) /\ row.at = ops[i].at
                           /\ row.status # "done"
  BY <1>1, <1>3, EndedOnward DEF Status, Settled, Active
<1> QED  BY <1>1, <1>2, <1>3, <1>4, AppsRest, ChildCalm

-----------------------------------------------------------------------------
(* Steps that ask for no deployment *)

\* Rows may end, lose their turn or be asked to stop, and a destruction goes on;
\* the apps stay as they are.
Quiet ==
  /\ \A j \in DOMAIN ops :
       /\ ops'[j].at = ops[j].at \/ (Leads(j) /\ ops[j].kind = "destroy_stack")
       /\ ops'[j].status = "running" => ops[j].status = "running"
       /\ Brings(ops[j]) /\ ops'[j].status = "done" => ops[j].status = "done"
  /\ \A j \in DOMAIN ops' \ DOMAIN ops : ~Brings(ops'[j])
  /\ walk' = walk \/ \A p \in DOMAIN ops : ~(Drives(p)' /\ Leads(p)')

\* A step that moves rows only, starts no parent and asks for no deployment.
LEMMA QuietCalm ==
  ASSUME Inv, Inv', Desired, Moved, NewRows, Released, apps' = apps, Quiet
  PROVE  Kept
<1>1. \A j \in DOMAIN ops :
        /\ ops'[j].kind = ops[j].kind
        /\ ops'[j].at = ops[j].at \/ (Leads(j) /\ ops[j].kind = "destroy_stack")
        /\ Active(j)' => Active(j)
  BY MovedTable, ChildrenSame DEF Quiet, RowKept
<1>2. AppsMove
  BY AppsRest
<1>3. Finished
  BY DEF Finished, Quiet
<1>4. Marked
  <2>1. \A j \in DOMAIN ops : ops[j].kind # "destroy_stack" => ops'[j].at = ops[j].at
    BY <1>1
  <2> QED  BY <2>1 DEF Marked
<1>5. Calm
  <2>1. \A j \in DOMAIN ops : Leads(j)' => Leads(j)
    BY <1>1 DEF Leads, Quiet
  <2>2. \A j \in DOMAIN ops : Begun(j)' => InCharge(j)
    BY <1>1 DEF Begun, InCharge
  <2>3. \A j \in DOMAIN ops : Drives(j)' => ops'[j].at = ops[j].at
    BY <1>1 DEF Drives
  <2>4. \A c \in DOMAIN ops' : Brings(ops'[c]) => c \in DOMAIN ops
    BY DEF Quiet
  <2>5. \A j \in DOMAIN ops : InCharge(j)' => InCharge(j)
    BY <2>1, <2>2 DEF InCharge
  <2>6. \A j \in DOMAIN ops : Drives(j)' /\ Leads(j)' => Leads(j) /\ walk' = walk
    BY <2>1 DEF Quiet
  <2> QED  BY <2>3, <2>4, <2>5, <2>6 DEF Calm
<1> QED  BY <1>2, <1>3, <1>4, <1>5, CalmKeeps DEF Orderly

\* The table keeps its rows.
LEMMA RowsMove ==
  ASSUME Inv, Inv', DOMAIN ops' = DOMAIN ops, strays \subseteq strays',
         \A j \in DOMAIN ops : Onward(j, ops[j], ops'[j])
  PROVE  Moved /\ NewRows
<1>1. ops' \in Seq(OpRow) /\ ops \in Seq(OpRow)
  BY DEF Inv, Types
<1>2. Len(ops') = Len(ops) /\ Len(ops) \in Nat
  <2>1. DOMAIN ops' = 1..Len(ops') /\ Len(ops') \in Nat /\ DOMAIN ops = 1..Len(ops) /\ Len(ops) \in Nat
    BY <1>1, LenProperties
  <2>2. PICK a \in Nat, b \in Nat : a = Len(ops') /\ b = Len(ops)
    BY <2>1
  <2>3. \A k \in Nat : k \in 1..a <=> k \in 1..b
    BY <2>1, <2>2
  <2>4. a = b
    BY <2>3
  <2> QED  BY <2>2, <2>4
<1> QED  BY <1>1, <1>2 DEF Moved, NewRows

\* A row that nobody writes to, and one that is asked to stop.
LEMMA StaysOnward ==
  ASSUME Inv, NEW j \in DOMAIN ops
  PROVE  Onward(j, ops[j], ops[j])
BY DEF Onward

\* A row that is cancelled, or told to stop.
LEMMA CancelledOnward ==
  ASSUME Inv, NEW j \in DOMAIN ops
  PROVE  LET row == CancelRow(ops[j]) IN
         /\ Onward(j, ops[j], row) /\ row.at = ops[j].at /\ row.kind = ops[j].kind
         /\ ops[j].status # "pending" => row.status = ops[j].status
         /\ ops[j].status = "pending" => row.status = "cancelled"
<1>1. ops[j] \in OpRow
  BY Facts
<1>2. CASE ops[j].status = "pending"
  <2>1. PICK row : row = [ops[j] EXCEPT !.status = "cancelled"]
    OBVIOUS
  <2>2. CancelRow(ops[j]) = row
    BY <1>2, <2>1 DEF CancelRow
  <2>3. /\ row.kind = ops[j].kind /\ row.parent = ops[j].parent /\ row.member = ops[j].member
        /\ row.req = ops[j].req /\ row.app = ops[j].app /\ row.at = ops[j].at
        /\ row.stack = ops[j].stack /\ row.status = "cancelled"
    BY <1>1, <2>1 DEF OpRow
  <2> QED  BY <1>2, <2>2, <2>3 DEF Onward, Settled
<1>3. CASE ops[j].status = "running"
  <2>1. PICK row : row = [ops[j] EXCEPT !.cancel = TRUE]
    OBVIOUS
  <2>2. CancelRow(ops[j]) = row
    BY <1>3, <2>1 DEF CancelRow
  <2>3. /\ row.kind = ops[j].kind /\ row.parent = ops[j].parent /\ row.member = ops[j].member
        /\ row.req = ops[j].req /\ row.app = ops[j].app /\ row.at = ops[j].at
        /\ row.stack = ops[j].stack /\ row.status = "running"
    BY <1>1, <1>3, <2>1 DEF OpRow
  <2> QED  BY <1>3, <2>2, <2>3 DEF Onward, Settled
<1>4. CASE ops[j].status \notin {"pending", "running"}
  <2>1. CancelRow(ops[j]) = ops[j]
    BY <1>4 DEF CancelRow
  <2> QED  BY <1>4, <2>1 DEF Onward
<1> QED  BY <1>2, <1>3, <1>4

\* A cancel request of an operator.
LEMMA CancelCalm ==
  ASSUME Inv, Inv', Desired, NEW i \in DOMAIN ops, Cancel(i)
  PROVE  Kept
<1>1. /\ With(i, CancelRow(ops[i])) /\ apps' = apps /\ walk' = walk
      /\ strays' = IF ops[i].status = "pending" THEN strays \union Orphaned(i) ELSE strays
  BY DEF Cancel
<1>2. PICK row : row = CancelRow(ops[i])
  OBVIOUS
<1>3. /\ Onward(i, ops[i], row) /\ row.at = ops[i].at /\ row.kind = ops[i].kind
      /\ ops[i].status # "pending" => row.status = ops[i].status
      /\ ops[i].status = "pending" => row.status = "cancelled"
  BY <1>2, CancelledOnward
<1>4. row \in OpRow
  BY <1>2, CancelledRow
<1>5. /\ Moved /\ NewRows /\ DOMAIN ops' = DOMAIN ops
      /\ \A j \in DOMAIN ops : ops'[j] = IF j = i THEN row ELSE ops[j]
  BY <1>1, <1>2, <1>3, <1>4, EditMoves
<1>6. Released
  <2>1. strays' \subseteq DOMAIN ops'
    BY <1>1, <1>5 DEF Desired, ChildrenOK, Orphaned, Children
  <2>2. ASSUME NEW p \in DOMAIN ops, Begun(p), ~Begun(p)', NEW c \in DOMAIN ops, Brings(ops[c]),
               ops[c].parent = p, Active(c)'
        PROVE  c \in strays'
    <3>1. p = i
      BY <1>5, <2>2 DEF Begun, Active
    <3>2. ops[i].status = "pending"
      BY <1>3, <1>5, <2>2, <3>1 DEF Begun, Active
    <3>3. c \in Orphaned(i)
      BY <1>5, <2>2, <3>1, ChildrenSame DEF Orphaned, Children
    <3> QED  BY <1>1, <3>2, <3>3
  <2> QED  BY <2>1, <2>2 DEF Released
<1>7. Quiet
  BY <1>1, <1>3, <1>5 DEF Quiet
<1> QED  BY <1>1, <1>5, <1>6, <1>7, QuietCalm

\* The cancel requests of a parent: no other parent in charge is among its
\* children.
LEMMA AwaitCancelsCalm ==
  ASSUME Inv, Inv', Desired, NEW i \in DOMAIN ops, AwaitCancels(i)
  PROVE  Kept
<1>1. /\ ops' = [j \in DOMAIN ops |-> IF j \in walk.wait THEN CancelRow(ops[j]) ELSE ops[j]]
      /\ strays' = strays /\ apps' = apps /\ walk' = walk /\ Leads(i)
  BY DEF AwaitCancels, Waiting, Leads, bounds
<1>2. DOMAIN ops' = DOMAIN ops
  BY <1>1
<1>3. ASSUME NEW j \in DOMAIN ops
      PROVE  /\ Onward(j, ops[j], ops'[j]) /\ ops'[j].at = ops[j].at /\ ops'[j].kind = ops[j].kind
             /\ ops[j].status # "pending" => ops'[j].status = ops[j].status
             /\ ops[j].status = "pending" => ops'[j].status \in {"pending", "cancelled"}
  BY <1>1, StaysOnward, CancelledOnward
<1>4. Moved /\ NewRows
  BY <1>1, <1>2, <1>3, RowsMove
<1>5. Released
  <2>1. strays' \subseteq DOMAIN ops'
    BY <1>1, <1>2 DEF Desired, ChildrenOK
  <2>2. ASSUME NEW p \in DOMAIN ops, Begun(p)
        PROVE  Begun(p)'
    <3>1. p = i
      BY <1>1, <2>2, OneCharge DEF InCharge, Desired
    <3> QED  BY <1>1, <1>3, <2>2, <3>1 DEF Begun, Leads, Active
  <2> QED  BY <2>1, <2>2 DEF Released
<1>6. Quiet
  BY <1>1, <1>2, <1>3 DEF Quiet
<1> QED  BY <1>1, <1>4, <1>5, <1>6, QuietCalm

\* After a crash the parent in charge is still the one.
LEMMA CrashCalm ==
  ASSUME Inv, Inv', Desired, Crash
  PROVE  Kept
<1>1. /\ ops' = [j \in DOMAIN ops |-> IF ops[j].status = "running" THEN Ended(j, "pending") ELSE ops[j]]
      /\ strays' = strays /\ apps' = apps
  BY DEF Crash
<1>2. DOMAIN ops' = DOMAIN ops
  BY <1>1
<1>3. ASSUME NEW j \in DOMAIN ops
      PROVE  /\ Onward(j, ops[j], ops'[j]) /\ ops'[j].at = ops[j].at /\ ops'[j].kind = ops[j].kind
             /\ ops'[j].status = IF ops[j].status = "running" THEN "pending" ELSE ops[j].status
  BY <1>1, StaysOnward, EndedOnward DEF Active, Status
<1>4. Moved /\ NewRows
  BY <1>1, <1>2, <1>3, RowsMove
<1>5. Released
  <2>1. strays' \subseteq DOMAIN ops'
    BY <1>1, <1>2 DEF Desired, ChildrenOK
  <2>2. \A p \in DOMAIN ops : Begun(p) => Begun(p)'
    BY <1>3 DEF Begun, Active
  <2> QED  BY <2>1, <2>2 DEF Released
<1>6. Quiet
  BY <1>2, <1>3 DEF Quiet, Leads
<1> QED  BY <1>1, <1>4, <1>5, <1>6, QuietCalm

\* A parent ends, or a destruction goes on: no child of a deployment is left to
\* nobody.
LEMMA ParentCalm ==
  ASSUME Inv, Inv', Desired, NEW i \in DOMAIN ops, Leads(i), NEW row \in OpRow, With(i, row),
         Onward(i, ops[i], row), apps' = apps, strays \subseteq strays', strays' \subseteq DOMAIN ops,
         ops[i].kind = "deploy_stack" =>
           /\ row.at = ops[i].at /\ row.status # "running"
           /\ \A c \in DOMAIN ops : Brings(ops[c]) /\ ops[c].parent = i /\ Active(c) => c \in strays'
  PROVE  Kept
<1>1. /\ Moved /\ NewRows /\ DOMAIN ops' = DOMAIN ops
      /\ \A j \in DOMAIN ops : ops'[j] = IF j = i THEN row ELSE ops[j]
  BY EditMoves
<1>2. row.kind = ops[i].kind /\ ops[i].kind \in {"deploy_stack", "destroy_stack"}
  BY DEF Onward, Leads, Parents
<1>3. Released
  <2>1. strays' \subseteq DOMAIN ops'
    BY <1>1
  <2>2. ASSUME NEW p \in DOMAIN ops, ops[p].kind = "deploy_stack", Begun(p), ~Begun(p)',
               NEW c \in DOMAIN ops, Brings(ops[c]), ops[c].parent = p, Active(c)'
        PROVE  c \in strays'
    <3>1. p = i
      BY <1>1, <2>2 DEF Begun, Active
    <3>2. Active(c)
      BY <1>1, <2>2, ChildrenSame
    <3> QED  BY <2>2, <3>1, <3>2
  <2> QED  BY <2>1, <2>2 DEF Released
<1>4. Quiet
  <2>1. \A p \in DOMAIN ops : Leads(p)' => p = i
    BY <1>1 DEF Leads, Inv, Walks
  <2>2. \A p \in DOMAIN ops : ~(Drives(p)' /\ Leads(p)')
    BY <1>1, <1>2, <2>1 DEF Drives, Leads
  <2>3. ~Brings(ops[i])
    BY <1>2 DEF Brings
  <2>4. \A j \in DOMAIN ops : /\ ops'[j].at = ops[j].at \/ (Leads(j) /\ ops[j].kind = "destroy_stack")
                              /\ ops'[j].status = "running" => ops[j].status = "running"
    BY <1>1, <1>2 DEF Leads
  <2>5. \A j \in DOMAIN ops : Brings(ops[j]) => ops'[j] = ops[j]
    BY <1>1, <2>3
  <2> QED  BY <1>1, <2>2, <2>4, <2>5 DEF Quiet
<1> QED  BY <1>1, <1>3, <1>4, QuietCalm

\* A parent that fails or is cancelled leaves its children astray.
LEMMA FailParentCalm ==
  ASSUME Inv, Inv', Desired, NEW i \in DOMAIN ops, Leads(i), FailParent(i)
  PROVE  Kept
<1>1. With(i, Rolled(i)) /\ strays' = strays \union Orphaned(i) /\ apps' = apps
  BY DEF FailParent
<1>2. PICK row \in OpRow : /\ row = Rolled(i) /\ Onward(i, ops[i], row) /\ row.at = ops[i].at
                           /\ row.status \in {"failed", "cancelled"}
  BY RolledOnward DEF Leads
<1>3. strays' \subseteq DOMAIN ops
  BY <1>1 DEF Desired, ChildrenOK, Orphaned, Children
<1>4. \A c \in DOMAIN ops : Brings(ops[c]) /\ ops[c].parent = i /\ Active(c) => c \in strays'
  BY <1>1 DEF Orphaned, Children
<1> QED  BY <1>1, <1>2, <1>3, <1>4, ParentCalm

\* The ways in which a parent fails.
LEMMA ParentFailsCalm ==
  ASSUME Inv, Inv', Desired, NEW i \in DOMAIN ops, AwaitFails(i) \/ CancelSeen(i)
  PROVE  Kept
BY FailParentCalm DEF AwaitFails, Waiting, CancelSeen, Leads, Parents

\* A deployment that is done has no child under way: its members are safe.
LEMMA FinalizeStackCalm ==
  ASSUME Inv, Inv', Desired, NEW i \in DOMAIN ops, FinalizeStack(i)
  PROVE  Kept
<1>1. /\ Leads(i) /\ ops[i].kind = "deploy_stack" /\ ops[i].at = "finalize" /\ ops[i].status = "running"
      /\ With(i, Ended(i, "done")) /\ strays' = strays /\ apps' = apps
  BY DEF FinalizeStack, IsRunning, Runs, Leads, Parents, bounds
<1>2. PICK row \in OpRow : /\ row = Ended(i, "done") /\ Onward(i, ops[i], row) /\ row.at = ops[i].at
                           /\ row.status = "done"
  BY <1>1, EndedOnward DEF Status, Settled, Active
<1>3. AllSafe(i)
  BY <1>1 DEF Desired, Progress, Drives, InCharge
<1>4. ASSUME NEW c \in DOMAIN ops, Brings(ops[c]), ops[c].parent = i, Active(c)
      PROVE  c \in strays'
  <2>1. c \in Deploying(i, ops[c].member)
    BY <1>4 DEF Deploying, Children, Brings
  <2>2. ~Safe(i, ops[c].member)
    BY <1>4, <2>1 DEF Safe
  <2>3. ops[c].member \notin Selected(Want(i))
    BY <1>3, <2>2 DEF AllSafe
  <2> QED  BY <1>1, <1>4, <2>3 DEF Desired, ChildrenOK, ChildOf
<1>5. strays' \subseteq DOMAIN ops
  BY <1>1 DEF Desired, ChildrenOK
<1> QED  BY <1>1, <1>2, <1>4, <1>5, ParentCalm

\* The steps of a destruction that ask for no child.
LEMMA DestructionCalm ==
  ASSUME Inv, Inv', Desired, NEW i \in DOMAIN ops,
         PlanDestroy(i) \/ PassMembers(i) \/ DeleteStackRow(i)
  PROVE  Kept
<1>1. /\ Leads(i) /\ ops[i].kind = "destroy_stack" /\ ops[i].status = "running" /\ ops[i].at # "serve"
      /\ apps' = apps
  BY DEF PlanDestroy, PassMembers, DeleteStackRow, FailParent, IsRunning, Runs, Leads, Parents
<1>2. CASE FailParent(i)
  BY <1>1, <1>2, FailParentCalm
<1>3. CASE ~FailParent(i)
  <2>1. strays' = strays
    BY <1>3 DEF PlanDestroy, PassMembers, DeleteStackRow, bounds
  <2>2. strays' \subseteq DOMAIN ops
    BY <2>1 DEF Desired, ChildrenOK
  <2>3. PICK row \in OpRow : With(i, row) /\ Onward(i, ops[i], row)
    <3>1. CASE PlanDestroy(i)
      <4>1. PICK out : out = {apps[m].id : m \in InStack(stack)}
        OBVIOUS
      <4>2. PICK row : row = [At(i, "destroy_members") EXCEPT !.out = out]
        OBVIOUS
      <4>3. With(i, row)
        BY <1>3, <3>1, <4>1, <4>2 DEF PlanDestroy
      <4>4. /\ At(i, "destroy_members") \in OpRow /\ Onward(i, ops[i], At(i, "destroy_members"))
        BY <1>1, AtOnward DEF Steps
      <4>5. out \in SUBSET Nat
        BY <4>1, Facts DEF InStack, AppRow
      <4>6. row \in OpRow
        BY <4>2, <4>4, <4>5 DEF OpRow
      <4>7. Onward(i, ops[i], row)
        BY <1>1, <4>2, <4>4 DEF OpRow, Onward, Settled
      <4> QED  BY <4>3, <4>6, <4>7
    <3>2. CASE PassMembers(i)
      BY <1>1, <3>2, AtOnward DEF PassMembers, Steps
    <3>3. CASE DeleteStackRow(i)
      BY <1>1, <3>3, EndedOnward DEF DeleteStackRow, IsRunning, Active, Status, Settled
    <3> QED  BY <3>1, <3>2, <3>3
  <2> QED  BY <1>1, <2>1, <2>2, <2>3, ParentCalm
<1> QED  BY <1>2, <1>3

-----------------------------------------------------------------------------
(* New rows, and steps that write none *)

\* One row more.
LEMMA AppendCalm ==
  ASSUME Inv, Inv', Desired, NEW row \in OpRow, ops' = Append(ops, row), row.status = "pending",
         ~Brings(row), row.kind \in Parents => row.at \in {"plan", "plan_destroy"}, row.at # "remove",
         row.kind = "destroy_app" => Inserted(row.app) /\ ops[row.app].member = row.member,
         apps' = apps, walk' = walk, strays' = strays
  PROVE  Kept
<1>1. /\ ops' \in Seq(OpRow) /\ DOMAIN ops \subseteq DOMAIN ops' /\ Len(ops) <= Len(ops')
      /\ \A i \in DOMAIN ops : ops'[i] = ops[i]
      /\ \A i \in DOMAIN ops' \ DOMAIN ops : ops'[i] = row
  <2>1. ops \in Seq(OpRow) /\ DOMAIN ops = 1..Len(ops) /\ Len(ops) \in Nat
    BY Facts DEF Inv, Types
  <2>2. ops' \in Seq(OpRow) /\ Len(ops') = Len(ops) + 1
    BY <2>1
  <2>3. DOMAIN ops' = 1..(Len(ops) + 1)
    BY <2>2, LenProperties
  <2> QED  BY <2>1, <2>2, <2>3
<1>2. Moved
  BY <1>1, StaysOnward DEF Moved
<1>3. NewRows
  BY <1>1 DEF NewRows, Brings
<1>4. Released
  BY <1>1 DEF Released, Begun, Active, Desired, ChildrenOK
<1>5. Quiet
  BY <1>1 DEF Quiet
<1> QED  BY <1>2, <1>3, <1>4, <1>5, QuietCalm

\* The request of the finalizer that takes up deletions again.
LEMMA FinalizeCalm ==
  ASSUME Inv, Inv', Desired, NEW m \in Members, Finalize(m)
  PROVE  Kept
<1>1. Exists(m) /\ apps' = apps /\ walk' = walk /\ strays' = strays
  BY DEF Finalize, bounds
<1>2. PICK row : row = RemovalRow(0, m)
  OBVIOUS
<1>3. ops' = Append(ops, row)
  BY <1>2 DEF Finalize
<1>4. /\ row \in OpRow /\ row.status = "pending" /\ row.kind = "destroy_app"
      /\ row.app = apps[m].id /\ Inserted(row.app)
  BY <1>1, <1>2, RemovalOfMember
<1>5. row.member = m /\ row.at = "mark"
  BY <1>2 DEF RemovalRow, Row
<1>6. ops[row.app].member = row.member
  BY <1>1, <1>4, <1>5 DEF Inv, Ids
<1> QED  BY <1>1, <1>3, <1>4, <1>5, <1>6, AppendCalm DEF Brings, Parents

\* The requests of users.
LEMMA SubmitCalm ==
  ASSUME Inv, Inv', Desired, NEW kind \in UserKinds, NEW row, Submit(row),
         \E at \in {"plan", "plan_destroy", "restart"} :
           /\ kind \in Parents => at # "restart"
           /\ row.kind = kind /\ row.at = at /\ row.status = "pending"
  PROVE  Kept
<1>1. ops' = Append(ops, row) /\ apps' = apps /\ walk' = walk /\ strays' = strays
  BY DEF Submit
<1>2. row \in OpRow
  <2>1. ops' \in Seq(OpRow)
    BY DEF Inv, Types
  <2>2. Len(ops) \in Nat /\ ops \in Seq(OpRow)
    BY Facts DEF Inv, Types
  <2>3. Len(ops) + 1 \in DOMAIN ops' /\ ops'[Len(ops) + 1] = row
    BY <1>1, <2>2
  <2> QED  BY <2>1, <2>3, ElementOfSeq, LenProperties
<1> QED  BY <1>1, <1>2, AppendCalm DEF Brings, Parents, UserKinds

\* What users ask for waits for its turn.
LEMMA SubmitsCalm ==
  ASSUME Inv, Inv', Desired,
         \/ \E r \in DOMAIN Requests : SubmitDeploy(r)
         \/ SubmitDestroy
         \/ \E m \in Members : SubmitRestart(m)
  PROVE  Kept
<1>1. CASE \E r \in DOMAIN Requests : SubmitDeploy(r)
  <2>1. PICK r \in DOMAIN Requests : SubmitDeploy(r)
    BY <1>1
  <2>2. PICK row : row = [Row("deploy_stack", 0, "plan") EXCEPT !.req = r]
    OBVIOUS
  <2>3. Submit(row)
    BY <2>1, <2>2 DEF SubmitDeploy
  <2>4. row.kind = "deploy_stack" /\ row.at = "plan" /\ row.status = "pending"
    BY <2>2 DEF Row
  <2> QED  BY <2>3, <2>4, SubmitCalm DEF UserKinds, Parents
<1>2. CASE SubmitDestroy
  <2>1. PICK row : row = [Row("destroy_stack", 0, "plan_destroy") EXCEPT !.stack = stack]
    OBVIOUS
  <2>2. Submit(row)
    BY <1>2, <2>1 DEF SubmitDestroy
  <2>3. row.kind = "destroy_stack" /\ row.at = "plan_destroy" /\ row.status = "pending"
    BY <2>1 DEF Row
  <2> QED  BY <2>2, <2>3, SubmitCalm DEF UserKinds, Parents
<1>3. CASE \E m \in Members : SubmitRestart(m)
  <2>1. PICK m \in Members : SubmitRestart(m)
    BY <1>3
  <2>2. PICK row : row = [Row("restart_app", 0, "restart") EXCEPT !.member = m, !.app = apps[m].id]
    OBVIOUS
  <2>3. Submit(row)
    BY <2>1, <2>2 DEF SubmitRestart
  <2>4. row.kind = "restart_app" /\ row.at = "restart" /\ row.status = "pending"
    BY <2>2 DEF Row
  <2> QED  BY <2>3, <2>4, SubmitCalm DEF UserKinds, Parents
<1> QED  BY <1>1, <1>2, <1>3

\* A step that writes no row.
LEMMA TableCalm ==
  ASSUME Inv, Inv', Desired, ops' = ops, walk' = walk, strays' = strays, AppsMove
  PROVE  Kept
<1>1. Moved /\ NewRows
  BY StaysOnward, RowsMove
<1>2. Finished /\ Marked
  BY DEF Finished, Marked
<1>3. Released
  BY DEF Released, Begun, Active, Desired, ChildrenOK
<1>4. Calm
  BY DEF Calm, InCharge, Leads, Begun, Active, Drives
<1> QED  BY <1>1, <1>2, <1>3, <1>4, CalmKeeps DEF Orderly

\* The controllers take an app for up, and only so.
LEMMA RepairsCalm ==
  ASSUME Inv, Inv', Desired, Sweep \/ \E m \in Members : Recovers(m) \/ Sickens(m)
  PROVE  Kept
<1>1. ops' = ops /\ walk' = walk /\ strays' = strays
  BY DEF Sweep, Recovers, Sickens, bounds
<1>2. ASSUME NEW m \in Members
      PROVE  AppMoves(m)
  <2>1. \/ apps'[m] = apps[m]
        \/ Exists(m) /\ \E status \in Up : apps'[m] = [apps[m] EXCEPT !.status = status]
    <3>1. CASE Sweep
      <4>1. apps'[m] = Healed[m]
        BY <3>1 DEF Sweep
      <4> QED  BY <4>1 DEF Healed, Up
    <3>2. CASE \E n \in Members : Recovers(n) \/ Sickens(n)
      <4>1. PICK n \in Members : Recovers(n) \/ Sickens(n)
        BY <3>2
      <4>2. PICK app : /\ \E status \in Up : app = [apps[n] EXCEPT !.status = status]
                       /\ apps' = [apps EXCEPT ![n] = app]
        BY <4>1 DEF Recovers, Sickens, Up
      <4>3. apps' = [apps EXCEPT ![n] = app] /\ Exists(n)
        BY <4>1, <4>2 DEF Recovers, Sickens
      <4>4. apps'[m] = IF m = n THEN app ELSE apps[m]
        BY <4>3, Facts
      <4> QED  BY <4>2, <4>3, <4>4
    <3> QED  BY <3>1, <3>2
  <2>2. CASE apps'[m] = apps[m]
    BY <2>2, UntouchedApp DEF Desired
  <2>3. CASE Exists(m) /\ \E status \in Up : apps'[m] = [apps[m] EXCEPT !.status = status]
    <3>1. PICK app : app = apps'[m]
      OBVIOUS
    <3>2. /\ app.id = apps[m].id /\ app.stack = apps[m].stack /\ app.image = apps[m].image
          /\ app.deployed = apps[m].deployed /\ app.doomed = apps[m].doomed /\ app.status \in Up
      BY <2>3, <3>1, Facts DEF AppRow
    <3>3. apps'[m] = app /\ apps[m].id # 0
      BY <2>3, <3>1 DEF Exists
    <3> QED  BY <3>2, <3>3 DEF AppMoves, Still
  <2> QED  BY <2>1, <2>2, <2>3
<1> QED  BY <1>1, <1>2, TableCalm DEF AppsMove

\* Nor does a step that changes nothing.
LEMMA StutterCalm ==
  ASSUME Inv, Inv', Desired, UNCHANGED vars
  PROVE  Kept
BY AppsRest, TableCalm DEF vars, bounds

-----------------------------------------------------------------------------
(* The removals that a parent asks for *)

\* What such a row names.
RemovalAsked(row) ==
  /\ row.kind = "destroy_app" /\ row.status = "pending" /\ row.at # "remove"
  /\ Inserted(row.app) /\ ops[row.app].member = row.member

\* The row that asks for a removal is one.
LEMMA RemovalForm ==
  ASSUME Inv, NEW i \in Nat, NEW m \in Members, Exists(m)
  PROVE  RemovalAsked(RemovalRow(i, m)) /\ Removes(RemovalRow(i, m), i, apps[m].id)
<1>1. PICK row : row = RemovalRow(i, m)
  OBVIOUS
<1>2. /\ row.status = "pending" /\ row.kind = "destroy_app" /\ row.parent = i
      /\ row.app = apps[m].id /\ Inserted(row.app)
  BY <1>1, RemovalOfMember
<1>3. row.member = m /\ row.at = "mark"
  BY <1>1 DEF RemovalRow, Row
<1>4. ops[row.app].member = row.member
  BY <1>2, <1>3 DEF Inv, Ids
<1> QED  BY <1>1, <1>2, <1>3, <1>4 DEF RemovalAsked, Removes

\* A destruction asks for the removal of its members.
LEMMA DestroyMembersCalm ==
  ASSUME Inv, Inv', Desired, NEW i \in DOMAIN ops, DestroyMembers(i)
  PROVE  Kept
<1>1. /\ Leads(i) /\ ops[i].kind = "destroy_stack" /\ apps' = apps /\ strays' = strays
  BY DEF DestroyMembers, IsRunning, Runs, Leads, Parents, bounds
<1>2. PICK M \in SUBSET Members : Removals(i, M, Children(i)) /\ \A m \in M : Exists(m)
  BY DEF DestroyMembers
<1>3. /\ ops' \in Seq(OpRow) /\ Len(ops) <= Len(ops') /\ DOMAIN ops \subseteq DOMAIN ops'
      /\ \A j \in DOMAIN ops : ops'[j] = ops[j]
      /\ \A j \in DOMAIN ops' \ DOMAIN ops : \E m \in M : ops'[j] = RemovalRow(i, m)
  <2>1. RemovalsAdded(i, M, Children(i))
    BY <1>2, RemovalsTable
  <2> QED  BY <2>1 DEF RemovalsAdded
<1>4. Moved
  BY <1>1, <1>3, StaysOnward DEF Moved
<1>5. \A j \in DOMAIN ops' \ DOMAIN ops : RemovalAsked(ops'[j])
  BY <1>2, <1>3, RemovalForm
<1>6. NewRows
  BY <1>5 DEF NewRows, RemovalAsked, Brings, Parents
<1>7. Released
  BY <1>1, <1>3 DEF Released, Begun, Active, Desired, ChildrenOK
<1>8. Quiet
  <2>1. \A p \in DOMAIN ops : Leads(p)' => p = i
    BY <1>1, <1>3 DEF Leads, Inv, Walks
  <2>2. \A p \in DOMAIN ops : ~(Drives(p)' /\ Leads(p)')
    BY <1>1, <1>3, <2>1 DEF Drives
  <2> QED  BY <1>3, <1>5, <2>2 DEF Quiet, RemovalAsked, Brings
<1> QED  BY <1>1, <1>4, <1>6, <1>7, <1>8, QuietCalm

-----------------------------------------------------------------------------
(* The steps of the deployment in charge *)

\* It keeps what it promises when the goals of the place it comes to hold.
LEMMA LeaderKeeps ==
  ASSUME Inv, Inv', Desired, Orderly, Queue', NEW i \in DOMAIN ops, ops[i].kind = "deploy_stack",
         InCharge(i) \/ ops[i].at \in {"plan", "plan_destroy"},
         \A p \in DOMAIN ops : InCharge(p)' => p = i,
         Walking(i)' => Levels(i)',
         ops'[i].at \in {"reconcile_removals", "finalize"} => AllSafe(i)',
         Cleaning(i)' => Asked(i)',
         ops'[i].at = "finalize" => Cleared(i)'
  PROVE  Kept
<1>1. ChildrenOK' /\ AppsOK'
  BY ChildrenKept, AppsStay
<1>2. ASSUME NEW p \in DOMAIN ops', InCharge(p)'
      PROVE  p = i
  <2>1. p \in DOMAIN ops
    BY <1>2 DEF Orderly, NewRows, InCharge, Leads, Begun, Parents
  <2> QED  BY <1>2, <2>1
<1>3. Done(i)'
  <2>1. InCharge(i) => Done(i)
    BY DEF Desired, Progress, Drives
  <2> QED  BY <2>1, DoneKept
<1>4. \A p \in DOMAIN ops' : Drives(p)' \/ Walking(p)' \/ Cleaning(p)' => p = i
  BY <1>2 DEF Drives, Walking, Cleaning, InCharge
<1>5. Progress'
  BY <1>3, <1>4 DEF Progress
<1>6. Clearing'
  BY <1>4 DEF Clearing
<1> QED  BY <1>1, <1>5, <1>6 DEF Kept, Desired

\* The same while it stays in charge.
LEMMA InChargeKeeps ==
  ASSUME Inv, Inv', Desired, Orderly, NEW i \in DOMAIN ops, ops[i].kind = "deploy_stack", Leads(i),
         \A p \in DOMAIN ops : InCharge(p)' => InCharge(p),
         Walking(i)' => Levels(i)',
         ops'[i].at \in {"reconcile_removals", "finalize"} => AllSafe(i)',
         Cleaning(i)' => Asked(i)',
         ops'[i].at = "finalize" => Cleared(i)'
  PROVE  Kept
<1>1. Queue'
  BY QueueKept DEF Desired, Orderly
<1>2. \A p \in DOMAIN ops : InCharge(p)' => p = i
  BY OneCharge DEF InCharge, Desired
<1> QED  BY <1>1, <1>2, LeaderKeeps DEF InCharge

\* A step of the deployment that writes its row.
LEMMA LeaderEdit ==
  ASSUME Inv, Inv', Desired, NEW i \in DOMAIN ops, Leads(i), ops[i].kind = "deploy_stack",
         NEW row \in OpRow, With(i, row), Onward(i, ops[i], row), row.status = "running",
         AppsMove, strays' = strays
  PROVE  /\ Orderly /\ \A p \in DOMAIN ops : InCharge(p)' => InCharge(p)
         /\ DOMAIN ops' = DOMAIN ops /\ \A j \in DOMAIN ops : ops'[j] = IF j = i THEN row ELSE ops[j]
<1>1. /\ Moved /\ NewRows /\ DOMAIN ops' = DOMAIN ops
      /\ \A j \in DOMAIN ops : ops'[j] = IF j = i THEN row ELSE ops[j]
  BY EditMoves
<1>2. row.kind = "deploy_stack"
  BY DEF Onward
<1>4. Finished /\ Marked
  BY <1>1, <1>2 DEF Finished, Marked, Brings
<1>5. Released
  <2>1. ASSUME NEW p \in DOMAIN ops, Begun(p)
        PROVE  Begun(p)'
    BY <1>1, <1>2, <2>1 DEF Begun, Active, Onward, Parents
  <2> QED  BY <1>1, <2>1 DEF Released, Desired, ChildrenOK
<1>6. \A p \in DOMAIN ops : InCharge(p)' => InCharge(p)
  BY <1>1 DEF InCharge, Leads, Begun, Active
<1> QED  BY <1>1, <1>4, <1>5, <1>6 DEF Orderly

\* A plan begins with all that is selected ahead.
LEMMA PlanStackCalm ==
  ASSUME Inv, Inv', Desired, NEW i \in DOMAIN ops, PlanStack(i)
  PROVE  Kept
<1>1. /\ Leads(i) /\ ops[i].kind = "deploy_stack" /\ ops[i].at = "plan" /\ ops[i].status = "running"
      /\ apps' = apps /\ strays' = strays /\ walk' = AtLevel(Selected(Want(i)))
  BY DEF PlanStack, IsRunning, Runs, Leads, Parents, bounds
<1>2. PICK s : s = stack'
  OBVIOUS
<1>3. PICK row : row = [At(i, "deploy_apps") EXCEPT !.stack = s]
  OBVIOUS
<1>4. With(i, row)
  BY <1>2, <1>3 DEF PlanStack
<1>5. row \in OpRow /\ Onward(i, ops[i], row) /\ row.status = "running" /\ row.at = "deploy_apps"
  <2>1. At(i, "deploy_apps") \in OpRow /\ Onward(i, ops[i], At(i, "deploy_apps"))
        /\ At(i, "deploy_apps").status = "running" /\ At(i, "deploy_apps").at = "deploy_apps"
    BY <1>1, AtOnward DEF Steps
  <2>2. s \in Nat
    <3>1. stack' \in 0..Len(ops') /\ Len(ops') \in Nat
      BY LenProperties DEF Inv, Types
    <3> QED  BY <1>2, <3>1
  <2>3. /\ row \in OpRow /\ row.status = "running" /\ row.at = "deploy_apps"
        /\ row.kind = ops[i].kind /\ row.parent = ops[i].parent /\ row.member = ops[i].member
        /\ row.req = ops[i].req /\ row.app = ops[i].app
    BY <1>3, <2>1, <2>2 DEF OpRow, Onward
  <2> QED  BY <1>1, <2>3 DEF Onward, Settled
<1>6. /\ Orderly /\ \A p \in DOMAIN ops : InCharge(p)' => InCharge(p)
      /\ DOMAIN ops' = DOMAIN ops /\ \A j \in DOMAIN ops : ops'[j] = IF j = i THEN row ELSE ops[j]
  BY <1>1, <1>4, <1>5, AppsRest, LeaderEdit
<1>7. Levels(i)'
  <2>1. PICK rest \in SUBSET Selected(Want(i)) : rest = Selected(Want(i))
    OBVIOUS
  <2> QED  BY <1>1, <1>6, <2>1, LevelsBegin DEF Orderly
<1>8. ops'[i].at = "deploy_apps"
  BY <1>5, <1>6
<1> QED  BY <1>1, <1>6, <1>7, <1>8, InChargeKeeps DEF Cleaning

\* A parent that starts is the oldest, and no other has begun.
LEMMA StartFirst ==
  ASSUME Inv, Desired, NEW i \in DOMAIN ops, ops[i].kind \in Parents, Start(i)
  PROVE  /\ \A j \in DOMAIN ops : ops[j].kind \in Parents /\ Active(j) /\ j # i =>
              j > i /\ ops[j].status = "pending" /\ ~InCharge(j)
         /\ ops[i].status = "pending"
<1>1. MayStart(i) /\ ops[i].status = "pending" /\ ~Blocked(i)
  BY DEF Start, MayStart
<1>2. \A j \in DOMAIN ops : ops[j].kind \in Parents => Keys(j) = {<<"stack", 0>>}
  BY DEF Keys, Parents
<1>3. ASSUME NEW j \in DOMAIN ops, ops[j].kind \in Parents
      PROVE  Contend(i, j) /\ ops[j].status # "running"
  <2>1. Contend(i, j)
    BY <1>2, <1>3 DEF Contend
  <2> QED  BY <1>1, <2>1 DEF Blocked
<1>4. ASSUME NEW j \in DOMAIN ops, ops[j].kind \in Parents, Active(j), j # i
      PROVE  j > i /\ ops[j].status = "pending" /\ ~InCharge(j)
  <2>1. ops[j].status = "pending"
    BY <1>3, <1>4 DEF Active
  <2>2. ~(j < i)
    <3> SUFFICES ASSUME j < i PROVE FALSE
      OBVIOUS
    <3>1. j \in 1..(i - 1)
      BY Facts
    <3>2. Blocked(j)
      BY <1>1, <1>3, <1>4, <2>1, <3>1 DEF MayStart
    <3>3. PICK k \in DOMAIN ops : ops[k].status = "running" /\ Contend(j, k)
      BY <3>2 DEF Blocked
    <3>4. Contend(i, k)
      BY <1>2, <1>4, <3>3 DEF Contend
    <3> QED  BY <1>1, <3>3, <3>4 DEF Blocked
  <2>3. j > i
    BY <1>4, <2>2, Facts
  <2>4. ~InCharge(j)
    <3> SUFFICES ASSUME InCharge(j) PROVE FALSE
      OBVIOUS
    <3>1. i > j
      BY <1>1, <1>4 DEF Desired, Queue, Active
    <3> QED  BY <2>2, <3>1, Facts
  <2> QED  BY <2>1, <2>3, <2>4
<1> QED  BY <1>1, <1>4

\* It takes charge, and resumes its levels from the first one.
LEMMA StartParentCalm ==
  ASSUME Inv, Inv', Desired, NEW i \in DOMAIN ops, ops[i].kind \in Parents, Start(i)
  PROVE  Kept
<1>1. /\ ops[i].status = "pending" /\ strays' = strays /\ apps' = apps /\ With(i, Ended(i, "running"))
      /\ walk' = CASE ops[i].kind \notin Parents -> walk
                   [] ops[i].kind = "deploy_stack" /\ ops[i].at = "deploy_apps" -> AtLevel(Selected(Want(i)))
                   [] OTHER -> Nowhere
  BY DEF Start, MayStart, Parents, bounds
<1>2. PICK row \in OpRow : /\ row = Ended(i, "running") /\ Onward(i, ops[i], row) /\ row.at = ops[i].at
                           /\ row.status = "running" /\ row.kind = ops[i].kind
  BY <1>1, EndedOnward DEF Status, Active
<1>3. /\ Moved /\ NewRows /\ DOMAIN ops' = DOMAIN ops
      /\ \A j \in DOMAIN ops : ops'[j] = IF j = i THEN row ELSE ops[j]
  BY <1>1, <1>2, EditMoves
<1>4. Orderly
  <2>1. AppsMove
    BY <1>1, AppsRest
  <2>2. Finished /\ Marked
    BY <1>2, <1>3 DEF Finished, Marked
  <2>3. Released
    <3>1. \A p \in DOMAIN ops : Begun(p) => Begun(p)'
      BY <1>2, <1>3 DEF Begun, Active
    <3> QED  BY <1>1, <1>3, <3>1 DEF Released, Desired, ChildrenOK
  <2> QED  BY <1>3, <2>1, <2>2, <2>3 DEF Orderly
<1>5. \A j \in DOMAIN ops : ops[j].kind \in Parents /\ Active(j) /\ j # i =>
        j > i /\ ops[j].status = "pending" /\ ~InCharge(j)
  BY StartFirst
<1>6. \A p \in DOMAIN ops : InCharge(p)' => p = i
  <2> SUFFICES ASSUME NEW p \in DOMAIN ops, InCharge(p)', p # i
               PROVE  FALSE
    OBVIOUS
  <2>1. ops'[p] = ops[p]
    BY <1>3
  <2>2. InCharge(p) /\ ops[p].kind \in Parents /\ Active(p)
    BY <2>1 DEF InCharge, Leads, Begun, Active
  <2> QED  BY <1>5, <2>2
<1>7. Queue'
  <2>1. \A p \in DOMAIN ops' : InCharge(p)' => p = i
    BY <1>3, <1>6
  <2>2. ASSUME NEW j \in DOMAIN ops', j # i, ops'[j].kind \in Parents, Active(j)'
        PROVE  j > i
    <3>1. ops'[j] = ops[j] /\ j \in DOMAIN ops
      BY <1>3, <2>2
    <3>2. ops[j].kind \in Parents /\ Active(j)
      BY <2>2, <3>1 DEF Active
    <3> QED  BY <1>5, <2>2, <3>1, <3>2
  <2> QED  BY <2>1, <2>2 DEF Queue
<1>8. CASE ops[i].kind = "deploy_stack"
  <2>1. \A m \in Members : Deploying(i, m)' \subseteq DOMAIN ops
    BY <1>3 DEF Deploying, Children
  <2>2. ops'[i].at = ops[i].at
    BY <1>2, <1>3
  <2>3. ops[i].at \notin {"plan", "plan_destroy"} => InCharge(i) /\ Drives(i)
    BY <1>1, <1>8 DEF InCharge, Begun, Active, Drives
  <2>4. Walking(i)' => Levels(i)'
    <3> SUFFICES ASSUME ops[i].at = "deploy_apps"
                 PROVE  Levels(i)'
      BY <2>2 DEF Walking
    <3>1. walk' = AtLevel(Selected(Want(i)))
      <4>1. PICK w : w = AtLevel(Selected(Want(i)))
        OBVIOUS
      <4>2. ops[i].kind = "deploy_stack" /\ ops[i].at = "deploy_apps" => walk' = w
        BY <1>1, <4>1
      <4> QED  BY <1>8, <4>1, <4>2
    <3>2. PICK rest \in SUBSET Selected(Want(i)) : rest = Selected(Want(i))
      OBVIOUS
    <3> QED  BY <1>3, <3>1, <3>2, LevelsBegin
  <2>5. ops'[i].at \in {"reconcile_removals", "finalize"} => AllSafe(i)'
    <3>1. ops[i].at \in {"reconcile_removals", "finalize"} => AllSafe(i)
      BY <2>3 DEF Desired, Progress
    <3> QED  BY <1>4, <2>1, <2>2, <2>3, <3>1, AllSafeKept
  <2>6. ~Cleaning(i)'
    <3>1. ops[i].at # "deploy_apps" => walk' = Nowhere
      BY <1>1, <1>8 DEF Parents
    <3> QED  BY <2>2, <3>1, Places DEF Cleaning
  <2>7. ops'[i].at = "finalize" => Cleared(i)'
    BY <1>4, <2>2, <2>3, ClearedKept
  <2> QED  BY <1>4, <1>6, <1>7, <1>8, <2>3, <2>4, <2>5, <2>6, <2>7, LeaderKeeps
<1>9. CASE ops[i].kind # "deploy_stack"
  <2>1. ChildrenOK' /\ AppsOK'
    BY <1>4, ChildrenKept, AppsStay
  <2>2. \A p \in DOMAIN ops' : ~Drives(p)' /\ ~Walking(p)' /\ ~Cleaning(p)'
    BY <1>2, <1>3, <1>6, <1>9 DEF Drives, Walking, Cleaning, InCharge
  <2> QED  BY <1>4, <1>7, <2>1, <2>2 DEF Kept, Desired, Progress, Clearing
<1> QED  BY <1>8, <1>9

\* The child of a member that is asked for.
LEMMA ChildAsked ==
  ASSUME Inv, NEW i \in DOMAIN ops, ops[i].kind = "deploy_stack", NEW m \in Members
  PROVE  LET row == ChildRow(i, m) IN
         /\ Brings(row) /\ row.parent = i /\ row.member = m /\ row.req = ops[i].req
         /\ row.status = "pending" /\ row.at # "remove"
         /\ row.kind = "deploy" => row.at = "insert" /\ row.app = 0
         /\ row.kind = "apply" => Inserted(row.app) /\ ops[row.app].member = m
<1>1. PICK row : row = ChildRow(i, m)
  OBVIOUS
<1>2. Brings(row) /\ row.parent = i /\ row.member = m /\ row.status = "pending"
  BY <1>1, ChildOfMember
<1>3. CASE Exists(m)
  <2>1. PICK r : r = Row("apply", i, "redeploy")
    OBVIOUS
  <2>2. row = [r EXCEPT !.member = m, !.app = apps[m].id, !.req = ops[i].req]
    BY <1>1, <1>3, <2>1 DEF ChildRow
  <2>3. row.kind = "apply" /\ row.at = "redeploy" /\ row.app = apps[m].id /\ row.req = ops[i].req
    BY <2>1, <2>2 DEF Row
  <2>4. Inserted(apps[m].id) /\ ops[apps[m].id].member = m
    BY <1>3 DEF Inv, Ids
  <2> QED  BY <1>1, <1>2, <2>3, <2>4
<1>4. CASE ~Exists(m)
  <2>1. PICK r : r = Row("deploy", i, "insert")
    OBVIOUS
  <2>2. row = [r EXCEPT !.member = m, !.req = ops[i].req, !.stack = ops[i].stack]
    BY <1>1, <1>4, <2>1 DEF ChildRow
  <2>3. row.kind = "deploy" /\ row.at = "insert" /\ row.app = 0 /\ row.req = ops[i].req
    BY <2>1, <2>2 DEF Row
  <2> QED  BY <1>1, <1>2, <2>3
<1> QED  BY <1>3, <1>4

\* A step of the deployment that writes no row: nobody else sees it.
LEMMA TableRests ==
  ASSUME Inv, Inv', Desired, ops' = ops, strays' = strays, AppsMove
  PROVE  Orderly /\ \A p \in DOMAIN ops : InCharge(p)' => InCharge(p)
<1>1. Moved /\ NewRows
  BY StaysOnward, RowsMove
<1>2. Finished /\ Marked
  BY DEF Finished, Marked
<1>3. Released
  BY DEF Released, Begun, Active, Desired, ChildrenOK
<1>4. \A p \in DOMAIN ops : InCharge(p)' => InCharge(p)
  BY DEF InCharge, Leads, Begun, Active
<1> QED  BY <1>1, <1>2, <1>3, <1>4 DEF Orderly

\* Where the deployment walks, and what it has at hand.
LEMMA WalkAtHand ==
  ASSUME Inv, Desired, NEW i \in DOMAIN ops, IsRunning(i, "deploy_stack", "deploy_apps")
  PROVE  /\ Leads(i) /\ InCharge(i) /\ Walking(i) /\ Drives(i) /\ Levels(i) /\ Done(i)
         /\ ops[i].kind = "deploy_stack" /\ ops[i].at = "deploy_apps" /\ ops[i].status = "running"
         /\ walk.left \subseteq Members /\ walk.level \subseteq Members /\ walk.todo \subseteq walk.level
         /\ walk.wait \subseteq DOMAIN ops /\ ~walk.asked
         /\ Selected(Want(i)) \subseteq Members /\ walk \in Place
<1>1. /\ Leads(i) /\ Walking(i) /\ Drives(i) /\ InCharge(i)
      /\ ops[i].kind = "deploy_stack" /\ ops[i].at = "deploy_apps" /\ ops[i].status = "running"
  BY DEF IsRunning, Runs, Leads, Walking, Drives, InCharge, Parents
<1>2. Levels(i) /\ Done(i)
  BY <1>1 DEF Desired, Progress
<1>3. /\ walk.left \subseteq Members /\ walk.level \subseteq Members /\ walk.todo \subseteq walk.level
      /\ walk.wait \subseteq DOMAIN ops /\ walk \in Place
  BY DEF Inv, Types, Place
<1>4. ~walk.asked
  BY <1>1 DEF Inv, Walks
<1>5. Selected(Want(i)) \subseteq Members
  BY <1>1, Wanted DEF Selected
<1> QED  BY <1>1, <1>2, <1>3, <1>4, <1>5

\* A member is looked at: it has a child to wait for, or is safe.
LEMMA LookedAt ==
  ASSUME Inv, Inv', Desired, NEW i \in DOMAIN ops, IsRunning(i, "deploy_stack", "deploy_apps"),
         NEW m \in walk.todo, NEW W, Orderly,
         \A p \in DOMAIN ops : InCharge(p)' => InCharge(p),
         ops'[i].at = "deploy_apps",
         walk'.left = walk.left, walk'.level = walk.level, walk'.todo = walk.todo \ {m},
         walk'.wait = walk.wait \union W,
         \A n \in Members \ {m} : Deploying(i, n)' \subseteq DOMAIN ops,
         Deploying(i, m)' \subseteq W, Deploying(i, m)' = {} => Safe(i, m)'
  PROVE  Kept
<1>1. /\ Leads(i) /\ InCharge(i) /\ Levels(i) /\ ops[i].kind = "deploy_stack"
      /\ walk.left \subseteq Members /\ walk.level \subseteq Members /\ walk.todo \subseteq walk.level
      /\ Selected(Want(i)) \subseteq Members
  BY WalkAtHand
<1>2. Moved /\ AppsMove /\ Queue /\ ChildrenOK
  BY DEF Orderly, Desired
<1>3. \A n \in Members \ {m} : Safe(i, n) => Safe(i, n)'
  BY <1>1, <1>2, SafeKept
<1>4. ASSUME NEW n \in Members \ {m}
      PROVE  Deploying(i, n)' = Deploying(i, n)
  <2>1. Deploying(i, n) \subseteq Deploying(i, n)'
    BY <1>2, ChildrenSame
  <2>2. \A c \in Deploying(i, n)' : c \in DOMAIN ops => c \in Deploying(i, n)
    BY <1>2, ChildrenSame
  <2> QED  BY <2>1, <2>2
<1>5. Ahead' = Ahead /\ m \in Ahead
  BY <1>1 DEF Ahead
<1>6. Selected(Want(i))' = Selected(Want(i))
  BY <1>2, WantKept
<1>7. \A n \in walk'.level : Needs[n] \intersect Ahead' = {}
  BY <1>1, <1>5 DEF Levels
<1>8. ASSUME NEW n \in Selected(Want(i)) \ Ahead
      PROVE  Safe(i, n)'
  BY <1>1, <1>3, <1>5 DEF Levels
<1>9. ASSUME NEW n \in walk'.level \ walk'.todo
      PROVE  Deploying(i, n)' \subseteq walk'.wait /\ (Deploying(i, n)' = {} => Safe(i, n)')
  <2>1. CASE n = m
    BY <2>1
  <2>2. CASE n # m
    <3>1. n \in walk.level \ walk.todo /\ n \in Members \ {m}
      BY <1>1, <2>2
    <3>2. Deploying(i, n) \subseteq walk.wait /\ (Deploying(i, n) = {} => Safe(i, n))
      BY <1>1, <3>1 DEF Levels
    <3> QED  BY <1>3, <1>4, <3>1, <3>2
  <2> QED  BY <2>1, <2>2
<1>10. Levels(i)'
  <2>1. Ahead' \subseteq Selected(Want(i))'
    BY <1>1, <1>5, <1>6 DEF Levels
  <2> QED  BY <1>5, <1>6, <1>7, <1>8, <1>9, <2>1 DEF Levels
<1> QED  BY <1>1, <1>10, InChargeKeeps DEF Cleaning

\* The table with one row more.
LEMMA AppendedTable ==
  ASSUME Inv, NEW row \in OpRow, ops' = Append(ops, row)
  PROVE  /\ ops' \in Seq(OpRow) /\ DOMAIN ops \subseteq DOMAIN ops' /\ Len(ops) <= Len(ops')
         /\ \A i \in DOMAIN ops : ops'[i] = ops[i]
         /\ DOMAIN ops' \ DOMAIN ops = {Len(ops) + 1} /\ ops'[Len(ops) + 1] = row
<1>1. ops \in Seq(OpRow) /\ DOMAIN ops = 1..Len(ops) /\ Len(ops) \in Nat
  BY Facts DEF Inv, Types
<1>2. ops' \in Seq(OpRow) /\ Len(ops') = Len(ops) + 1
  BY <1>1
<1>3. DOMAIN ops' = 1..(Len(ops) + 1)
  BY <1>2, LenProperties
<1> QED  BY <1>1, <1>2, <1>3

\* A child is asked for.
LEMMA ChildAppended ==
  ASSUME Inv, Inv', Desired, NEW i \in DOMAIN ops, IsRunning(i, "deploy_stack", "deploy_apps"),
         NEW m \in walk.todo, ops' = Append(ops, ChildRow(i, m)), apps' = apps, strays' = strays
  PROVE  /\ Orderly /\ \A p \in DOMAIN ops : InCharge(p)' => InCharge(p)
         /\ ops'[i] = ops[i] /\ DOMAIN ops' \ DOMAIN ops = {Len(ops) + 1}
         /\ \A n \in Members \ {m} : Deploying(i, n)' \subseteq DOMAIN ops
         /\ Deploying(i, m)' \subseteq Deploying(i, m) \union {Len(ops) + 1}
         /\ Len(ops) + 1 \in Deploying(i, m)'
<1>1. /\ Leads(i) /\ Walking(i) /\ ops[i].kind = "deploy_stack" /\ m \in Members /\ m \in walk.level
  BY WalkAtHand
<1>2. PICK row : row = ChildRow(i, m)
  OBVIOUS
<1>3. /\ row \in OpRow /\ Brings(row) /\ row.parent = i /\ row.member = m /\ row.req = ops[i].req
      /\ row.status = "pending" /\ row.at # "remove"
      /\ row.kind = "deploy" => row.at = "insert" /\ row.app = 0
      /\ row.kind = "apply" => Inserted(row.app) /\ ops[row.app].member = m
  BY <1>1, <1>2, ChildAsked, ChildOfMember
<1>4. /\ ops' \in Seq(OpRow) /\ DOMAIN ops \subseteq DOMAIN ops' /\ Len(ops) <= Len(ops')
      /\ \A j \in DOMAIN ops : ops'[j] = ops[j]
      /\ DOMAIN ops' \ DOMAIN ops = {Len(ops) + 1} /\ ops'[Len(ops) + 1] = row
  BY <1>2, <1>3, AppendedTable
<1>5. Moved
  BY <1>4, StaysOnward DEF Moved
<1>6. Walking(i)'
  BY <1>1, <1>4 DEF Walking, Leads
<1>7. NewRows
  <2>1. ASSUME NEW j \in DOMAIN ops' \ DOMAIN ops
        PROVE  ops'[j] = row
    BY <1>4
  <2>2. row.kind \notin Parents /\ row.kind # "destroy_app"
    BY <1>3 DEF Brings, Parents
  <2> QED  BY <1>1, <1>3, <1>6, <2>1, <2>2 DEF NewRows
<1>8. Orderly
  <2>1. Finished /\ Marked
    BY <1>4 DEF Finished, Marked
  <2>2. Released
    BY <1>4 DEF Released, Begun, Active, Desired, ChildrenOK
  <2> QED  BY <1>5, <1>7, <2>1, <2>2, AppsRest DEF Orderly
<1>9. \A p \in DOMAIN ops : InCharge(p)' => InCharge(p)
  BY <1>4 DEF InCharge, Leads, Begun, Active
<1>10. ASSUME NEW n \in Members, NEW c \in Deploying(i, n)'
       PROVE  (c \in Deploying(i, n)) \/ (n = m /\ c = Len(ops) + 1)
  BY <1>3, <1>4, <1>10 DEF Deploying, Children
<1>11. Len(ops) + 1 \in Deploying(i, m)'
  BY <1>3, <1>4 DEF Deploying, Children, Brings
<1>12. \A n \in Members : Deploying(i, n) \subseteq DOMAIN ops
  BY DEF Deploying, Children
<1> QED  BY <1>1, <1>4, <1>8, <1>9, <1>10, <1>11, <1>12

\* One member of the level is looked at.
LEMMA DeployMemberCalm ==
  ASSUME Inv, Inv', Desired, NEW i \in DOMAIN ops, NEW m \in Members, DeployMember(i, m)
  PROVE  Kept
<1>1. /\ IsRunning(i, "deploy_stack", "deploy_apps") /\ m \in walk.todo
      /\ apps' = apps /\ strays' = strays
  BY DEF DeployMember, bounds
<1>2. /\ Leads(i) /\ ops[i].kind = "deploy_stack" /\ ops[i].at = "deploy_apps" /\ walk \in Place
      /\ InCharge(i)
  BY <1>1, WalkAtHand
<1>3. ASSUME NEW W, ops' = ops, walk' = [walk EXCEPT !.todo = walk.todo \ {m}, !.wait = walk.wait \union W],
             Deploying(i, m) \subseteq W, Deploying(i, m) = {} => Safe(i, m)
      PROVE  Kept
  <2>1. Orderly /\ \A p \in DOMAIN ops : InCharge(p)' => InCharge(p)
    BY <1>1, <1>3, AppsRest, TableRests
  <2>2. /\ walk'.left = walk.left /\ walk'.level = walk.level /\ walk'.todo = walk.todo \ {m}
        /\ walk'.wait = walk.wait \union W
    BY <1>2, <1>3 DEF Place
  <2>3. \A n \in Members : Deploying(i, n)' = Deploying(i, n) /\ Deploying(i, n)' \subseteq DOMAIN ops
    BY <1>3 DEF Deploying, Children
  <2>4. Safe(i, m) => Safe(i, m)'
    BY <1>2, <2>1, <2>3, SafeKept DEF Orderly, Desired
  <2>5. /\ ops'[i].at = "deploy_apps" /\ Deploying(i, m)' \subseteq W
        /\ Deploying(i, m)' = {} => Safe(i, m)'
        /\ \A n \in Members \ {m} : Deploying(i, n)' \subseteq DOMAIN ops
    BY <1>2, <1>3, <2>3, <2>4
  <2> QED  BY <1>1, <2>1, <2>2, <2>5, LookedAt
<1>4. CASE walk' = [walk EXCEPT !.todo = @ \ {m}, !.wait = @ \union Deploying(i, m)] /\ UNCHANGED ops
           /\ Deploying(i, m) # {}
  <2>1. PICK W : W = Deploying(i, m)
    OBVIOUS
  <2> QED  BY <1>3, <1>4, <2>1
<1>5. CASE walk' = [walk EXCEPT !.todo = @ \ {m}] /\ UNCHANGED ops /\ Deploying(i, m) = {}
           /\ Converged(m, Want(i))
  <2>1. PICK W : W = {}
    OBVIOUS
  <2>2. walk' = [walk EXCEPT !.todo = walk.todo \ {m}, !.wait = walk.wait \union W]
    BY <1>2, <1>5, <2>1 DEF Place
  <2>3. Safe(i, m)
    BY <1>5 DEF Safe, Served, Converged, Delivered
  <2> QED  BY <1>3, <1>5, <2>1, <2>2, <2>3
<1>6. CASE /\ Deploying(i, m) = {} /\ ops' = Append(ops, ChildRow(i, m))
           /\ walk' = [walk EXCEPT !.todo = @ \ {m}, !.wait = @ \union {Len(ops) + 1}]
  <2>1. PICK W : W = {Len(ops) + 1}
    OBVIOUS
  <2>2. /\ walk'.left = walk.left /\ walk'.level = walk.level /\ walk'.todo = walk.todo \ {m}
        /\ walk'.wait = walk.wait \union W
    <3>1. walk' = [[walk EXCEPT !.todo = walk.todo \ {m}] EXCEPT !.wait = walk.wait \union W]
      BY <1>2, <1>6, <2>1 DEF Place
    <3> QED  BY <1>2, <3>1 DEF Place
  <2>3. /\ Orderly /\ \A p \in DOMAIN ops : InCharge(p)' => InCharge(p)
        /\ ops'[i] = ops[i]
        /\ \A n \in Members \ {m} : Deploying(i, n)' \subseteq DOMAIN ops
        /\ Deploying(i, m)' \subseteq Deploying(i, m) \union {Len(ops) + 1}
        /\ Len(ops) + 1 \in Deploying(i, m)'
    BY <1>1, <1>6, ChildAppended
  <2>4. Deploying(i, m)' \subseteq W /\ Deploying(i, m)' # {}
    BY <1>6, <2>1, <2>3
  <2> QED  BY <1>1, <1>2, <2>2, <2>3, <2>4, LookedAt
<1> QED  BY <1>1, <1>4, <1>5, <1>6 DEF DeployMember

\* What is waited for has passed, and with it the level.
LEMMA LevelPassed ==
  ASSUME Inv, Desired, NEW i \in DOMAIN ops, PassLevel(i)
  PROVE  \A m \in Selected(Want(i)) \ walk.left : Safe(i, m)
<1> SUFFICES ASSUME NEW m \in Selected(Want(i)) \ walk.left
             PROVE  Safe(i, m)
  OBVIOUS
<1>1. IsRunning(i, "deploy_stack", "deploy_apps") /\ walk.todo = {} /\ Passed(i)
  BY DEF PassLevel
<1>2. Levels(i) /\ Done(i) /\ m \in Members
  BY <1>1, WalkAtHand
<1>3. CASE m \notin walk.level
  BY <1>2, <1>3 DEF Levels, Ahead
<1>4. CASE m \in walk.level
  <2>1. Deploying(i, m) \subseteq walk.wait /\ (Deploying(i, m) = {} => Safe(i, m))
    BY <1>1, <1>2, <1>4 DEF Levels
  <2>2. \A c \in Deploying(i, m) : ops[c].status \in {"done", "cancelled"}
    BY <1>1, <2>1 DEF Passed
  <2>3. CASE \E c \in Deploying(i, m) : ops[c].status = "done"
    BY <1>2, <2>3 DEF Done
  <2>4. CASE \A c \in Deploying(i, m) : ops[c].status = "cancelled"
    <3>1. \A c \in Deploying(i, m) : ~Active(c)
      BY <2>4 DEF Active
    <3> QED  BY <2>1, <2>4, <3>1 DEF Safe, Served
  <2> QED  BY <2>2, <2>3, <2>4
<1> QED  BY <1>3, <1>4

\* The gate makes the apps the stack's, and changes nothing else of them.
LEMMA AppsAdopted ==
  ASSUME Inv, Desired, NEW i \in DOMAIN ops, PassLevel(i)
  PROVE  AppsMove
<1>1. Walking(i)
  BY WalkAtHand DEF PassLevel
<1>2. ASSUME NEW m \in Members
      PROVE  AppMoves(m)
  <2>1. apps'[m] = IF m \in walk.level /\ Exists(m) THEN [apps[m] EXCEPT !.stack = ops[i].stack]
                   ELSE apps[m]
    BY DEF PassLevel
  <2>2. CASE apps'[m] = apps[m]
    BY <2>2, UntouchedApp DEF Desired
  <2>3. CASE Exists(m) /\ apps'[m] = [apps[m] EXCEPT !.stack = ops[i].stack]
    <3>1. PICK app : app = apps'[m]
      OBVIOUS
    <3>2. /\ app.id = apps[m].id /\ app.status = apps[m].status /\ app.image = apps[m].image
          /\ app.deployed = apps[m].deployed /\ app.doomed = apps[m].doomed
      BY <2>3, <3>1, Facts DEF AppRow
    <3>3. apps'[m].id # 0
      BY <2>3, <3>1, <3>2 DEF Exists
    <3>4. Still(m)
      BY <3>1, <3>2 DEF Still
    <3> QED  BY <1>1, <3>1, <3>2, <3>3, <3>4 DEF AppMoves
  <2> QED  BY <2>1, <2>2, <2>3
<1> QED  BY <1>2 DEF AppsMove

\* The next level begins, or the removals.
LEMMA PassLevelCalm ==
  ASSUME Inv, Inv', Desired, NEW i \in DOMAIN ops, PassLevel(i)
  PROVE  Kept
<1>1. IsRunning(i, "deploy_stack", "deploy_apps") /\ strays' = strays
  BY DEF PassLevel, bounds
<1>2. /\ Leads(i) /\ InCharge(i) /\ Levels(i) /\ ops[i].kind = "deploy_stack" /\ ops[i].at = "deploy_apps"
      /\ ops[i].status = "running" /\ Selected(Want(i)) \subseteq Members
  BY <1>1, WalkAtHand
<1>3. AppsMove
  BY AppsAdopted
<1>4. ASSUME Orderly, DOMAIN ops' = DOMAIN ops
      PROVE  \A m \in Selected(Want(i)) \ walk.left : Safe(i, m)'
  <2> SUFFICES ASSUME NEW m \in Selected(Want(i)) \ walk.left
               PROVE  Safe(i, m)'
    OBVIOUS
  <2>1. Safe(i, m) /\ m \in Members
    BY <1>2, LevelPassed
  <2>2. Deploying(i, m)' \subseteq DOMAIN ops
    BY <1>4 DEF Deploying, Children
  <2> QED  BY <1>2, <1>4, <2>1, <2>2, SafeKept DEF Orderly, Desired
<1>5. CASE walk.left # {} /\ walk' = AtLevel(walk.left) /\ UNCHANGED ops
  <2>1. Orderly /\ \A p \in DOMAIN ops : InCharge(p)' => InCharge(p)
    BY <1>1, <1>3, <1>5, TableRests
  <2>2. PICK rest \in SUBSET Selected(Want(i)) : rest = walk.left
    BY <1>2 DEF Levels, Ahead
  <2>3. \A m \in Selected(Want(i)) \ rest : Safe(i, m)'
    BY <1>4, <1>5, <2>1, <2>2
  <2>4. Levels(i)'
    BY <1>5, <2>1, <2>2, <2>3, LevelsBegin DEF Orderly
  <2>5. ops'[i].at = "deploy_apps"
    BY <1>2, <1>5
  <2> QED  BY <1>2, <2>1, <2>4, <2>5, InChargeKeeps DEF Cleaning
<1>6. CASE walk.left = {} /\ walk' = Nowhere /\ With(i, At(i, "reconcile_removals"))
  <2>1. PICK row : row = At(i, "reconcile_removals")
    OBVIOUS
  <2>2. row \in OpRow /\ Onward(i, ops[i], row) /\ row.status = "running" /\ row.at = "reconcile_removals"
    BY <1>2, <2>1, AtOnward DEF Steps
  <2>3. With(i, row)
    BY <1>6, <2>1
  <2>4. /\ Orderly /\ \A p \in DOMAIN ops : InCharge(p)' => InCharge(p)
        /\ DOMAIN ops' = DOMAIN ops /\ \A j \in DOMAIN ops : ops'[j] = IF j = i THEN row ELSE ops[j]
    BY <1>1, <1>2, <1>3, <2>2, <2>3, LeaderEdit
  <2>5. AllSafe(i)'
    <3>1. Selected(Want(i))' = Selected(Want(i))
      BY <2>4, WantKept DEF Orderly
    <3> QED  BY <1>4, <1>6, <2>4, <3>1 DEF AllSafe
  <2>6. ops'[i].at = "reconcile_removals" /\ ~walk'.asked
    BY <1>6, <2>2, <2>4, Places
  <2> QED  BY <1>2, <2>4, <2>5, <2>6, InChargeKeeps DEF Walking, Cleaning
<1> QED  BY <1>5, <1>6 DEF PassLevel

\* The removals of a deployment are asked for.
LEMMA ReconcileRemovalsCalm ==
  ASSUME Inv, Inv', Desired, NEW i \in DOMAIN ops, ReconcileRemovals(i)
  PROVE  Kept
<1>1. /\ Leads(i) /\ ops[i].kind = "deploy_stack" /\ ops[i].at = "reconcile_removals"
      /\ apps' = apps /\ strays' = strays /\ i \in Nat
  BY Facts DEF ReconcileRemovals, IsRunning, Runs, Leads, Parents, bounds
<1>2. Drives(i) /\ InCharge(i)
  BY <1>1 DEF Drives, InCharge
<1>3. PICK M \in SUBSET Members : M = Undeclared(i) /\ \A m \in M : Exists(m)
  <2>1. \A m \in Undeclared(i) : m \in Members /\ Exists(m)
    BY DEF Undeclared, InStack
  <2> QED  BY <2>1
<1>4. PICK E : E = UNION {Removing(i, apps[m].id) : m \in Undeclared(i)}
  OBVIOUS
<1>5. Removals(i, M, E)
  BY <1>3, <1>4 DEF ReconcileRemovals
<1>6. /\ ops' \in Seq(OpRow) /\ Len(ops) <= Len(ops') /\ DOMAIN ops \subseteq DOMAIN ops'
      /\ \A j \in DOMAIN ops : ops'[j] = ops[j]
      /\ \A j \in DOMAIN ops' \ DOMAIN ops :
           \E m \in M : Removing(i, apps[m].id) = {} /\ ops'[j] = RemovalRow(i, m)
      /\ \A m \in M : Removing(i, apps[m].id) = {} =>
           \E j \in DOMAIN ops' \ DOMAIN ops : ops'[j] = RemovalRow(i, m)
      /\ walk'.wait = E \union (DOMAIN ops' \ DOMAIN ops)
  <2>1. \A m \in M : Exists(m)
    BY <1>3
  <2>2. RemovalsAdded(i, M, E)
    BY <1>5, <2>1, RemovalsTable
  <2> QED  BY <2>2 DEF RemovalsAdded
<1>7. Moved
  BY <1>1, <1>6, StaysOnward DEF Moved
<1>8. \A j \in DOMAIN ops' \ DOMAIN ops : RemovalAsked(ops'[j])
  BY <1>1, <1>3, <1>6, RemovalForm
<1>9. Orderly
  <2>1. NewRows
    BY <1>8 DEF NewRows, RemovalAsked, Brings, Parents
  <2>2. Released
    BY <1>1, <1>6 DEF Released, Begun, Active, Desired, ChildrenOK
  <2>3. Finished /\ Marked
    BY <1>6 DEF Finished, Marked
  <2> QED  BY <1>1, <1>7, <2>1, <2>2, <2>3, AppsRest DEF Orderly
<1>10. \A p \in DOMAIN ops : InCharge(p)' => InCharge(p)
  BY <1>6 DEF InCharge, Leads, Begun, Active
<1>11. AllSafe(i)'
  <2>1. \A m \in Members : Deploying(i, m)' \subseteq DOMAIN ops
    BY <1>8 DEF Deploying, Children, RemovalAsked
  <2>2. AllSafe(i)
    BY <1>1, <1>2 DEF Desired, Progress
  <2> QED  BY <1>2, <1>9, <2>1, <2>2, AllSafeKept
<1>12. Asked(i)'
  <2> SUFFICES ASSUME NEW m \in Undeclared(i)', ~Stray(m)'
               PROVE  \E c \in walk'.wait : Removes(ops'[c], i, apps'[m].id)
    BY DEF Asked, Removes
  <2>1. m \in Members /\ m \in M
    BY <1>1, <1>2, <1>3, <1>9, UndeclaredBefore
  <2>2. CASE Removing(i, apps[m].id) = {}
    <3>1. PICK c \in DOMAIN ops' \ DOMAIN ops : ops'[c] = RemovalRow(i, m)
      BY <1>6, <2>1, <2>2
    <3>2. Removes(ops'[c], i, apps[m].id)
      BY <1>1, <1>3, <2>1, <3>1, RemovalForm
    <3> QED  BY <1>1, <1>6, <3>1, <3>2
  <2>3. CASE Removing(i, apps[m].id) # {}
    <3>1. PICK c : c \in Removing(i, apps[m].id)
      BY <2>3
    <3>2. c \in walk'.wait /\ c \in DOMAIN ops
      BY <1>3, <1>4, <1>6, <2>1, <3>1 DEF Removing, Children
    <3>3. Removes(ops'[c], i, apps[m].id)
      BY <1>6, <3>1, <3>2 DEF Removing, Children, Removes
    <3> QED  BY <1>1, <3>2, <3>3
  <2> QED  BY <2>2, <2>3
<1>13. ops'[i].at = "reconcile_removals"
  BY <1>1, <1>6
<1> QED  BY <1>1, <1>9, <1>10, <1>11, <1>12, <1>13, InChargeKeeps DEF Walking

\* They are settled: what was removed is gone, and what is left was cancelled.
LEMMA PassRemovalsCalm ==
  ASSUME Inv, Inv', Desired, NEW i \in DOMAIN ops, PassRemovals(i)
  PROVE  Kept
<1>1. /\ Leads(i) /\ ops[i].kind = "deploy_stack" /\ ops[i].at = "reconcile_removals"
      /\ ops[i].status = "running" /\ walk.asked /\ Passed(i) /\ walk' = Nowhere
      /\ apps' = apps /\ strays' = strays
  BY DEF PassRemovals, IsRunning, Runs, Leads, Parents, bounds
<1>2. Drives(i) /\ InCharge(i) /\ Cleaning(i)
  BY <1>1 DEF Drives, InCharge, Cleaning
<1>3. PICK row : row = At(i, "finalize")
  OBVIOUS
<1>4. row \in OpRow /\ Onward(i, ops[i], row) /\ row.status = "running" /\ row.at = "finalize"
  BY <1>1, <1>3, AtOnward DEF Steps
<1>5. With(i, row)
  BY <1>3 DEF PassRemovals
<1>6. /\ Orderly /\ \A p \in DOMAIN ops : InCharge(p)' => InCharge(p)
      /\ DOMAIN ops' = DOMAIN ops /\ \A j \in DOMAIN ops : ops'[j] = IF j = i THEN row ELSE ops[j]
  BY <1>1, <1>4, <1>5, AppsRest, LeaderEdit
<1>7. AllSafe(i)'
  <2>1. \A m \in Members : Deploying(i, m)' \subseteq DOMAIN ops
    BY <1>6 DEF Deploying, Children
  <2>2. AllSafe(i)
    BY <1>1, <1>2 DEF Desired, Progress
  <2> QED  BY <1>2, <1>6, <2>1, <2>2, AllSafeKept
<1>8. Cleared(i)'
  <2> SUFFICES ASSUME NEW m \in Undeclared(i)', ~Stray(m)'
               PROVE  \E c \in DOMAIN ops' : Removes(ops'[c], i, apps'[m].id) /\ ops'[c].status = "cancelled"
    BY DEF Cleared, Removes
  <2>1. m \in Members /\ m \in Undeclared(i)
    BY <1>1, <1>2, <1>6, UndeclaredBefore
  <2>2. ~Stray(m)
    BY <1>6, TraceKept DEF Desired, Orderly
  <2>3. PICK c \in walk.wait : Removes(ops[c], i, apps[m].id)
    BY <1>2, <2>1, <2>2 DEF Desired, Clearing, Asked
  <2>4. c \in DOMAIN ops /\ ops[c].status \in {"done", "cancelled"}
    BY <1>1 DEF Inv, Types, Passed
  <2>5. ops[c].status = "cancelled"
    <3>1. Exists(m)
      BY <2>1 DEF Undeclared, InStack
    <3> QED  BY <2>1, <2>3, <2>4, <3>1 DEF Inv, GoneForGood, Removes
  <2>6. c # i
    BY <1>1, <2>5
  <2> QED  BY <1>1, <1>6, <2>3, <2>4, <2>5, <2>6
<1>9. ops'[i].at = "finalize"
  BY <1>4, <1>6
<1> QED  BY <1>1, <1>6, <1>7, <1>8, <1>9, InChargeKeeps DEF Walking, Cleaning

-----------------------------------------------------------------------------
(* Every step, and what follows *)

\* No other step does, and none takes more from the deployment in charge than
\* its promises allow.
LEMMA NextKept ==
  ASSUME Inv, Inv', Desired, [Next]_vars
  PROVE  Kept
<1>1. ASSUME NEW i \in DOMAIN ops, Start(i) \/ Cancel(i)
      PROVE  Kept
  BY <1>1, StartChildCalm, StartParentCalm, CancelCalm
<1>2. ASSUME NEW i \in DOMAIN ops, ParentStep(i)
      PROVE  Kept
  BY <1>2, PlanStackCalm, PassLevelCalm, ReconcileRemovalsCalm, PassRemovalsCalm, FinalizeStackCalm,
     DestructionCalm, DestroyMembersCalm, DeployMemberCalm, ParentFailsCalm, AwaitCancelsCalm
     DEF ParentStep
<1>3. ASSUME NEW i \in DOMAIN ops, ChildStep(i) \/ ChildFails(i)
      PROVE  Kept
  BY <1>3, ChildStepCalm
<1>4. ASSUME NEW m \in Members, Finalize(m) \/ Recovers(m) \/ Sickens(m) \/ SubmitRestart(m)
      PROVE  Kept
  BY <1>4, FinalizeCalm, RepairsCalm, SubmitsCalm
<1>5. CASE (\E r \in DOMAIN Requests : SubmitDeploy(r)) \/ SubmitDestroy
  BY <1>5, SubmitsCalm
<1>6. CASE Crash \/ Sweep
  BY <1>6, CrashCalm, RepairsCalm
<1>7. CASE UNCHANGED vars
  BY <1>7, StutterCalm
<1> QED  BY <1>1, <1>2, <1>3, <1>4, <1>5, <1>6, <1>7 DEF Next

\* The first state has no row, or only those of a deployment that is done.
LEMMA InitDesired == Init => Desired
<1> SUFFICES ASSUME Init PROVE Desired
  OBVIOUS
<1>1. CASE stack = 0 /\ ops = <<>> /\ apps = [m \in Members |-> NoApp]
  <2>1. DOMAIN ops = {} /\ \A m \in Members : apps[m] = NoApp
    BY <1>1
  <2>2. strays = {}
    BY DEF Init
  <2> QED  BY <2>1, <2>2 DEF Desired, Queue, ChildrenOK, AppsOK, Progress, Clearing
<1>2. CASE stack = 1 /\ ops = Deployed /\ apps = Standing
  <2>1. walk = Nowhere /\ strays = {} /\ requests = 0 /\ mishaps = 0
    BY DEF Init
  <2>2. /\ \A i \in DOMAIN ops :
             /\ ops[i].status = "done" /\ ops[i].req = 1
             /\ \/ ops[i].kind = "deploy_stack" /\ ops[i].at = "finalize"
                \/ ops[i].kind = "deploy" /\ ops[i].at = "serve" /\ ops[i].app = i /\ ops[i].parent = 1
        /\ 1 \in DOMAIN ops /\ ops[1].kind = "deploy_stack"
        /\ \A m \in Members : Exists(m) \/ apps[m] = NoApp
    BY <1>2, <2>1, StandingStack
  <2>3. \A i \in DOMAIN ops : ~Active(i) /\ ~InCharge(i)
    BY <2>2 DEF Active, InCharge, Leads, Begun
  <2>4. Queue
    BY <2>3 DEF Queue
  <2>5. ChildrenOK
    <3>1. ASSUME NEW i \in DOMAIN ops, NEW p \in DOMAIN ops, Brings(ops[i]), ops[i].parent = p
          PROVE  ChildOf(i, p)
      <4>1. p = 1
        BY <2>2, <3>1 DEF Brings
      <4> QED  BY <2>2, <2>3, <3>1, <4>1 DEF ChildOf
    <3> QED  BY <2>1, <2>2, <3>1 DEF ChildrenOK
  <2>6. AppsOK
    BY <2>2, <2>3 DEF AppsOK
  <2>7. \A p \in DOMAIN ops : ~Drives(p) /\ ~Walking(p) /\ ~Cleaning(p)
    BY <2>3 DEF Drives, Walking, Cleaning, InCharge
  <2> QED  BY <2>4, <2>5, <2>6, <2>7 DEF Desired, Progress, Clearing
<1> QED  BY <1>1, <1>2 DEF Init

\* The children of a deployment follow its plan: they belong to the parent in
\* charge or are astray, and what the parent has behind it is as requested.
THEOREM PlanInvariance == Spec => [](Inv /\ Desired)
<1>1. Init => Inv /\ Desired
  BY InitInv, InitDesired
<1>2. Inv /\ Desired /\ [Next]_vars => Inv' /\ Desired'
  <2>1. ASSUME Inv, Desired, [Next]_vars
        PROVE  Inv' /\ Desired'
    <3>1. Inv'
      BY <2>1, NextInv
    <3> QED  BY <2>1, <3>1, NextKept DEF Kept
  <2> QED  BY <2>1
<1> QED  BY <1>1, <1>2, PTL DEF Spec

\* With a member, all that it needs is selected.
LEMMA SelectedClosed ==
  ASSUME Inv, NEW p \in DOMAIN ops, ops[p].kind = "deploy_stack", NEW m \in Selected(Want(p))
  PROVE  Needs[m] \subseteq Selected(Want(p))
<1> SUFFICES ASSUME NEW d \in Needs[m]
             PROVE  d \in Selected(Want(p))
  OBVIOUS
<1>1. PICK r : r = Want(p)
  OBVIOUS
<1>2. m \in r.apps
  BY <1>1 DEF Selected
<1>3. d \in r.apps
  <2>1. ops[p].req \in DOMAIN Requests
    BY Facts DEF Asks
  <2>2. \A n \in r.apps : Needs[n] \subseteq r.apps
    BY <1>1, <2>1, StackAssumption DEF Want
  <2> QED  BY <1>2, <2>2
<1>4. ASSUME NEW S \in SUBSET r.apps, r.selected \subseteq S, \A n \in S : Needs[n] \subseteq S
      PROVE  d \in S
  <2>1. m \in S
    BY <1>1, <1>4 DEF Selected
  <2> QED  BY <1>4, <2>1
<1> QED  BY <1>1, <1>3, <1>4 DEF Selected

\* A new child finds everything its member needs behind the level it is in.
LEMMA GateKept ==
  ASSUME Inv, Desired, Orderly,
         NEW c \in DOMAIN ops' \ DOMAIN ops, ops'[c].kind \in {"deploy", "apply"},
         NEW d \in Needs[ops'[c].member]
  PROVE  Served(ops'[c].parent, d)
<1>1. PICK p \in DOMAIN ops : ops'[c].parent = p /\ Walking(p) /\ ops'[c].member \in walk.level
  BY DEF Orderly, NewRows, Brings
<1>2. Levels(p) /\ ops[p].kind = "deploy_stack"
  BY <1>1 DEF Desired, Progress, Walking
<1>3. ops'[c].member \in Selected(Want(p))
  BY <1>1, <1>2 DEF Levels, Ahead
<1>4. d \in Selected(Want(p))
  BY <1>2, <1>3, SelectedClosed
<1>5. d \notin Ahead
  BY <1>1, <1>2 DEF Levels
<1>6. Safe(p, d)
  BY <1>2, <1>4, <1>5 DEF Levels
<1> QED  BY <1>1, <1>6 DEF Safe

\* GatedLevels: a member is deployed only when all it depends on in this
\* deployment serves the image the request wants, or somebody told it not to
\* (the gate of handleDeployStack's levels).
THEOREM GateHolds == Spec => GatedLevels
<1>1. ASSUME Inv, Desired, Inv', [Next]_vars
      PROVE  \A c \in DOMAIN ops' \ DOMAIN ops :
               LET row == ops'[c] IN
               row.kind \in {"deploy", "apply"} =>
                 \A d \in Needs[row.member] : Served(row.parent, d)
  <2>1. Orderly
    BY <1>1, NextKept DEF Kept
  <2> QED  BY <1>1, <2>1, GateKept
<1> QED  BY <1>1, PlanInvariance, PTL DEF Spec, GatedLevels

\* A deployment that gets done leaves the last step, where everything is safe.
LEMMA DoneFromFinalize ==
  ASSUME Inv, Desired, Orderly, NEW p \in DOMAIN ops,
         ops[p].kind = "deploy_stack", ops[p].status # "done", ops'[p].status = "done"
  PROVE  /\ \A m \in Selected(Want(p)) : Served(p, m)
         /\ \A m \in Undeclared(p) :
              Stray(m) \/ \E c \in Removing(p, apps[m].id) : ops[c].status = "cancelled"
<1>1. Onward(p, ops[p], ops'[p])
  BY DEF Orderly, Moved
<1>2. ops[p].at = "finalize" /\ Active(p)
  BY <1>1, Facts DEF Onward, OpRow, Status, Active
<1>3. Drives(p)
  BY <1>2 DEF Drives, InCharge, Begun, Parents
<1>4. AllSafe(p) /\ Cleared(p)
  BY <1>2, <1>3 DEF Desired, Progress, Clearing
<1>5. \A m \in Selected(Want(p)) : Served(p, m)
  BY <1>4 DEF AllSafe, Safe
<1>6. ASSUME NEW m \in Undeclared(p), ~Stray(m)
      PROVE  \E c \in Removing(p, apps[m].id) : ops[c].status = "cancelled"
  <2>1. PICK c \in DOMAIN ops : Removes(ops[c], p, apps[m].id) /\ ops[c].status = "cancelled"
    BY <1>4, <1>6 DEF Cleared
  <2> QED  BY <2>1 DEF Removing, Children, Removes
<1> QED  BY <1>5, <1>6

\* DoneIsDesired: a deployment that reports done has every selected member
\* serving its image, and no app left that the manifest dropped, but those that
\* somebody told to be otherwise (finalize of handleDeployStack).
THEOREM DoneIsWhatWasWanted == Spec => DoneIsDesired
<1>1. ASSUME Inv, Desired, Inv', [Next]_vars
      PROVE  \A p \in DOMAIN ops :
               ops[p].kind = "deploy_stack" /\ ops[p].status # "done" /\ ops'[p].status = "done" =>
                 /\ \A m \in Selected(Want(p)) : Served(p, m)
                 /\ \A m \in Undeclared(p) :
                      Stray(m) \/ \E c \in Removing(p, apps[m].id) : ops[c].status = "cancelled"
  <2>1. Orderly
    BY <1>1, NextKept DEF Kept
  <2> QED  BY <1>1, <2>1, DoneFromFinalize
<1> QED  BY <1>1, PlanInvariance, PTL DEF Spec, DoneIsDesired

\* A destruction that gets done leaves the last step, where its members are gone.
LEMMA DoneFromDelete ==
  ASSUME Inv, Orderly, NEW p \in DOMAIN ops,
         ops[p].kind = "destroy_stack", ops[p].status # "done", ops'[p].status = "done",
         NEW m \in Members, Exists(m), apps[m].id \in ops[p].out
  PROVE  \E c \in Removing(p, apps[m].id) : ops[c].status = "cancelled"
<1>1. Onward(p, ops[p], ops'[p])
  BY DEF Orderly, Moved
<1>2. ops[p].at = "delete_stack_row"
  BY <1>1 DEF Onward
<1>3. m \in Planned(p)
  BY DEF Planned
<1>4. PICK c \in DOMAIN ops : Removes(ops[c], p, apps[m].id) /\ ops[c].status = "cancelled"
  BY <1>2, <1>3 DEF Inv, Ending
<1> QED  BY <1>4 DEF Removing, Children, Removes

\* DestructionIsWhole: a destroy_stack that reports done leaves no app it planned
\* to remove but those whose child was cancelled, however often it was taken up
\* again and whatever the finalizer and the users did beside it.
THEOREM DestructionIsWhole == Spec => TornDown
<1>1. ASSUME Inv, Desired, Inv', [Next]_vars
      PROVE  \A p \in DOMAIN ops :
               ops[p].kind = "destroy_stack" /\ ops[p].status # "done" /\ ops'[p].status = "done" =>
                 \A m \in Members : Exists(m) /\ apps[m].id \in ops[p].out =>
                   \E c \in Removing(p, apps[m].id) : ops[c].status = "cancelled"
  <2>1. Orderly
    BY <1>1, NextKept DEF Kept
  <2> QED  BY <1>1, <2>1, DoneFromDelete
<1> QED  BY <1>1, PlanInvariance, PTL DEF Spec, TornDown

===============================================================================
