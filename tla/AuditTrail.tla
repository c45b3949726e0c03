------------------------------ MODULE AuditTrail ------------------------------
(***************************************************************************)
(* The audit trail behind GET /v1/tenants/:id/audit: the same entries in   *)
(* the in-memory store (packages/audit-log/src/index.ts) that serves       *)
(* without a database, and in the table (apps/api/src/audit-store.ts).     *)
(*                                                                         *)
(* The memory compares timestamps as strings, the database as instants.    *)
(* An entry's timestamp has milliseconds; that of a filter may leave them  *)
(* out, and then sorts as a string after every fraction of its second.  A  *)
(* resource's type, which is filtered by, and its id, which is sorted by,  *)
(* are one.                                                                *)
(***************************************************************************)
EXTENDS Integers, Sequences, Functions, FiniteSets

CONSTANTS
  AuditTenants, Actors,
  Actions, Resources,  \* numbered in the order localeCompare puts them
  Absent,         \* a filter that is left out
  LastSecond,  \* bound: seconds are 0..LastSecond, each with two instants in it
  MaxEntries   \* bound: entries appended

ASSUME AuditAssumption == Actions \cup Resources \subseteq Nat

VARIABLE entries

\* Instants are the milliseconds 0 and 1 of each second.
NoMillis == 2
Stamps == [sec : 0..LastSecond, ms : 0..1]
Bounds == {Absent} \cup [sec : 0..LastSecond, ms : {0, 1, NoMillis}]

AuditInit == entries = <<>>

\* append() of both stores.
AppendEntry(t, a, c, r, s) ==
  /\ Len(entries) < MaxEntries
  /\ entries' = Append(entries, [tenant |-> t, actor |-> a, action |-> c, resource |-> r, ts |-> s])

AuditNext ==
  \E t \in AuditTenants, a \in Actors, c \in Actions, r \in Resources, s \in Stamps :
    AppendEntry(t, a, c, r, s)

AuditSpec == AuditInit /\ [][AuditNext]_entries

\* As strings "...:00.000Z" < "...:00.001Z" < "...:00Z".
StringRank(s) == 3 * s.sec + s.ms
Instant(s) == 2 * s.sec + (IF s.ms = NoMillis THEN 0 ELSE s.ms)

\* Mutant: the actor of the filter is forgotten.
SelectsAnyActor(e, f) ==
  e.tenant = f.tenant /\ f.action \in {Absent, e.action} /\ f.resource \in {Absent, e.resource}

Selects(e, f) ==
  /\ e.tenant = f.tenant
  /\ f.actor \in {Absent, e.actor} /\ f.action \in {Absent, e.action}
  /\ f.resource \in {Absent, e.resource}

Matches(e, f) ==
  /\ Selects(e, f)
  /\ f.from # Absent => StringRank(e.ts) >= StringRank(f.from)
  /\ f.to # Absent => StringRank(e.ts) <= StringRank(f.to)

compareEntries(left, right) ==
  \/ StringRank(left.ts) < StringRank(right.ts)
  \/ left.ts = right.ts /\ left.action < right.action
  \/ left.ts = right.ts /\ left.action = right.action /\ left.resource < right.resource

\* InMemoryAuditStore.query: Array.sort is stable, so an entry comes after those that
\* compare less, and after the older ones that compare equal.
Precedes(i, j) ==
  \/ compareEntries(entries[i], entries[j])
  \/ ~compareEntries(entries[j], entries[i]) /\ i < j
Matching(f) == {i \in DOMAIN entries : Matches(entries[i], f)}
Place(i, found) == Cardinality({j \in found : Precedes(j, i)}) + 1
MemoryQuery(f) ==
  LET found == Matching(f) IN
  [k \in 1..Cardinality(found) |-> entries[CHOOSE i \in found : Place(i, found) = k]]

\* DbAuditStore.query: ORDER BY ts leaves the order of equal timestamps open.
DbRows(f) ==
  {i \in DOMAIN entries :
     /\ entries[i].tenant = f.tenant
     /\ f.actor \in {Absent, entries[i].actor} /\ f.action \in {Absent, entries[i].action}
     /\ f.resource \in {Absent, entries[i].resource}
     /\ f.from # Absent => Instant(entries[i].ts) >= Instant(f.from)
     /\ f.to # Absent => Instant(entries[i].ts) <= Instant(f.to)}
DbMayAnswer(f, answer) ==
  \E order \in Bijection(DOMAIN answer, DbRows(f)) :
    \A i \in DOMAIN answer :
      /\ answer[i] = entries[order[i]]
      /\ i > 1 => Instant(answer[i - 1].ts) <= Instant(answer[i].ts)

\* The filters of a tenant that has entries.
Filters ==
  [tenant : {e.tenant : e \in Range(entries)}, actor : Actors \cup {Absent}, action : Actions \cup {Absent},
   resource : Resources \cup {Absent}, from : Bounds, to : Bounds]

-----------------------------------------------------------------------------
\* The two stores answer alike, in an order the database may choose, whenever the
\* filter's bounds have milliseconds.  Without them the memory drops the entries of
\* the second the filter begins with, and keeps those of the second it ends with.
Exact(bound) == bound = Absent \/ bound.ms # NoMillis
StoresAgree ==
  \A f \in Filters : Exact(f.from) /\ Exact(f.to) => DbMayAnswer(f, MemoryQuery(f))
=============================================================================
