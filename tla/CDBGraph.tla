------------------------------ MODULE CDBGraph ------------------------------
(***************************************************************************)
(* The link graph of internal/linkgraph/store/cdb: what the SQL statements *)
(* of cdb.go do to the two tables of schema.sql, one transaction each.     *)
(* Table links has one row per url (url STRING UNIQUE) that is never       *)
(* deleted, so the url also stands for the row's id.  Table edges has one  *)
(* row per pair of links (UNIQUE(src,dst)), which is named by the pair.    *)
(***************************************************************************)
EXTENDS Naturals

CONSTANTS
  URL,
  MaxTime    \* bound: readings of the clock; 0 is the zero time.Time

ASSUME ClockAssumption == MaxTime \in Nat \ {0}

VARIABLES
  now,                    \* NOW() of the database, and the callers' clock
  links, retrievedAt,     \* table links
  edges, updatedAt        \* table edges

linkTable == <<links, retrievedAt>>
edgeTable == <<edges, updatedAt>>
cdbVars == <<now, linkTable, edgeTable>>

Time == 0 .. MaxTime
Pair == URL \X URL

CDBInit ==
  /\ now = 1
  /\ links = {}
  /\ retrievedAt = [u \in URL |-> 0]
  /\ edges = {}
  /\ updatedAt = [e \in Pair |-> 0]

Tick ==
  /\ now < MaxTime
  /\ now' = now + 1
  /\ UNCHANGED <<linkTable, edgeTable>>

(* INSERT INTO links ... ON CONFLICT (url) DO UPDATE SET retrieved_at=...  *)
Excluded(old, t) == t                   \* mutant: the new value, not the greatest
Greatest(old, t) == IF old > t THEN old ELSE t

UpsertLink(u, t) ==
  /\ links' = links \cup {u}
  /\ retrievedAt' = [retrievedAt EXCEPT ![u] = IF u \in links THEN Greatest(@, t) ELSE t]
  /\ UNCHANGED <<now, edgeTable>>

(* INSERT INTO edges ... ON CONFLICT (src, dst) DO UPDATE SET updated_at=  *)
(* NOW(); a foreign key violation is an error and changes nothing.         *)
KnownLinks(s, d) == {s, d} \subseteq links

Refreshed(e) == now

UpsertEdge(s, d) ==
  /\ KnownLinks(s, d)
  /\ edges' = edges \cup {<<s, d>>}
  /\ updatedAt' = [updatedAt EXCEPT ![<<s, d>>] = Refreshed(<<s, d>>)]
  /\ UNCHANGED <<now, linkTable>>

(* DELETE FROM edges WHERE src=$1 AND updated_at < $2                      *)
OlderOrEqual(s, t) == {e \in edges : e[1] = s /\ updatedAt[e] <= t}   \* mutant
IntoLink(s, t) == {e \in edges : e[2] = s /\ updatedAt[e] < t}        \* mutant
Stale(s, t) == {e \in edges : e[1] = s /\ updatedAt[e] < t}

RemoveStalEdges(s, t) ==
  /\ edges' = edges \ Stale(s, t)
  /\ UNCHANGED <<now, linkTable, updatedAt>>
=============================================================================
