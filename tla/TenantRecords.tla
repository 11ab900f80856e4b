------------------------------ MODULE TenantRecords ------------------------------
(***************************************************************************)
(* The records of the tenants behind the generic endpoints (app.py), of    *)
(* one resource, with the memory store (store.py) or PostgreSQL            *)
(* (postgres_store.py), while a reader of one tenant goes through them     *)
(* page by page.  Row level security gives a PostgreSQL session the rows   *)
(* of its own tenant; every request is one statement of the store.  A      *)
(* record is stored under a key, a fresh public id, and shows an id and an *)
(* owner: in the memory store those are fields among the others.  Ids are  *)
(* numbers here: they are compared as strings and come in no order of      *)
(* time.                                                                   *)
(***************************************************************************)
EXTENDS Integers, Sequences, FiniteSets, FiniteSetsExt, SequencesExt

CONSTANTS
    Org,           \* tenants
    Nobody,        \* the owner of a key that is not in use
    Everyone,      \* the owner of a record without org_id
    Reader,        \* the tenant whose records are listed
    Id,            \* keys a new record may get, and ids it may show, positive numbers
    Stores,        \* the stores that are considered: sql or not
    ListCap,       \* rows a list of PostgresStore returns
    PageLimits     \* limits that are asked for

ASSUME RecordsAssumption ==
    /\ IsFiniteSet(Id) /\ Id \subseteq Nat \ {0} /\ Nobody \notin {Reader, Everyone}
    /\ Nobody \notin Org
    /\ ListCap \in Nat /\ PageLimits \subseteq Int

VARIABLES
    sql,           \* which store it is
    owner, shown,  \* of a record: org_id, and id
    deletedAt,     \* keys whose deleted_at is set
    after,         \* the reader's cursor: the last id it was given, 0 at first
    done,          \* the reader was told has_more = false
    given,         \* history: the records of the pages, in their order, with the ids they showed
    steady,        \* history: the reader's records that were there, unchanged, all the time
    crowded,       \* history: the reader had more records than ListCap
    confirmed,     \* history: keys whose deletion was answered with 204, and how often
    moved          \* history: keys whose id or owner was changed by an update

recordVars == <<sql, owner, shown, deletedAt, after, done, given, steady, crowded, confirmed, moved>>

\* item.get("org_id", org_id) == org_id
Owns(org, k) == owner[k] \in {org, Everyone}
Visible(org) == {k \in Id : Owns(org, k) /\ k \notin deletedAt}

RecordsInit ==
    /\ sql \in Stores
    /\ owner \in [Id -> Org \cup {Nobody} \cup IF sql THEN {} ELSE {Everyone}]
    /\ shown \in [Id -> Id]
    /\ \A k \in Id : sql \/ owner[k] \in {Nobody, Everyone} => shown[k] = k
    /\ deletedAt = {} /\ after = 0 /\ done = FALSE /\ given = <<>> /\ moved = {}
    /\ steady = Visible(Reader)
    /\ crowded = (Cardinality(steady) > ListCap)
    /\ confirmed = [k \in Id |-> 0]

\* A record under a fresh key; a uuid does not come twice.
Stored(k, org, id) ==
    /\ owner[k] = Nobody /\ confirmed[k] = 0
    /\ owner' = [owner EXCEPT ![k] = org] /\ shown' = [shown EXCEPT ![k] = id]
    /\ UNCHANGED <<sql, deletedAt, after, done, given, steady, confirmed, moved>>
    /\ crowded' = (crowded \/ Cardinality(Visible(Reader)') > ListCap)

\* create: the memory store takes the values over its own id and org_id, those of the path
\* and of the body; PostgreSQL puts its own over them.
CreateRecord(org, k) ==
    IF sql THEN Stored(k, org, k)
    ELSE \E to \in Org, id \in Id : Stored(k, to, id)

\* MemoryStore.register: an organization has no org_id.
RegisterOrganization(k) == ~sql /\ Stored(k, Everyone, k)

\* update: the memory store puts the key and the caller's tenant over the values; PostgreSQL
\* leaves both columns alone.
UpdateRecord(org, k) ==
    /\ ~sql /\ k \in Visible(org) /\ <<owner[k], shown[k]>> # <<org, k>>
    /\ owner' = [owner EXCEPT ![k] = org] /\ shown' = [shown EXCEPT ![k] = k]
    /\ steady' = steady \ {k} /\ moved' = moved \cup {k}
    /\ UNCHANGED <<sql, deletedAt, after, done, given, confirmed>>
    /\ crowded' = (crowded \/ Cardinality(Visible(Reader)') > ListCap)

\* delete: PostgreSQL marks the row, and finds it again the next time (all tables but those
\* of ephemeral records have the column).
DeleteRecord(org, k) ==
    /\ Owns(org, k) /\ confirmed[k] < 2    \* bound: deletions of one record
    /\ IF sql THEN deletedAt' = deletedAt \cup {k} /\ UNCHANGED owner
       ELSE owner' = [owner EXCEPT ![k] = Nobody] /\ UNCHANGED deletedAt
    /\ confirmed' = [confirmed EXCEPT ![k] = @ + 1]
    /\ steady' = steady \ {k}
    /\ UNCHANGED <<sql, shown, after, done, given, crowded, moved>>

\* Mutant of CursorOf: the next record.
Behind(k) == shown[k] > after
CursorBeyond(items, size) == shown[items[size + 1]]
CursorOf(items, size) == shown[items[size]]

(***************************************************************************)
(* list and _select_page: what the store returns, in the order of the ids  *)
(* shown, behind the cursor and up to the limit.  PostgreSQL is not told   *)
(* in which order to choose its rows; records that show the same id come   *)
(* in the order they were stored in, here in any.                          *)
(***************************************************************************)
ListedSets ==
    IF sql /\ Cardinality(Visible(Reader)) > ListCap
    THEN kSubset(ListCap, Visible(Reader)) ELSE {Visible(Reader)}

ByShownId(keys) ==
    {items \in SetToSeqs(keys) :
        \A m, n \in 1..Cardinality(keys) : m < n => shown[items[m]] <= shown[items[n]]}

ReadPage(limit) ==
    /\ ~done
    /\ \E listed \in ListedSets : \E items \in ByShownId({k \in listed : Behind(k)}) :
          LET size == Min({Max({limit, 1}), 100, Len(items)})
              hasMore == Len(items) > size
          IN  /\ given' = given \o [n \in 1..size |-> [key |-> items[n], id |-> shown[items[n]]]]
              /\ done' = ~hasMore
              /\ after' = IF hasMore THEN CursorOf(items, size) ELSE after
    /\ UNCHANGED <<sql, owner, shown, deletedAt, steady, crowded, confirmed, moved>>

RecordsNext ==
    \/ \E org \in Org, k \in Id :
          CreateRecord(org, k) \/ UpdateRecord(org, k) \/ DeleteRecord(org, k)
    \/ \E k \in Id : RegisterOrganization(k)
    \/ \E limit \in PageLimits : ReadPage(limit)

RecordsSpec == RecordsInit /\ [][RecordsNext]_recordVars

(***************************************************************************)
(* Properties                                                              *)
(***************************************************************************)
(* Owners, ids, cursor and pages take the values the code gives them.      *)
RecordsTypeOK ==
    /\ owner \in [Id -> Org \cup {Nobody, Everyone}] /\ shown \in [Id -> Id]
    /\ after \in Id \cup {0} /\ given \in Seq([key : Id, id : Id])
    /\ ~sql => deletedAt = {}

(***************************************************************************)
(* Records come, go and change while a reader turns the pages: it still is *)
(* given the id of every record that was there, unchanged, all the time,   *)
(* as long as its tenant never has more than the store lists.  With the    *)
(* memory store another record may stand for the id.                       *)
(***************************************************************************)
PagesMissNothing ==
    done /\ ~(sql /\ crowded) =>
        \A k \in steady : \E n \in DOMAIN given :
            given[n].id = shown[k] /\ (sql => given[n].key = k)

(***************************************************************************)
(* Nor is an id given twice, or a record of another tenant: the pages are  *)
(* in the order of the ids, an id that comes again is another record's and *)
(* of the memory store, and every record belongs to the reader or to all,  *)
(* unless it has been deleted or changed since.                            *)
(***************************************************************************)
PagesRepeatNothing ==
    /\ \A m, n \in DOMAIN given : m < n =>
          \/ given[m].id < given[n].id
          \/ ~sql /\ given[m].id = given[n].id /\ given[m].key # given[n].key
    /\ \A n \in DOMAIN given :
          LET k == given[n].key
          IN  Owns(Reader, k) \/ confirmed[k] > 0 \/ k \in moved

(***************************************************************************)
(* The pages of a reader are sound while records come and go: the two      *)
(* above, and the types.                                                   *)
(***************************************************************************)
PagesAreSound == RecordsTypeOK /\ PagesMissNothing /\ PagesRepeatNothing
==================================================================================
