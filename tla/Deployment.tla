----------------------------- MODULE Deployment ------------------------------
(***************************************************************************)
(* The migrations of the repository, run by its cluster, against the       *)
(* entities its workers serve requests with.                               *)
(***************************************************************************)
EXTENDS Schema, Migrations

Serving == \E w \in Workers : pc[w] = "serve"

\* Every column, unique index and foreign key an entity is declared with is in
\* the schema.
IsBacked(e, schema) ==
    /\ \A c \in e.columns : Exists(schema, NamedColumn(e.table, c))
    /\ \A c \in e.unique : Unique(c) \in schema[e.table]
    /\ \A key \in e.keys : \E o \in schema[e.table] :
        o.kind = "key" /\ o.name = key[1] /\ o.refers = key[2]

\* No column that wants a value is unknown to the entity of its table.
IsComplete(e, schema) == \A o \in schema[e.table] : o.rule = "required" => o.name \in e.columns

\* The migrations make what the entities describe.
ASSUME EntitiesFitVersions ==
    \A e \in AllEntities :
        IsBacked(e, SchemaAt[Len(Versions)]) /\ IsComplete(e, SchemaAt[Len(Versions)])

\* A worker serves requests only over a database in which it can read what its
\* entities declare and insert what they describe.
EntitiesFit == Serving => \A e \in AllEntities : IsBacked(e, db) /\ IsComplete(e, db)

Number(m) == CHOOSE k \in Numbers : Versions[k] = m

\* The downs that the database or TypeORM refuses.
ASSUME StubbornOnes ==
    Refused = {Number(m) : m \in {CreateCustomerVoucherTable, CreateBlogTable,
        CreateFcmTokenColumnToAdmins, CreateDeviceIdColumnToShoemakerCustomer}}

=============================================================================
