------------------------------- MODULE Schema -------------------------------
(***************************************************************************)
(* MappingSchema (src/schema/mod.rs): tables by catalog, database and      *)
(* name, and the columns that a path of one to three of these names finds. *)
(* Names are in lower case, as they are after normalize_identifier; the    *)
(* types of the columns are left out.                                      *)
(***************************************************************************)
EXTENDS Sequences, SequencesExt

CONSTANT Registrations   \* what a caller may register: [path, columns]

VARIABLE tables          \* columns by <<catalog, database, name>>

SchemaInit == tables = <<>>

\* resolve_path: the names that are missing are empty.
ResolvePath(path) == [i \in 1..(3 - Len(path)) |-> ""] \o path

AddTable(path, columns) ==
    /\ ResolvePath(path) \notin DOMAIN tables
    /\ tables' = (ResolvePath(path) :> columns) @@ tables

RefuseDuplicate(path) ==
    /\ ResolvePath(path) \in DOMAIN tables
    /\ UNCHANGED tables

ReplaceTable(path, columns) ==
    tables' = (ResolvePath(path) :> columns) @@ tables

RemoveTable(path) ==
    tables' = [p \in DOMAIN tables \ {ResolvePath(path)} |-> tables[p]]

ChangeSchema ==
    \E r \in Registrations :
        \/ AddTable(r.path, r.columns)
        \/ RefuseDuplicate(r.path)
        \/ ReplaceTable(r.path, r.columns)
        \/ RemoveTable(r.path)

\* find_table: the very table, or else, if the path is a short one, the first table in the
\* order of the hash maps whose own path ends with it.  These are the columns that may be
\* found; column_names fails if there are none.
FindTable(path) ==
    LET exact == ResolvePath(path)
        endsWithIt == {p \in DOMAIN tables : Len(path) < 3 /\ IsSuffix(path, p)}
    IN  IF exact \in DOMAIN tables THEN {tables[exact]} ELSE {tables[p] : p \in endsWithIt}
=============================================================================
