-------------------------------- MODULE Rows --------------------------------
(***************************************************************************)
(* Tables of the database as functions from ids to rows, and what the      *)
(* statements of the services do to one: INSERT, DELETE and a SUM over the *)
(* amounts of the rows a WHERE finds.                                      *)
(***************************************************************************)
EXTENDS Integers, FiniteSets, FiniteSetsExt

Tables(Id, Row) == UNION {[ids -> Row] : ids \in SUBSET Id}
IsTable(table, Id, Row) == DOMAIN table \subseteq Id /\ table \in [DOMAIN table -> Row]

Insert(table, rows) ==
    [i \in DOMAIN table \cup DOMAIN rows |->
        IF i \in DOMAIN rows THEN rows[i] ELSE table[i]]

Without(table, ids) == [i \in DOMAIN table \ ids |-> table[i]]

Total(table, ids) == MapThenSumSet(LAMBDA i : table[i].amount, ids)

=============================================================================
