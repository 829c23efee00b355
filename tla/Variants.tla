-------------------------------- MODULE Variants --------------------------------
(***************************************************************************)
(* A product's variants under concurrent writers: console saves, which     *)
(* post the whole variant set, and CSV imports, which merge a file over    *)
(* what they read.  catalog/writes.ts (skuIssues, writeVariants) and       *)
(* catalog/bulk.ts (applyProduct, mergeProduct).                           *)
(*                                                                         *)
(* A variant is its id, SKU, price, options and position; the other        *)
(* columns are written beside the price.  The matrix of a payload is taken *)
(* to be valid here; ProductForm looks at it.                              *)
(***************************************************************************)
EXTENDS Integers, Sequences, FiniteSets, SequencesExt

CONSTANTS
    Lines,            \* products
    Writers,          \* console requests
    Payloads, Files,  \* what may be posted or imported for a product: rows of id, SKU, price
    MaxVariants,      \* bound: variant rows ever inserted
    MaxWrites         \* bound: saves and imports begun

VARIABLES
    variant,          \* product_variants; NoVariant where the id is not used yet
    write,            \* the transaction of each writer
    writes

variantVars == <<variant, write, writes>>

NoId == 0
Ids == 1..MaxVariants
NoVariant == [line |-> "none", live |-> FALSE]
Deleted(l) == [line |-> l, live |-> FALSE]     \* a deleted row's columns are read by nobody
NoWrite == [kind |-> "none"]

VariantsInit ==
    /\ variant = [v \in Ids |-> NoVariant]
    /\ write = [w \in Writers |-> NoWrite] /\ writes = 0

LiveOf(l) == {v \in Ids : variant[v].live /\ variant[v].line = l}
--------------------------------------------------------------------------------
DistinctSkus(rows) == \A i, j \in DOMAIN rows : i # j => rows[i].sku # rows[j].sku
Clash(l, rows) == \E k \in Lines \ {l} : \E v \in LiveOf(k), i \in DOMAIN rows :
    variant[v].sku = rows[i].sku
SkuIssues(l, rows) == ~DistinctSkus(rows) \/ Clash(l, rows)

(* Which live row each payload row edits: the one it names, or else the    *)
(* one with its SKU, unless a row, before or after it, names that.         *)
Names(l, rows, i) ==
    rows[i].id \in LiveOf(l) /\ \A j \in 1..(i - 1) : rows[j].id # rows[i].id
Claimed(l, rows, i) == {rows[j].id : j \in {k \in DOMAIN rows : Names(l, rows, k)}}
Target(l, rows, i) ==
    LET bySku == {v \in LiveOf(l) \ Claimed(l, rows, i) : variant[v].sku = rows[i].sku}
    IN  IF Names(l, rows, i) THEN rows[i].id
        ELSE IF bySku # {} THEN CHOOSE v \in bySku : TRUE ELSE NoId

(* Every live row is soft-deleted, then the targets are revived and the    *)
(* rest inserted under fresh ids, in payload order.                        *)
Unused == {v \in Ids : variant[v] = NoVariant}
Inserted(l, rows) == {i \in DOMAIN rows : Target(l, rows, i) = NoId}
IdFor(l, rows, i) ==
    LET earlier == Cardinality({j \in Inserted(l, rows) : j < i})
    IN  IF i \notin Inserted(l, rows) THEN Target(l, rows, i)
        ELSE CHOOSE v \in Unused : Cardinality({u \in Unused : u < v}) = earlier
WriteVariants(l, rows) == [v \in Ids |->
    LET written == {i \in DOMAIN rows : IdFor(l, rows, i) = v}
        last == CHOOSE i \in written : \A j \in written : j <= i
    IN  IF written # {}
        THEN [line |-> l, live |-> TRUE, sku |-> rows[last].sku, price |-> rows[last].price,
              options |-> rows[last].options, position |-> last]
        ELSE IF v \in LiveOf(l) THEN Deleted(l) ELSE variant[v]]
--------------------------------------------------------------------------------
(* The console's form posts every variant, with the ids it was shown.      *)
OpenSave(w) == \E l \in Lines : \E rows \in Payloads[l] :
    /\ write[w] = NoWrite /\ writes < MaxWrites
    /\ ~SkuIssues(l, rows)
    /\ write' = [write EXCEPT ![w] = [kind |-> "save", line |-> l, rows |-> rows, saw |-> {}]]
    /\ writes' = writes + 1
    /\ UNCHANGED variant

(* The product as an import reads it: its live variants by position.       *)
Stored(l) ==
    LET byPosition == SetToSortSeq(LiveOf(l), LAMBDA u, v : variant[u].position < variant[v].position)
    IN  [i \in DOMAIN byPosition |->
            [id |-> byPosition[i], sku |-> variant[byPosition[i]].sku,
             price |-> variant[byPosition[i]].price, options |-> variant[byPosition[i]].options]]

(* The file's rows first, each with the id its SKU has, then the variants  *)
(* the file does not mention, which are kept.                              *)
Retained_None(file, stored) == <<>>       \* mutant: destruction by omission
Retained(file, stored) ==
    SelectSeq(stored, LAMBDA row : \A i \in DOMAIN file : file[i].sku # row.sku)
MergeVariant(row, stored) ==
    [row EXCEPT !.id = LET same == {i \in DOMAIN stored : stored[i].sku = row.sku}
                       IN  IF same = {} THEN NoId ELSE stored[CHOOSE i \in same : TRUE].id]
MergeProduct(file, stored) ==
    [i \in DOMAIN file |-> MergeVariant(file[i], stored)] \o Retained(file, stored)

(* A file that changes nothing is skipped: nothing is written.             *)
OpenImport(w) == \E l \in Lines : \E file \in Files[l] :
    LET stored == Stored(l)
        merged == MergeProduct(file, stored)
    IN  /\ write[w] = NoWrite /\ writes < MaxWrites
        /\ DistinctSkus(file) /\ merged # stored /\ ~SkuIssues(l, merged)
        /\ write' = [write EXCEPT ![w] =
                        [kind |-> "import", line |-> l, rows |-> merged,
                         saw |-> {stored[i].id : i \in DOMAIN stored}]]
        /\ writes' = writes + 1
        /\ UNCHANGED variant

(* Under the product's row lock, up to the commit: another product that    *)
(* took a SKU meanwhile makes the unique index refuse.                     *)
Apply(w) ==
    LET l == write[w].line  rows == write[w].rows IN
    /\ write[w] # NoWrite
    /\ ~Clash(l, rows)
    /\ Cardinality(Unused) >= Cardinality(Inserted(l, rows))
    /\ variant' = WriteVariants(l, rows)
    /\ write' = [write EXCEPT ![w] = NoWrite]
    /\ UNCHANGED writes

Abort(w) ==
    /\ write[w] # NoWrite
    /\ write' = [write EXCEPT ![w] = NoWrite]
    /\ UNCHANGED <<variant, writes>>

VariantsNext == \E w \in Writers : OpenSave(w) \/ OpenImport(w) \/ Apply(w) \/ Abort(w)
--------------------------------------------------------------------------------
Applied(w) == write[w] # NoWrite /\ write'[w] = NoWrite /\ variant' # variant
LiveSku(l, sku) == {v \in LiveOf(l) : variant[v].sku = sku}

(* A save stores every row it was given: the variant a row names is the    *)
(* one edited, in whatever order the rows come, and a row without an id    *)
(* keeps the id its SKU had, so order lines and stock still point at it.   *)
RowsKeepTheirIds == [][\A w \in Writers : Applied(w) =>
    \A l \in {write[w].line}, rows \in {write[w].rows} : \A i \in DOMAIN rows :
    /\ Cardinality(LiveSku(l, rows[i].sku)') = 1
    /\ Names(l, rows, i) => rows[i].id \in LiveSku(l, rows[i].sku)'
    /\ ~Names(l, rows, i) =>
          {v \in LiveSku(l, rows[i].sku) : \A j \in DOMAIN rows : rows[j].id # v}
            \subseteq LiveSku(l, rows[i].sku)'
  ]_variantVars

(* An import drops no variant it read, although other writers may rename,  *)
(* delete or add variants between its read and its write; only one added   *)
(* meanwhile can go (bulk.ts: the variants the file omits are kept).       *)
ImportDropsOnlyTheUnseen == [][\A w \in Writers :
    Applied(w) /\ write[w].kind = "import" =>
        \A l \in {write[w].line}, saw \in {write[w].saw} : LiveOf(l) \cap saw \subseteq LiveOf(l)'
  ]_variantVars

(* No writer takes a variant's identity away from its orders and its stock.*)
VariantsKeepTheirIds == RowsKeepTheirIds /\ ImportDropsOnlyTheUnseen
================================================================================
