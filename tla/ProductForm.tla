------------------------------- MODULE ProductForm -------------------------------
(***************************************************************************)
(* The console's product editor over the variants it saves:                *)
(* console/src/app/products/ProductForm.tsx, its pure half                 *)
(* lib/product-form-state.ts, and the payload lib/catalog-input.ts takes.  *)
(*                                                                         *)
(* The form lives in the browser from the time the page is opened: a save  *)
(* sends all of it and, in edit mode, changes none of it, since the        *)
(* refreshed page keeps the component's state.  A row is its SKU, price    *)
(* and selection; the other fields travel with the price.                  *)
(***************************************************************************)
EXTENDS Variants, Options

CONSTANTS
    AxisTexts,        \* what is typed for an option: a name and values
    SkuTexts, PriceTexts,
    Untyped,            \* a field with nothing in it
    NoLine,           \* the product of the page for a new one
    Closed,
    Shelf,            \* a product to begin with: its line, axes and rows
    MaxAxes,          \* the form's cap on options
    MaxTyping         \* bound: edits of the form

VARIABLES
    form,             \* the product page that is open: line, axes and rows
    stored,           \* product_options: the axes of each product
    keys,             \* the form keys given out
    made,             \* history: the variants each row, by its key, was saved as
    typing

formVars == <<form, stored, keys, made, typing>>

FormClosed ==
    /\ form = Closed /\ stored = [l \in Lines |-> <<>>]
    /\ keys = 0 /\ made = << >> /\ typing = 0
FormInit ==
    /\ form = Closed /\ stored = [l \in Lines |-> IF l = Shelf.line THEN Shelf.axes ELSE <<>>]
    /\ variant = [v \in Ids |->
          IF v \notin DOMAIN Shelf.rows THEN NoVariant
          ELSE [line |-> Shelf.line, live |-> TRUE, position |-> v, sku |-> Shelf.rows[v].sku,
                price |-> Shelf.rows[v].price, options |-> Shelf.rows[v].options]]
    /\ write = [w \in Writers |-> NoWrite] /\ writes = 0
    /\ keys = 0 /\ made = << >> /\ typing = 0

BlankVariant(key, options) ==
    [key |-> key, id |-> NoId, sku |-> Untyped, price |-> Untyped, options |-> options]
BlankProduct(key) ==
    [line |-> NoLine, axes |-> <<>>, rows |-> <<BlankVariant(key, NoOptions)>>]
ToFormState(l, lastKey) ==
    LET rows == Stored(l)
    IN  [line |-> l, axes |-> FormAxes(stored[l]),
         rows |-> [i \in DOMAIN rows |->
            [key |-> lastKey + i, id |-> rows[i].id, sku |-> rows[i].sku, price |-> rows[i].price,
             options |-> rows[i].options]]]

Typed == typing < MaxTyping /\ typing' = typing + 1
OnlyTheForm == UNCHANGED <<variantVars, stored, made>>

OpenPage(l) ==
    /\ Typed /\ LiveOf(l) # {}
    /\ form' = ToFormState(l, keys) /\ keys' = keys + Cardinality(LiveOf(l))
    /\ made' = << >> /\ UNCHANGED <<variantVars, stored>>
OpenNew ==
    /\ Typed /\ form' = BlankProduct(keys + 1) /\ keys' = keys + 1
    /\ made' = << >> /\ UNCHANGED <<variantVars, stored>>
--------------------------------------------------------------------------------
TypeAxis(i, axis) ==
    /\ Typed /\ form' = [form EXCEPT !.axes[i] = axis]
    /\ OnlyTheForm /\ UNCHANGED keys
AddAxis ==
    /\ Typed /\ Len(form.axes) < MaxAxes
    /\ form' = [form EXCEPT !.axes = Append(@, [name |-> Untyped, values |-> <<>>])]
    /\ OnlyTheForm /\ UNCHANGED keys
RemoveAxis(i) ==
    /\ Typed /\ form' = [form EXCEPT !.axes = RemoveAt(@, i)]
    /\ OnlyTheForm /\ UNCHANGED keys

UpdateVariant(i) == \E sku \in SkuTexts \cup {form.rows[i].sku},
                       price \in PriceTexts \cup {form.rows[i].price} :
    /\ Typed /\ form' = [form EXCEPT !.rows[i].sku = sku, !.rows[i].price = price]
    /\ OnlyTheForm /\ UNCHANGED keys
AddVariant ==
    /\ Typed /\ form' = [form EXCEPT !.rows = Append(@, BlankVariant(keys + 1, NoOptions))]
    /\ keys' = keys + 1 /\ OnlyTheForm
RemoveVariant(i) ==
    /\ Typed /\ Len(form.rows) > 1
    /\ form' = [form EXCEPT !.rows = RemoveAt(@, i)]
    /\ OnlyTheForm /\ UNCHANGED keys

(* One row per combination: the last row that has it, or a blank one at    *)
(* the first row's price.                                                  *)
RebuildMatrix_ByPosition(combinations, rows) ==     \* mutant: the i-th row is the i-th combination
    [i \in DOMAIN combinations |->
        IF i \in DOMAIN rows THEN [rows[i] EXCEPT !.options = combinations[i]]
        ELSE [BlankVariant(keys + i, combinations[i]) EXCEPT !.price = rows[1].price]]
RebuildMatrix(combinations, rows) ==
    LET having(options) == {j \in DOMAIN rows : rows[j].options = options}
        last(options) == CHOOSE j \in having(options) : \A k \in having(options) : k <= j
    IN  IF combinations = <<>> THEN <<[rows[1] EXCEPT !.options = NoOptions]>>
        ELSE [i \in DOMAIN combinations |->
                IF having(combinations[i]) # {} THEN rows[last(combinations[i])]
                ELSE [BlankVariant(keys + i, combinations[i]) EXCEPT !.price = rows[1].price]]
Declared == FormAxes(SelectSeq(form.axes, LAMBDA axis : axis.name # Untyped))
Rebuild ==
    LET axes == SelectSeq(Declared, LAMBDA axis : axis.values # <<>>)
        combinations == CartesianCombinations(axes)
    IN  /\ Typed
        /\ form' = [form EXCEPT !.rows = RebuildMatrix(combinations, @)]
        /\ keys' = keys + Len(combinations)
        /\ OnlyTheForm
--------------------------------------------------------------------------------
(* What the payload schema and the write layer let through.                *)
Filled(rows) == \A i \in DOMAIN rows : rows[i].sku # Untyped /\ rows[i].price # Untyped
WriteOptions(l) == stored' = [stored EXCEPT ![l] = Declared]
Submit(l, rows) ==
    /\ Filled(rows) /\ MatrixOK(Declared, rows)
    /\ ~SkuIssues(l, rows) /\ writes < MaxWrites
    /\ Cardinality(Unused) >= Cardinality(Inserted(l, rows))
    /\ variant' = WriteVariants(l, rows)
    /\ WriteOptions(l)
    /\ writes' = writes + 1
    /\ UNCHANGED <<write, typing>>

(* Saving an open product: the answer brings no id back into the form.     *)
SaveChanges == \E l \in Lines \cap {form.line}, rows \in {form.rows} :
    /\ Submit(l, rows)
    /\ made' = [key \in {rows[i].key : i \in DOMAIN rows} |->
                   {IdFor(l, rows, i) : i \in {j \in DOMAIN rows : rows[j].key = key}}
                   \cup (IF key \in DOMAIN made THEN made[key] ELSE {})]
    /\ UNCHANGED <<form, keys>>

(* Creating one leads to its page, unless the answer is lost: then the     *)
(* form is still that of a new product.                                    *)
CreateProduct == \E l \in Lines, answered \in BOOLEAN :
    /\ form.line = NoLine
    /\ \A v \in Ids : variant[v].line # l
    /\ Submit(l, form.rows)
    /\ form' = IF answered THEN Closed ELSE form
    /\ UNCHANGED <<keys, made>>

FormNext ==
    \/ OpenNew \/ \E l \in Lines : OpenPage(l)
    \/ /\ form # Closed
       /\ \/ \E i \in DOMAIN form.axes : RemoveAxis(i) \/ \E axis \in AxisTexts : TypeAxis(i, axis)
          \/ \E i \in DOMAIN form.rows : UpdateVariant(i) \/ RemoveVariant(i)
          \/ AddAxis \/ AddVariant \/ Rebuild \/ SaveChanges \/ CreateProduct
--------------------------------------------------------------------------------
(* A variant that a save keeps alive is still the same thing to the order  *)
(* lines and the stock that name it: it may change its SKU or its option   *)
(* combination, never both at once, whatever was typed, rebuilt, removed   *)
(* and added on the form (product-form-state.ts, rebuildMatrix: rows are   *)
(* matched by their combination rather than by position).                  *)
VariantKeepsSkuOrOptions == [][form # Closed => \A v \in Ids :
    variant[v].live /\ variant'[v].live =>
        variant[v].sku = variant'[v].sku \/ variant[v].options = variant'[v].options
  ]_<<variantVars, formVars>>

(* A row goes on editing the variant it was saved as: saving, correcting   *)
(* the SKU and saving again must not replace it.  writes.ts:521 relies on  *)
(* it: "the console's form always sends ids".                              *)
SavedRowsKeepTheirVariant == \A key \in DOMAIN made : Cardinality(made[key]) = 1
================================================================================
