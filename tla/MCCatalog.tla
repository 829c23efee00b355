-------------------------------- MODULE MCCatalog -------------------------------
(***************************************************************************)
(* Two products and two categories with rival slugs; two products in a     *)
(* spreadsheet; one product page; one checkout page.  They share no state: *)
(* the run explores one or another of them.                                *)
(***************************************************************************)
EXTENDS Catalog, Spreadsheet, Picker, MCCheckoutForm

CONSTANTS p1, p2, c1, c2, s1, s2, s3, s4

(* One title's shirt-2 is the other's own first choice.                    *)
SomeCandidates == [t \in {"shirt", "shirt-2"} |->
    IF t = "shirt" THEN <<s1, s2, s3>> ELSE <<s2, s4>>]
SomeTitles == {"shirt", "shirt-2"}
SomeKeys == {s1, "listing"}
(* Browsers are named like the products, posts like the consoles and the   *)
(* buyer's carts like the categories: SameTabs are the same permutations.  *)
Interchangeable == Permutations(Products) \cup Permutations(Categories) \cup Permutations(Procs)

S == <<"S">>
M == <<"M">>
L == <<"L">>
LM == <<"L", "M">>      \* one value with a comma in it
SomeValues == {S, LM}
Axis(name, values) == [name |-> name, values |-> values]
Stocked(sku, price, active, options) ==
    [sku |-> sku, price |-> price, barcode |-> Null, active |-> active, options |-> options]
Tee == [title |-> "tee", status |-> "active", summary |-> "soft", hidden |-> FALSE,
        axes |-> <<Axis("size", <<S, M>>)>>,
        variants |-> <<Stocked("A", 1, FALSE, "size" :> S), Stocked("B", 2, TRUE, "size" :> M)>>]
Mug == [title |-> "mug", status |-> "draft", summary |-> Null, hidden |-> TRUE,
        axes |-> <<>>, variants |-> <<Stocked("C", 1, TRUE, NoOptions)>>]
NothingYet == [h \in Handles |-> NoProduct]
SomeCatalogs == {
    NothingYet, [h \in Handles |-> IF h = "tee" THEN Tee ELSE Mug],
    [h \in Handles |-> IF h = "tee" THEN Tee ELSE NoProduct]}
SomeTyped == {
    [Tee EXCEPT !.axes = <<Axis("size", <<M, S>>)>>],
    [Mug EXCEPT !.axes = <<Axis("size", <<S>>), Axis("colour", <<L>>)>>,
                !.variants = <<Stocked("D", 1, TRUE, ("size" :> S) @@ ("colour" :> L))>>],
    [Mug EXCEPT !.variants = <<Stocked("1E5", 1, TRUE, NoOptions)>>],
    [Mug EXCEPT !.variants[1].barcode = "9E9"]}

Sold(price, onSale, options) == [price |-> price, onSale |-> onSale, options |-> options]
Of(size, colour) == ("size" :> size) @@ ("colour" :> colour)
TwoAxes == <<Axis("size", <<S, M>>), Axis("colour", <<S, M>>)>>
NoChoice == [axes |-> <<>>, variants |-> <<>>]
SomePages == {NoChoice} \cup {
    [axes |-> TwoAxes, variants |-> vs] :
       vs \in {<<Sold(a, x, Of(S, S)), Sold(2, y, Of(S, M)), Sold(b, z, Of(M, M))>> :
                  a, b \in 1..3, x, y, z \in BOOLEAN}}

VARIABLE part     \* which of the four the behaviour is about
InitEither ==
    /\ part \in {"pages", "sheet", "picker", "checkout"}
    /\ Init /\ SheetInit /\ PickerInit /\ FormsInit
    /\ part # "sheet" => catalog = NothingYet
    /\ part # "picker" => page = NoChoice
    /\ part # "checkout" => basket = CHOOSE b \in Baskets : TRUE
(* The keys of the cache have nothing to do with each other: one of them   *)
(* is stored or being read at a time.                                      *)
Filling(k) == \E r \in Readers : fill[r] # None /\ fill[r].key = k
OneKey == \A k, l \in Cached : (cache[k] # None /\ (cache[l] # None \/ Filling(l)))' => k = l
SpecEither ==
    /\ InitEither
    /\ [][ \/ part = "pages" /\ Next /\ OneKey /\ UNCHANGED <<sheetVars, pickerVars, pageVars, part>>
           \/ part = "sheet" /\ SheetNext /\ UNCHANGED <<vars, pickerVars, pageVars, part>>
           \/ part = "picker" /\ PickerNext /\ UNCHANGED <<vars, sheetVars, pageVars, part>>
           \/ part = "checkout" /\ FormsNext /\ UNCHANGED <<vars, sheetVars, pickerVars, part>>
         ]_<<vars, sheetVars, pickerVars, pageVars, part>>
================================================================================
