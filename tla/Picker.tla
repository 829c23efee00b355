--------------------------------- MODULE Picker ---------------------------------
(***************************************************************************)
(* The option selector of a product page, components/VariantPicker.tsx:    *)
(* one chip per value of each axis, disabled when no variant on sale has   *)
(* it together with the other choices.                                     *)
(***************************************************************************)
EXTENDS Options

CONSTANT Pages   \* what the page may be given: [axes, variants], each variant
                 \* with its options, price and whether it is on sale

VARIABLES page, selection

pickerVars == <<page, selection>>

(* Active, and untracked or in stock.                                      *)
Sellable == {v \in ToSet(page.variants) : v.onSale}

(* The first of the cheapest, in the page's order.                         *)
Cheapest(variants) ==
    LET at == {i \in DOMAIN page.variants : page.variants[i] \in variants}
    IN  page.variants[CHOOSE i \in at : \A j \in at :
            \/ page.variants[i].price < page.variants[j].price
            \/ page.variants[i].price = page.variants[j].price /\ i <= j]

OpensOn_Any(variants) ==      \* mutant: on sale or not
    IF page.variants = <<>> THEN NoOptions ELSE Cheapest(ToSet(page.variants)).options
OpensOn(variants) == IF variants = {} THEN NoOptions ELSE Cheapest(variants).options

PickerInit ==
    /\ page \in Pages
    /\ selection = OpensOn(Sellable)

Selected(name, value) == name \in DOMAIN selection /\ selection[name] = value
ChipEnabled(name, value) ==
    value \in ReachableValues(Sellable, selection, name) \/ Selected(name, value)

(* A choice that leaves no variant falls back to the first that has the    *)
(* chosen value.                                                           *)
Click(name, value) ==
    LET next == (name :> value) @@ selection
        having == {i \in DOMAIN page.variants :
                      /\ page.variants[i] \in Sellable
                      /\ name \in DOMAIN page.variants[i].options
                      /\ page.variants[i].options[name] = value}
    IN  /\ ChipEnabled(name, value)
        /\ selection' = IF MatchVariant(Sellable, next) # {} \/ having = {} THEN next
                        ELSE page.variants[CHOOSE i \in having : \A j \in having : i <= j].options
        /\ UNCHANGED page

PickerNext == \E name \in AxisNames(page.axes) : \E value \in ValuesOf(page.axes, name) : Click(name, value)
PickerSpec == PickerInit /\ [][PickerNext]_pickerVars
--------------------------------------------------------------------------------
(* Whatever is clicked, the price and the SKU shown are those of a variant *)
(* the shopper can buy: the picker opens on one and cannot get stuck on a  *)
(* combination that does not exist, as long as anything is on sale.        *)
ShowsSomethingOnSale == Sellable # {} => MatchVariant(Sellable, selection) # {}

(* From whatever is selected, every other variant on sale has a chip, not  *)
(* yet selected, that can be clicked.  VariantPicker.tsx:16-20 says the    *)
(* shopper who sees XL greyed out switches colour.                         *)
AWayToEveryVariant == \A v \in Sellable : v.options = selection \/
    \E name \in DOMAIN v.options :
        ~Selected(name, v.options[name]) /\ ChipEnabled(name, v.options[name])
================================================================================
