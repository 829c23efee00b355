-------------------------------- MODULE Options ---------------------------------
(***************************************************************************)
(* The option matrix of a product: its axes, each a name with its values,  *)
(* and its variants, each at one selection of a value per axis.            *)
(* catalog/options.ts, which the console's form, the importer, the write   *)
(* layer and the storefront's picker all call.                             *)
(*                                                                         *)
(* A selection is a function from axis names to values: optionKey, which   *)
(* sorts and escapes one into text, is equality of these functions.  A     *)
(* value is the sequence of its parts between commas.                      *)
(***************************************************************************)
EXTENDS Integers, Sequences, SequencesExt

NoOptions == [name \in {} |-> name]

AxisNames(axes) == {axes[i].name : i \in DOMAIN axes}
ValuesOf(axes, name) == UNION {ToSet(axes[i].values) : i \in {j \in DOMAIN axes : axes[j].name = name}}

(* validateVariantMatrix finds nothing to say.  A product without axes is  *)
(* the case of one variant that chooses nothing.                           *)
MatrixOK(axes, variants) ==
    /\ \A i, j \in DOMAIN axes : axes[i].name = axes[j].name => i = j
    /\ \A i \in DOMAIN axes : axes[i].values # <<>> /\ IsInjective(axes[i].values)
    /\ \A i \in DOMAIN variants :
          /\ DOMAIN variants[i].options = AxisNames(axes)
          /\ \A name \in AxisNames(axes) : variants[i].options[name] \in ValuesOf(axes, name)
    /\ \A i, j \in DOMAIN variants : variants[i].options = variants[j].options => i = j

(* The console's form shows the values of an axis as one text, joined by   *)
(* commas, and reads it back split at every comma.                         *)
AddNew(known, more) ==
    FoldLeft(LAMBDA sofar, x : IF Contains(sofar, x) THEN sofar ELSE Append(sofar, x), known, more)
ParseAxisValues(values) ==
    LET parts == FlattenSeq(values) IN AddNew(<<>>, [i \in DOMAIN parts |-> <<parts[i]>>])
FormAxes(axes) == [i \in DOMAIN axes |-> [axes[i] EXCEPT !.values = ParseAxisValues(@)]]

(* Every combination of the axes, the last axis varying first; the one     *)
(* empty selection when there is no axis.                                  *)
CartesianCombinations(axes) ==
    FoldLeft(LAMBDA partials, axis :
                FlattenSeq([i \in DOMAIN partials |->
                    [j \in DOMAIN axis.values |-> (axis.name :> axis.values[j]) @@ partials[i]]]),
             <<NoOptions>>, axes)

(* The values of one axis that some variant has when every other choice of *)
(* the selection is held.                                                  *)
ReachableValues(variants, selection, name) ==
    {v.options[name] : v \in {u \in variants :
        /\ name \in DOMAIN u.options
        /\ \A other \in DOMAIN selection \ {name} :
              other \in DOMAIN u.options /\ u.options[other] = selection[other]}}

MatchVariant(variants, selection) == {v \in variants : v.options = selection}
================================================================================
