----------------------------- MODULE MCCheckoutForm -----------------------------
(* A small checkout page: what may be typed into it, in two tabs on two    *)
(* carts.                                                                  *)
EXTENDS CheckoutForm, TLC

Entry(region, mode, rest) == [region |-> region, mode |-> mode, phone |-> 1, rest |-> rest]
SomeFields ==
    {Entry("here", "cod", 1), Entry("here", "prepaid", 1), Entry("here", "cod", 2),
     Entry("island", "cod", 1), Entry("mixed", "cod", 1)}

SameTabs == Permutations(Browsers) \cup Permutations(Posts) \cup Permutations(Baskets)

SpecForms == FormsInit /\ [][FormsNext]_pageVars
================================================================================
