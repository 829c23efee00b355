------------------------------ MODULE PromotionForm ------------------------------
(***************************************************************************)
(* The console's promotion builder: form-model.ts turns a stored promotion *)
(* into texts and texts into a payload, the routes and promotions/server.ts*)
(* check the payload again, replace the whole row and write the audit entry*)
(* in one transaction.                                                     *)
(*                                                                         *)
(* Conditions that hold a list or a name as it is (channel, segment) go    *)
(* like the ids of contains_product, quantities like the usage limit.      *)
(* Names, the limit per customer and issue texts are left out.             *)
(***************************************************************************)
EXTENDS Integers, Sequences, SequencesExt

CONSTANTS
    Desks,            \* tabs of the staff
    MaxPromotions,    \* bound: rows
    MaxEdits,         \* bound: edits typed
    MaxTrail,         \* bound: audit entries
    MaxRules,         \* bound: condition rows of a form
    CodeTexts,        \* codes typed; Upper gives the stored spelling
    Upper,            \* of a code; a text that is no code is not in its domain
    AmountTexts,      \* amounts and percentages typed, see Amount
    MinuteTexts,      \* what a datetime-local input may hold, in minutes
    CountTexts,       \* usage limits typed
    IdTexts,          \* lists of ids typed
    MaxRulePaise,     \* MAX_RULE_PAISE
    Imported,         \* promotions posted to the API by another client
    Blank             \* an empty input; NULL in the database

ASSUME PromotionsAssumption ==
    MaxPromotions \in Nat /\ MaxEdits \in Nat /\ MaxTrail \in Nat
    /\ MaxRules \in Nat /\ MaxRulePaise \in Nat

VARIABLES
    promo,            \* the promotions
    desk,             \* the form of each tab
    trail,            \* the audit log of promotions
    edits             \* how much of the bound is used

promoVars == <<promo, desk, trail, edits>>

PromoIds == DOMAIN promo
Away == [at |-> "away"]
PromotionsInit ==
    /\ promo = <<>> /\ trail = <<>> /\ edits = 0
    /\ desk = [d \in Desks |-> Away]
--------------------------------------------------------------------------------
(* Texts.  An amount is a whole part and the digits after the point.       *)

Digits(n) ==
    IF n % 100 = 0 THEN <<>> ELSE IF n % 10 = 0 THEN <<(n % 100) \div 10>>
    ELSE <<(n % 100) \div 10, n % 10>>
(* String(n / 100), of paise and of basis points.                          *)
PaiseToRupees(n) == [whole |-> n \div 100, digits |-> Digits(n)]
Hundredths(digits) ==
    CASE Len(digits) = 0 -> 0 [] Len(digits) = 1 -> digits[1] * 10 [] OTHER -> digits[1] * 10 + digits[2]
RupeesToPaise(t) == t.whole * 100 + Hundredths(t.digits)
IsAmount(t, least) == t # Blank /\ Len(t.digits) <= 2 /\ RupeesToPaise(t) >= least

(* A percentage is rounded where an amount is refused.  An exact half, which*)
(* binary fractions may miss from below (1.005), is taken upwards.         *)
PercentToBps(t) == RupeesToPaise(t) + (IF Len(t.digits) > 2 /\ t.digits[3] >= 5 THEN 1 ELSE 0)
IsPercent(t) == t # Blank /\ PercentToBps(t) \in 1..10000

(* Instants in half minutes; the input shows minutes, in India.            *)
IstOffset == 330
IsoToIstLocal(i) == IF i = Blank THEN Blank ELSE (i + 2 * IstOffset) \div 2
IstLocalToIso(m) == IF m = Blank THEN Blank ELSE 2 * (m - IstOffset)

(* join(", ") and split on commas and blanks.                              *)
JoinIds(ids) == FlattenSeq([i \in DOMAIN ids |-> IF i = 1 THEN <<ids[i]>> ELSE <<",", ids[i]>>])
ParseIds(t) == SelectSeq(t, LAMBDA x : x # ",")

Rule(type) == [type |-> type, amount |-> Blank, cap |-> Blank, ids |-> <<>>]
ConditionTypes == {"cart_subtotal_min", "contains_product", "first_order"}
EffectTypes == {"flat_off", "percent_off", "free_shipping", "buy_x_get_y"}

(* conditionToRow and effectToRow; a rule has the fields of its type only. *)
RuleToRow_NoZero(r) ==   \* mutant: a cap of zero is taken for none
    [r EXCEPT !.amount = IF @ = Blank THEN Blank ELSE PaiseToRupees(@),
              !.cap = IF @ \in {Blank, 0} THEN Blank ELSE PaiseToRupees(@),
              !.ids = JoinIds(@)]
RuleToRow(r) ==
    [r EXCEPT !.amount = IF @ = Blank THEN Blank ELSE PaiseToRupees(@),
              !.cap = IF @ = Blank THEN Blank ELSE PaiseToRupees(@),
              !.ids = JoinIds(@)]
RowToRule(r) ==
    [r EXCEPT !.amount = IF @ = Blank THEN Blank
                         ELSE IF r.type = "percent_off" THEN PercentToBps(@) ELSE RupeesToPaise(@),
              !.cap = IF @ = Blank THEN Blank ELSE RupeesToPaise(@),
              !.ids = ParseIds(@)]
RowIsFine(r) ==
    CASE r.type = "cart_subtotal_min" -> IsAmount(r.amount, 0)
      [] r.type = "flat_off"          -> IsAmount(r.amount, 1)
      [] r.type = "percent_off"       -> IsPercent(r.amount) /\ (r.cap = Blank \/ IsAmount(r.cap, 0))
      [] r.type \in {"contains_product", "buy_x_get_y"} -> ParseIds(r.ids) # <<>>
      [] OTHER -> TRUE

BlankPromotion ==
    [code |-> Blank, status |-> "draft", startsAt |-> Blank, endsAt |-> Blank, limit |-> Blank,
     conditions |-> <<>>, effects |-> <<Rule("flat_off")>>]
ToEditorState(p) ==
    [p EXCEPT !.startsAt = IsoToIstLocal(@), !.endsAt = IsoToIstLocal(@),
              !.conditions = [i \in DOMAIN @ |-> RuleToRow(@[i])],
              !.effects = [i \in DOMAIN @ |-> RuleToRow(@[i])]]
ToPayload(f) ==
    [f EXCEPT !.code = Upper[@], !.startsAt = IstLocalToIso(@), !.endsAt = IstLocalToIso(@),
              !.conditions = [i \in DOMAIN @ |-> RowToRule(@[i])],
              !.effects = [i \in DOMAIN @ |-> RowToRule(@[i])]]

WindowInOrder(p) == p.startsAt # Blank /\ p.endsAt # Blank => p.startsAt < p.endsAt
FormIsFine(f) ==
    /\ f.code \in DOMAIN Upper /\ f.effects # <<>>
    /\ \A i \in DOMAIN f.conditions : RowIsFine(f.conditions[i])
    /\ \A i \in DOMAIN f.effects : RowIsFine(f.effects[i])
    /\ f.limit # Blank => f.limit >= 1
    /\ WindowInOrder([startsAt |-> IstLocalToIso(f.startsAt), endsAt |-> IstLocalToIso(f.endsAt)])

(* promotionPayloadSchema and validatePromotionInput.                      *)
UsageLimitMax == 1000000
Validated(p) ==
    /\ WindowInOrder(p) /\ p.effects # <<>> /\ Len(p.effects) <= 10 /\ Len(p.conditions) <= 20
    /\ p.limit # Blank => p.limit \in 1..UsageLimitMax
    /\ \A r \in ToSet(p.conditions) \cup ToSet(p.effects) :
          \A money \in {r.amount, r.cap} \ {Blank} : money >= 0 /\ money <= MaxRulePaise
--------------------------------------------------------------------------------
(* The form.                                                               *)

Open(d, id, state) ==
    /\ Len(trail) < MaxTrail
    /\ desk' = [desk EXCEPT ![d] = [at |-> "form", promo |-> id, form |-> state, touched |-> {},
                                    opened |-> IF id = 0 THEN Blank ELSE promo[id],
                                    before |-> Blank]]
NewPromotion(d) == desk[d] = Away /\ Open(d, 0, BlankPromotion) /\ UNCHANGED <<promo, trail, edits>>
EditPromotion(d) == \E id \in PromoIds :
    desk[d] = Away /\ Open(d, id, ToEditorState(promo[id])) /\ UNCHANGED <<promo, trail, edits>>

Edit(d, field, value) ==
    /\ desk[d].at = "form" /\ edits < MaxEdits /\ value # desk[d].form[field]
    /\ edits' = edits + 1
    /\ desk' = [desk EXCEPT ![d].form[field] = value, ![d].touched = @ \cup {field}]
    /\ UNCHANGED <<promo, trail>>
EditPlain(d) ==
    \/ \E c \in CodeTexts : Edit(d, "code", c)
    \/ \E s \in {"draft", "active", "archived"} : Edit(d, "status", s)
    \/ \E m \in MinuteTexts \cup {Blank}, f \in {"startsAt", "endsAt"} : Edit(d, f, m)
    \/ \E n \in CountTexts \cup {Blank} : Edit(d, "limit", n)
(* Another type starts the row anew; the other inputs write into it.       *)
EditRule(d) == \E field \in {"conditions", "effects"} :
    LET rows  == desk[d].form[field]
        types == IF field = "conditions" THEN ConditionTypes ELSE EffectTypes
        first == IF field = "conditions" THEN "cart_subtotal_min" ELSE "flat_off" IN
    /\ desk[d].at = "form"
    /\ \/ Len(rows) < MaxRules /\ Edit(d, field, Append(rows, Rule(first)))
       \/ \E i \in DOMAIN rows :
             \/ Edit(d, field, RemoveAt(rows, i))
             \/ \E type \in types \ {rows[i].type} : Edit(d, field, [rows EXCEPT ![i] = Rule(type)])
             \/ /\ rows[i].type \in {"cart_subtotal_min", "flat_off", "percent_off"}
                /\ \E t \in AmountTexts : Edit(d, field, [rows EXCEPT ![i].amount = t])
             \/ /\ rows[i].type = "percent_off"
                /\ \E t \in AmountTexts : Edit(d, field, [rows EXCEPT ![i].cap = t])
             \/ /\ rows[i].type \in {"contains_product", "buy_x_get_y"}
                /\ \E t \in IdTexts : Edit(d, field, [rows EXCEPT ![i].ids = t])

(* submit: refused by the form, or sent.                                   *)
SubmitPromotion(d) ==
    /\ desk[d].at = "form" /\ FormIsFine(desk[d].form)
    /\ desk' = [desk EXCEPT ![d].at = "sent"] /\ UNCHANGED <<promo, trail, edits>>
ArchiveClicked(d) ==
    /\ desk[d].at = "form" /\ desk[d].promo # 0
    /\ desk' = [desk EXCEPT ![d].at = "archiving"] /\ UNCHANGED <<promo, trail, edits>>
--------------------------------------------------------------------------------
(* The server.                                                             *)

CodeTaken(code, id) == \E other \in PromoIds \ {id} : promo[other].code = code
Noted(d, what, id, before, after) ==
    trail' = Append(trail, [what |-> what, promo |-> id, before |-> before, after |-> after,
                            opened |-> desk[d].opened, touched |-> desk[d].touched])
SaveRefused(d) == desk' = [desk EXCEPT ![d].at = "form"] /\ UNCHANGED <<promo, trail, edits>>
Answered(d) == desk' = [desk EXCEPT ![d] = Away] /\ UNCHANGED edits

CreatePromotion(d) ==
    LET p == ToPayload(desk[d].form)  id == Len(promo) + 1 IN
    /\ desk[d].at = "sent" /\ desk[d].promo = 0
    /\ IF ~Validated(p) \/ CodeTaken(p.code, 0) THEN SaveRefused(d)
       ELSE id <= MaxPromotions /\ promo' = Append(promo, p) /\ Noted(d, "created", id, Blank, p) /\ Answered(d)

(* SELECT .. FOR UPDATE: what is read here is what is overwritten.         *)
LockedBy(d) == desk[d].at \in {"updating", "clearing"}
LockPromotion_NoLock(d) ==   \* mutant: FOR UPDATE is dropped
    /\ desk[d].at \in {"sent", "archiving"} /\ desk[d].promo # 0
    /\ desk' = [desk EXCEPT ![d].at = IF @ = "sent" THEN "updating" ELSE "clearing",
                            ![d].before = promo[desk[d].promo]]
    /\ UNCHANGED <<promo, trail, edits>>
LockPromotion(d) ==
    /\ desk[d].at \in {"sent", "archiving"} /\ desk[d].promo # 0
    /\ ~\E e \in Desks \ {d} : LockedBy(e) /\ desk[e].promo = desk[d].promo
    /\ desk' = [desk EXCEPT ![d].at = IF @ = "sent" THEN "updating" ELSE "clearing",
                            ![d].before = promo[desk[d].promo]]
    /\ UNCHANGED <<promo, trail, edits>>
UpdatePromotion(d) ==
    LET p == ToPayload(desk[d].form)  id == desk[d].promo IN
    /\ desk[d].at = "updating"
    /\ IF ~Validated(p) \/ CodeTaken(p.code, id) THEN SaveRefused(d)
       ELSE promo' = [promo EXCEPT ![id] = p] /\ Noted(d, "updated", id, desk[d].before, p) /\ Answered(d)
ArchivePromotion(d) ==
    LET id == desk[d].promo  p == [desk[d].before EXCEPT !.status = "archived"] IN
    /\ desk[d].at = "clearing"
    /\ IF desk[d].before.status = "archived" THEN UNCHANGED <<promo, trail>>
       ELSE /\ promo' = [promo EXCEPT ![id].status = "archived"]
            /\ Noted(d, "archived", id, desk[d].before, p)
    /\ Answered(d)
PromotionFails(d) == desk[d].at \notin {"away", "form"} /\ SaveRefused(d)

(* POST by another client: any instant, not only whole minutes.            *)
PostPromotion == \E p \in Imported :
    /\ Validated(p) /\ ~CodeTaken(p.code, 0) /\ Len(promo) < MaxPromotions
    /\ promo' = Append(promo, p)
    /\ trail' = Append(trail, [what |-> "created", promo |-> Len(promo) + 1, before |-> Blank,
                               after |-> p, opened |-> Blank, touched |-> {}])
    /\ UNCHANGED <<desk, edits>>

PromotionsNext ==
    \/ \E d \in Desks :
          NewPromotion(d) \/ EditPromotion(d) \/ EditPlain(d) \/ EditRule(d) \/ SubmitPromotion(d)
            \/ ArchiveClicked(d) \/ CreatePromotion(d) \/ LockPromotion(d) \/ UpdatePromotion(d)
            \/ ArchivePromotion(d) \/ PromotionFails(d)
    \/ PostPromotion
--------------------------------------------------------------------------------
(* The audit log of a promotion is its history -- every entry starts where *)
(* the one before it ended, whoever saved or archived at the same time --  *)
(* and a save changes what was typed into its form and nothing else of the *)
(* promotion that form was opened on: texts, Indian time and rupees bring  *)
(* every other field back as it was, but for the seconds of its window.    *)
Minute(i) == IF i = Blank THEN Blank ELSE i - (i % 2)
Kept(p) == [p EXCEPT !.startsAt = Minute(@), !.endsAt = Minute(@)]
TrailTellsTheEdits == \A j \in DOMAIN trail :
    LET e == trail[j]  earlier == {i \in 1..(j - 1) : trail[i].promo = e.promo} IN
    /\ e.what # "created" => /\ earlier # {}
                             /\ e.before = trail[CHOOSE i \in earlier : \A k \in earlier : k <= i].after
    /\ e.what = "updated" => \A f \in DOMAIN e.opened \ e.touched : e.after[f] = Kept(e.opened)[f]
================================================================================
