------------------------------- MODULE SaleForm -------------------------------
(***************************************************************************)
(* The form that records a sale (pages/transactions/TransactionRecordPage), *)
(* with the drafts of sales it saves, loads and deletes.  A handler is one  *)
(* action together with the effects React runs after it: the unit that     *)
(* follows the business and the total that follows the lines.              *)
(*                                                                         *)
(* What becomes of a submitted sale is the subject of SaleRecords.         *)
(*                                                                         *)
(* Amounts are counted in equal parts of a cent: a price times a fractional *)
(* quantity need not be whole cents, nor what is typed as the total.  NaN   *)
(* stands for an empty or unreadable input.  A line has one amount, its     *)
(* quantity times its price, NaN when one of them is refused.              *)
(* Messages, the upper limits of the inputs, and the contact, the note and  *)
(* the payment method of the form are left out.                            *)
(***************************************************************************)
EXTENDS Integers, FiniteSets, Sequences, SequencesExt

CONSTANTS Businesses,    \* businesses of the account
          Units,         \* their units
          BusinessOf,    \* [Units -> Businesses]
          Products,      \* products of the catalogue
          UnitOf,        \* [Products -> Units]
          Home,          \* the unit of a member of the scope level "unit"
          Cent,          \* the parts of a cent that amounts are counted in
          MaxAmount,     \* bound: the largest amount that is typed
          MaxLines       \* bound: lines of a sale

VARIABLES
  status,     \* "closed", "idle", "saving" or "drafting" (formStatus and the page)
  level,      \* scopeLevel of the member
  options,    \* active units in the options, loaded or from the workspace
  loading,    \* listBusinesses, listProducts and listBusinessUnits are under way
  draft,      \* <<d>> while the draft d the form was opened with is loading
  fields,     \* the inputs
  request     \* the request that was sent last

vars == <<status, level, options, loading, draft, fields, request>>

NaN == -1
Amounts == {NaN} \cup 0 .. MaxAmount
None == "none"

\* A line: an item typed by name or selected among the products.
Lines == [item : Products \cup {"", "typed"}, amount : Amounts]
NewLine == [item |-> "", amount |-> NaN]

Fields == [business : Businesses \cup {None}, unit : Units \cup {None},
           customer : {"", "typed", "known"}, payment : {"paid", "pending"},
           total : Amounts, paid : Amounts, itemized : BOOLEAN, lines : Seq(Lines)]

NoFields == [business |-> None, unit |-> None, customer |-> "", payment |-> "paid",
             total |-> NaN, paid |-> NaN, itemized |-> FALSE, lines |-> <<NewLine>>]

NoRequest == [kind |-> "none"]

\* toNumber
Number(a) == IF a = NaN THEN 0 ELSE a

\* Math.round(a * 100) / 100: to the nearest cent, half a cent up.
Rounded(a) == ((2 * a + Cent) \div (2 * Cent)) * Cent

\* parsePositiveMoney(a) ?? 0
Money(a) == Rounded(Number(a))

\* itemizedTotal
ItemizedTotal(lines) ==
  FoldSeq(LAMBDA l, sum : sum + Number(l.amount), 0, lines)

\* selectedBusinessUnits
Selectable(business) == {u \in options : BusinessOf[u] = business /\ (level = "unit" => u = Home)}

\* setUnitId of the first selectable unit when the unit is not among them.
FollowBusiness(f) ==
  IF Selectable(f.business) # {} /\ f.unit \notin Selectable(f.business)
  THEN [f EXCEPT !.unit = CHOOSE u \in Selectable(f.business) : TRUE] ELSE f

\* Mutant: the total follows the lines, not the switch.
FollowLinesOnly(old, f) ==
  IF f.itemized /\ ItemizedTotal(old.lines) # ItemizedTotal(f.lines)
  THEN [f EXCEPT !.total = IF ItemizedTotal(f.lines) > 0 THEN ItemizedTotal(f.lines) ELSE NaN]
  ELSE f

\* The total is that of the lines whenever their sum or the switch has changed.
FollowLines(old, f) ==
  IF f.itemized /\ (~old.itemized \/ ItemizedTotal(old.lines) # ItemizedTotal(f.lines))
  THEN [f EXCEPT !.total = IF ItemizedTotal(f.lines) > 0 THEN ItemizedTotal(f.lines) ELSE NaN]
  ELSE f

\* A handler sets the fields, then the effects run.
Set(f) == fields' = FollowLines(fields, FollowBusiness(f))

\* The form answers to the user.  While a request is under way its inputs still
\* work, but the request has been built; such edits are left out.
Edits == status = "idle" /\ UNCHANGED <<status, level, options, loading, draft, request>>

-----------------------------------------------------------------------------
(* Opening and loading.                                                    *)

\* initialBusinessId and initialUnitId.
Initial(l, known) ==
  [NoFields EXCEPT !.business = IF l = "master" /\ known = {} THEN None ELSE BusinessOf[Home],
                   !.unit = IF l = "unit" THEN Home ELSE None]

\* The page is opened, new or with ?draft, with or without a workspace.
Open(d) ==
  /\ status = "closed" /\ status' = "idle"
  /\ level' \in {"master", "business", "unit"}
  /\ options' \in {{}, Units}
  /\ loading' = TRUE /\ draft' = d
  /\ fields' = Initial(level', options')
  /\ UNCHANGED request

\* The businesses, units and products arrive; inactive units are left out.
Loaded ==
  /\ status # "closed" /\ loading /\ loading' = FALSE
  /\ options' \in {Units, {Home}}
  /\ fields' = LET f == IF fields.business = None
                        THEN [fields EXCEPT !.business = BusinessOf[Home]] ELSE fields
                   ok == {u \in options' : BusinessOf[u] = f.business /\ (level = "unit" => u = Home)}
               IN IF ok # {} /\ f.unit \notin ok
                  THEN [f EXCEPT !.unit = CHOOSE u \in ok : TRUE] ELSE f
  /\ UNCHANGED <<status, level, draft, request>>

\* The catalogue cannot be loaded: the workspace's options stay.
LoadFails ==
  /\ status # "closed" /\ loading /\ loading' = FALSE
  /\ UNCHANGED <<status, level, options, draft, fields, request>>

\* The draft arrives and replaces what was typed; the scope of a member of a
\* unit is kept, and lines are replaced only by lines.
DraftLoaded ==
  /\ status = "idle" /\ draft # <<>>
  /\ Set([draft[1] EXCEPT
            !.business = IF level = "unit" THEN fields.business ELSE @,
            !.unit = IF level = "unit" THEN fields.unit ELSE @,
            !.lines = IF @ = <<>> THEN fields.lines ELSE @])
  /\ draft' = <<>>
  /\ UNCHANGED <<status, level, options, loading, request>>

DraftFails ==
  /\ status = "idle" /\ draft # <<>>
  /\ draft' = <<>>
  /\ UNCHANGED <<status, level, options, loading, fields, request>>

-----------------------------------------------------------------------------
(* The inputs.                                                             *)

\* The business can be chosen by a member of the whole account only.
ChooseBusiness(b) ==
  /\ Edits /\ level = "master" /\ options # {}
  /\ Set([fields EXCEPT !.business = b, !.unit = None])

ChooseUnit(u) ==
  /\ Edits /\ level # "unit"
  /\ Cardinality(Selectable(fields.business)) > 1 /\ u \in Selectable(fields.business)
  /\ Set([fields EXCEPT !.unit = u])

\* Typing a name that is not the selected customer's drops the selection.
TypeCustomer(c) == Edits /\ Set([fields EXCEPT !.customer = c])

\* The total is read-only while it is made of lines.
TypeTotal(a) == Edits /\ ~fields.itemized /\ Set([fields EXCEPT !.total = a])

\* handleItemizedToggle
ToggleItemized ==
  /\ Edits
  /\ Set([fields EXCEPT !.itemized = ~@, !.total = IF fields.itemized THEN NaN ELSE @])

\* updateLineItem: a typed name is no product any more.
TypeItem(i) == Edits /\ fields.itemized /\ Set([fields EXCEPT !.lines[i].item = "typed"])

TypeAmount(i, a) == Edits /\ fields.itemized /\ Set([fields EXCEPT !.lines[i].amount = a])

\* resolveProductPrice with the quantity of the line: the known customer has a
\* price of their own.
PriceFor(customer) == IF customer = "known" THEN 1 ELSE 0

\* selectProductForLineItem, among the products of the unit.
SelectProduct(i, p) ==
  /\ Edits /\ fields.itemized
  /\ fields.lines[i].item = "typed" /\ UnitOf[p] = fields.unit
  /\ Set([fields EXCEPT !.lines[i] = [item |-> p, amount |-> PriceFor(fields.customer)]])

AddLine ==
  /\ Edits /\ fields.itemized /\ Len(fields.lines) < MaxLines
  /\ Set([fields EXCEPT !.lines = Append(@, NewLine)])

\* The last line cannot be removed.
RemoveLine(i) ==
  /\ Edits /\ fields.itemized /\ Len(fields.lines) > 1
  /\ Set([fields EXCEPT !.lines = RemoveAt(@, i)])

\* Choosing "paid" empties the amount that was paid.
ChoosePayment(p) ==
  Edits /\ Set([fields EXCEPT !.payment = p, !.paid = IF p = "paid" THEN NaN ELSE @])

TypePaid(a) == Edits /\ fields.payment = "pending" /\ Set([fields EXCEPT !.paid = a])

-----------------------------------------------------------------------------
(* Validation and what is sent.                                            *)

\* validateSaleLineInput
LineOk(l) == l.item # "" /\ l.amount # NaN

\* validateForm: the fields it names.
Invalid(f) ==
  (IF f.business = None THEN {"business"} ELSE {})
  \cup (IF f.unit \notin Selectable(f.business) THEN {"unit"} ELSE {})
  \cup (IF f.customer = "" THEN {"customerName"} ELSE {})
  \cup (IF Money(f.total) = 0 THEN {"totalAmount"} ELSE {})
  \cup (IF f.payment = "pending" /\ (f.paid = NaN \/ (f.total # NaN /\ f.paid >= Money(f.total)))
        THEN {"amountPaid"} ELSE {})
  \cup (IF f.itemized /\ \E i \in DOMAIN f.lines : ~LineOk(f.lines[i]) THEN {"line"} ELSE {})

\* calculatePendingAmount of parsedTotalAmount and parsedAmountPaid: the total is
\* rounded, what has been paid is not.
Pending(f) ==
  IF f.payment = "pending" /\ Money(f.total) > Number(f.paid)
  THEN Money(f.total) - Number(f.paid) ELSE 0

\* transactionLines: the lines as they were typed, unrounded; a sale without lines
\* has one line with its rounded total.
SaleLines(f) ==
  IF f.itemized THEN [i \in DOMAIN f.lines |-> [f.lines[i] EXCEPT !.amount = Number(@)]]
  ELSE IF Money(f.total) > 0
       THEN <<[item |-> "typed", amount |-> Money(f.total)]>>
       ELSE <<>>

\* draftPayload
DraftPayload(f) ==
  [f EXCEPT !.customer = IF @ = "" THEN "" ELSE "typed",
            !.total = IF Money(@) = 0 THEN NaN ELSE Money(@),
            !.paid = IF f.payment = "pending" THEN @ ELSE NaN,
            !.lines = SaleLines(f)]

\* createCloudTransaction; the local record has the same content.
SubmitValid ==
  /\ status = "idle" /\ Invalid(fields) = {}
  /\ status' = "saving"
  /\ request' = [kind |-> "sale", business |-> fields.business, unit |-> fields.unit,
                 payment |-> fields.payment, outstanding |-> Pending(fields),
                 paid |-> Number(fields.paid), amount |-> ItemizedTotal(SaleLines(fields))]
  /\ UNCHANGED <<level, options, loading, draft, fields>>

\* handleSaveDraft, of any form.
SaveDraft ==
  /\ status = "idle" /\ status' = "drafting"
  /\ UNCHANGED <<level, options, loading, draft, fields, request>>

\* An error is shown and the form can be edited again.
Refused ==
  /\ status \in {"saving", "drafting"}
  /\ status' = "idle" /\ request' = NoRequest
  /\ UNCHANGED <<level, options, loading, draft, fields>>

\* The invoice or the drafts are opened, or the user leaves.
Leave ==
  /\ status # "closed" /\ status' = "closed"
  /\ level' = "master" /\ options' = {} /\ loading' = FALSE /\ draft' = <<>>
  /\ fields' = NoFields /\ request' = NoRequest

Shut == status = "closed"

Init ==
  /\ status = "closed" /\ level = "master" /\ options = {} /\ loading = FALSE
  /\ draft = <<>> /\ fields = NoFields /\ request = NoRequest

\* Drafts as the form saves them: of an untouched form, and with a line and a
\* part of the total paid.
Drafts ==
  LET empty == [NoFields EXCEPT !.business = BusinessOf[Home], !.unit = Home]
  IN {DraftPayload(empty),
      DraftPayload([empty EXCEPT !.customer = "typed", !.payment = "pending", !.paid = 1,
        !.total = 2, !.itemized = TRUE, !.lines = [i \in 1 .. 2 |-> [item |-> "typed", amount |-> 1]]])}

OpenAny == \E d \in {<<>>} \cup {<<d>> : d \in Drafts} : Open(d)

LineEdits ==
  \E i \in DOMAIN fields.lines :
    \/ TypeItem(i) \/ RemoveLine(i)
    \/ \E a \in Amounts : TypeAmount(i, a)
    \/ \E p \in Products : SelectProduct(i, p)

Step ==
  \/ Loaded \/ LoadFails \/ DraftLoaded \/ DraftFails
  \/ \E b \in Businesses : ChooseBusiness(b)
  \/ \E u \in Units : ChooseUnit(u)
  \/ \E c \in {"", "typed", "known"} : TypeCustomer(c)
  \/ \E a \in Amounts : TypeTotal(a) \/ TypePaid(a)
  \/ ToggleItemized \/ LineEdits \/ AddLine
  \/ \E p \in {"paid", "pending"} : ChoosePayment(p)
  \/ SubmitValid \/ SaveDraft \/ Refused \/ Leave

Next == OpenAny \/ Step

Spec == Init /\ [][Next]_vars

-----------------------------------------------------------------------------
(* Properties.                                                             *)

TypeOK ==
  /\ status \in {"closed", "idle", "saving", "drafting"}
  /\ level \in {"master", "business", "unit"} /\ options \subseteq Units
  /\ loading \in BOOLEAN
  /\ fields.business \in Businesses \cup {None} /\ fields.unit \in Units \cup {None}
  /\ fields.total \in Nat \cup {NaN}
  /\ fields.paid \in Amounts /\ fields.itemized \in BOOLEAN
  /\ Len(fields.lines) \in 1 .. MaxLines
  /\ \A i \in DOMAIN fields.lines : fields.lines[i] \in Lines

\* A sale has lines that cost something, and what it says is still owed is their
\* sum in whole cents less what was paid: the total, which is typed, made of the
\* lines or loaded with a draft, is never that of other lines, whatever was switched,
\* edited or loaded before.  The lines themselves are not rounded, so that what is
\* owed may exceed them by up to half a cent.
SentAmountsAgree ==
  request.kind = "sale" =>
    /\ request.amount > 0
    /\ request.outstanding =
         IF request.payment = "paid" THEN 0 ELSE Rounded(request.amount) - request.paid
=============================================================================
